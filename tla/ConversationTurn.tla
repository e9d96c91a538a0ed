-------------------------- MODULE ConversationTurn --------------------------
(***************************************************************************)
(* The turns of one thread: how a request captures the model configuration *)
(* it will run under, what the main graph does with its checkpoint, how    *)
(* workflows survive approvals, restarts and changes of the configuration, *)
(* and the artifacts their parallel jobs write (core/graph.py,             *)
(* core/agent.py, core/model_access, services/artifact_service.py).        *)
(*                                                                         *)
(* What language models answer is arbitrary: a node that asks one takes    *)
(* any of the branches it has.  The life of a run's row is in ChatRuns;    *)
(* here a run is accepted, holds the thread's lock while its graph runs,   *)
(* and is settled.                                                         *)
(***************************************************************************)
EXTENDS Naturals, Sequences, FiniteSets, SequencesExt

CONSTANTS
  Types,      \* types of artifacts
  Earlier,    \* sets of types that may have a ready artifact from an earlier workflow
  Configs,    \* configurations a process may be started with
  Runs,       \* numbers of runs, taken in order
  MaxFaults   \* bound on exceptions, cancelled runs and ends of the process together

ASSUME TurnAssumption ==
  /\ IsFiniteSet(Types) /\ Earlier # {} /\ Earlier \subseteq SUBSET Types
  /\ Configs # {} /\ Configs \subseteq Nat \ {0}
  /\ IsFiniteSet(Runs) /\ Runs \subseteq Nat \ {0}
  /\ MaxFaults \in Nat

VARIABLES
  config,    \* current_snapshot() of the process
  ck,        \* the thread's checkpoint
  post,      \* the request being answered: what it has read
  turn,      \* the runs: where their graph is and the envelope they were accepted with
  open,      \* the thread's active run, 0 when there is none
  lock,      \* the run that has the thread's lock, 0 when it is free
  job,       \* the artifact jobs of the present fan-out
  artifact,  \* the rows of artifact_files, by id
  report,    \* what the fan-in of the last run told the user
  begun,     \* the configuration the unfinished workflow began with, 0 when there is none
  left,      \* the workflow was left open without a question to the user
  skewed,    \* a run was accepted on a checkpoint that another run still changed
  cut,       \* runs that left a row of theirs behind: cut short, or failed after the insert
  lost,      \* types with an artifact that failed after it was marked ready
  planned,   \* the experience the last run's design was made with
  faults

askVars == <<config, post, open>>
workVars == <<job, artifact>>
pastVars == <<skewed, cut, lost, planned>>
historyVars == <<report, begun, left, pastVars>>
vars == <<config, ck, post, turn, open, lock, job, artifact, report, begun, left, skewed,
          cut, lost, planned, faults>>

\* the interrupts that ask for an approval; "input" asks for a message
Approvals == {"metadata", "design", "clarify"}

NoPost == [pc |-> "none", approval |-> FALSE, workflow |-> 0]
NoTurn == [pc |-> "new", approval |-> FALSE, now |-> 0, workflow |-> 0]
\* a finished run, whose envelope nobody reads again
Settled == [NoTurn EXCEPT !.pc = "settled"]
NoJob == [pc |-> "none", mode |-> "none", id |-> 0]
NoReport == [run |-> 0, asked |-> {}, told |-> {}]
Pending == [status |-> "pending", id |-> 0]

\* a ready row of an earlier workflow for each type
Version(types, n, latest) ==
  LET s == SetToSeq(types) IN
  [i \in DOMAIN s |-> [type |-> s[i], run |-> 0, status |-> "ready", current |-> latest,
                       revision |-> n, root |-> i]]

\* The thread may have generated artifacts, and revised them afterwards; the configurations
\* are interchangeable, so the first process has the first of them.
Init ==
  /\ config = Min(Configs)
  /\ \E types \in Earlier, revised \in BOOLEAN :
       /\ artifact = IF revised THEN Version(types, 1, FALSE) \o Version(types, 2, TRUE)
                                ELSE Version(types, 1, TRUE)
       /\ ck = [active |-> FALSE, model |-> config, pending |-> "none", experience |-> "none",
                catalog |-> [t \in Types |->
                  IF revised /\ t \in types THEN SelectInSeq(SetToSeq(types), LAMBDA x : x = t) ELSE 0],
                sources |-> IF revised THEN types ELSE {}, targets |-> types,
                result |-> [t \in Types |-> Pending]]
  /\ post = NoPost
  /\ turn = [r \in Runs |-> NoTurn]
  /\ open = 0 /\ lock = 0
  /\ job = [t \in Types |-> NoJob]
  /\ report = NoReport
  /\ begun = 0 /\ left = FALSE /\ skewed = FALSE /\ cut = {} /\ lost = {}
  /\ planned = "none"
  /\ faults = 0

-----------------------------------------------------------------------------
\* Requests

FaultyPinned == 0

\* capture_envelope: the configuration of the checkpoint's open workflow, 0 for none
Pinned == IF ck.active THEN ck.model ELSE 0

\* get_pending_approval_payload
ApprovalPending == ck.pending \in Approvals

\* _has_resumable_interrupt
Resumable == ck.pending # "none"

\* validate_approval_request: an approval needs a pending interrupt that asks for one
Ask ==
  /\ post = NoPost
  /\ \E r \in Runs : turn[r].pc = "new"
  /\ \E a \in BOOLEAN :
       /\ a => ApprovalPending
       /\ post' = [NoPost EXCEPT !.pc = "asked", !.approval = a]
  /\ UNCHANGED <<config, ck, turn, open, lock, workVars, historyVars, faults>>

\* the checkpoint is read for the envelope before the session row is locked
Read ==
  /\ post.pc = "asked"
  /\ post' = [post EXCEPT !.pc = "read", !.workflow = Pinned]
  /\ UNCHANGED <<config, ck, turn, open, lock, workVars, historyVars, faults>>

\* create_chat_run inserts the run with its envelope when the thread has no active run
Accept ==
  LET r == Min({n \in Runs : turn[n].pc = "new"}) IN
  /\ post.pc = "read"
  /\ open = 0
  /\ open' = r
  /\ turn' = [turn EXCEPT ![r] = [pc |-> "accepted", approval |-> post.approval,
                                  now |-> config, workflow |-> post.workflow]]
  /\ post' = NoPost
  /\ skewed' = (skewed \/ post.workflow # Pinned \/ lock # 0)
  /\ UNCHANGED <<config, ck, lock, workVars, report, begun, left, cut, lost, planned, faults>>

Refuse ==
  /\ post.pc = "read"
  /\ open # 0
  /\ post' = NoPost
  /\ UNCHANGED <<config, ck, turn, open, lock, workVars, historyVars, faults>>

-----------------------------------------------------------------------------
\* A run

\* the graph of r goes on at pc; when it is over the lock is free
Goto(r, pc) ==
  /\ turn' = [turn EXCEPT ![r].pc = pc]
  /\ lock' = IF pc = "over" THEN 0 ELSE r

At(r, pc) == lock = r /\ turn[r].pc = pc

\* produce_events takes the lock and stores the envelope under the run's id
Admit(r) ==
  /\ turn[r].pc = "accepted"
  /\ lock = 0
  /\ Goto(r, "admitted")
  /\ report' = NoReport /\ planned' = "none"
  /\ UNCHANGED <<askVars, ck, workVars, begun, left, skewed, cut, lost, faults>>

FaultySelected(r) == turn[r].workflow

\* RunModelEnvelope.selected
Selected(r) == IF turn[r].workflow # 0 THEN turn[r].workflow ELSE turn[r].now

\* entry_update
EntryUpdate(r) == [ck EXCEPT !.active = (turn[r].workflow # 0), !.model = Selected(r)]

\* written with the input or with the answer to the interrupt
Entered(r) == [EntryUpdate(r) EXCEPT !.pending = "none"]

\* the experience kept in the checkpoint once a message or other metadata changed the query
\* it was resolved for; a mere consent leaves the query as it is
Aged == IF ck.experience = "present" THEN {"present", "past"} ELSE {ck.experience}

ReadyCurrent(t) ==
  {i \in DOMAIN artifact : /\ artifact[i].type = t
                           /\ artifact[i].status = "ready"
                           /\ artifact[i].current}

\* list_latest_ready_current_artifacts_by_thread
Catalog == [t \in Types |-> IF ReadyCurrent(t) = {} THEN 0 ELSE Max(ReadyCurrent(t))]

FaultyReset(types, sources) ==
  [ck EXCEPT !.sources = IF sources = {} THEN @ ELSE sources, !.targets = types]

\* _generation_result_reset_update and the router's update: what a fan-out is for
Reset(types, sources) ==
  [ck EXCEPT !.sources = sources, !.targets = IF sources = {} THEN types ELSE @,
             !.result = [t \in Types |-> IF t \in types THEN Pending ELSE @[t]]]

\* the nodes that create or revise artifacts of these types
Jobs(types, mode) ==
  [t \in Types |-> IF t \in types THEN [pc |-> "start", mode |-> mode, id |-> 0] ELSE NoJob]

\* the workflow of a run that ends without closing it and without a question
LeftOpen(r) == left \/ (turn[r].pc # "admitted" /\ ck.active /\ ck.pending = "none")

Stop(r, c) == Goto(r, "over") /\ ck' = c

Interrupt(r, name) ==
  /\ Goto(r, "over")
  /\ ck' = [ck EXCEPT !.pending = name]
  /\ UNCHANGED left

\* input without a pending interrupt: the graph starts at its entry
Fresh(r) ==
  /\ At(r, "admitted") /\ ~Resumable /\ ~turn[r].approval
  /\ Goto(r, "entry")
  /\ \E e \in Aged : ck' = [Entered(r) EXCEPT !.catalog = Catalog, !.experience = e]
  /\ UNCHANGED <<askVars, workVars, historyVars, faults>>

\* an approval whose interrupt is gone raises
ApprovesNothing(r) ==
  /\ At(r, "admitted") /\ ~Resumable /\ turn[r].approval
  /\ Goto(r, "over")
  /\ UNCHANGED <<askVars, ck, workVars, historyVars, faults>>

\* a message answers whatever interrupt is pending
Answered(r) ==
  /\ At(r, "admitted") /\ Resumable
  /\ ~turn[r].approval \/ ck.pending = "input"
  /\ Goto(r, CASE ck.pending \in {"input", "metadata"} -> "intake"
                [] ck.pending = "design" -> "context"
                [] ck.pending = "clarify" -> "router")
  /\ \E e \in Aged : ck' = [Entered(r) EXCEPT !.experience = e]
  /\ UNCHANGED <<askVars, workVars, historyVars, faults>>

\* metadata_review_interrupt_node, approved
MetadataApproved(r) ==
  /\ At(r, "admitted") /\ ck.pending = "metadata" /\ turn[r].approval
  /\ Goto(r, "context")
  /\ ck' = Entered(r)
  /\ UNCHANGED <<askVars, workVars, historyVars, faults>>

\* teaching_plan_review_interrupt_node, approved for some types or for none of them
DesignApproved(r) ==
  /\ At(r, "admitted") /\ ck.pending = "design" /\ turn[r].approval
  /\ \/ /\ Stop(r, Entered(r))
        /\ left' = TRUE
        /\ UNCHANGED job
     \/ \E types \in (SUBSET Types) \ {{}} :
          /\ Goto(r, "jobs")
          /\ ck' = [Reset(types, {}) EXCEPT !.active = Entered(r).active,
                                            !.model = Selected(r), !.pending = "none"]
          /\ job' = Jobs(types, "create")
          /\ UNCHANGED left
  /\ UNCHANGED <<askVars, artifact, report, begun, pastVars, faults>>

Listed == {t \in Types : ck.catalog[t] # 0}

\* artifact_revision_clarification_interrupt_node, approved: everything is revised
ClarifyApproved(r) ==
  /\ At(r, "admitted") /\ ck.pending = "clarify" /\ turn[r].approval
  /\ Goto(r, "revision")
  /\ ck' = [Reset(Listed, Listed) EXCEPT !.active = Entered(r).active,
                                         !.model = Selected(r), !.pending = "none"]
  /\ UNCHANGED <<askVars, workVars, historyVars, faults>>

\* conversation_entry_agent: a text, with or without experience, or a safe answer
Chat(r) ==
  /\ At(r, "entry")
  /\ Stop(r, ck)
  /\ UNCHANGED <<askVars, workVars, historyVars, faults>>

\* begin_workflow takes the configuration captured when the run was accepted
Begin(r, pc, experience) ==
  /\ Goto(r, pc)
  /\ ck' = [ck EXCEPT !.active = TRUE, !.model = turn[r].now, !.experience = experience]
  /\ begun' = turn[r].now
  /\ left' = FALSE
  /\ UNCHANGED <<askVars, workVars, report, pastVars, faults>>

\* a new teaching task forgets the experience of the one before it
Teach(r) == At(r, "entry") /\ Begin(r, "intake", "none")
Revise(r) == At(r, "entry") /\ Begin(r, "router", ck.experience)
Again(r) == At(r, "intake") /\ Begin(r, "intake", "none")

\* teaching_intake_agent asks for what is missing
AskMore(r) ==
  /\ At(r, "intake")
  /\ Interrupt(r, "input")
  /\ UNCHANGED <<askVars, workVars, report, begun, pastVars, faults>>

\* teaching_intake_agent submits the metadata, which are reviewed
Submit(r) ==
  /\ At(r, "intake")
  /\ Goto(r, "over")
  /\ \E e \in Aged : ck' = [ck EXCEPT !.pending = "metadata", !.experience = e]
  /\ UNCHANGED <<askVars, workVars, historyVars, faults>>

\* the user gives the teaching task up
GiveUp(r) ==
  /\ At(r, "intake")
  /\ Stop(r, [ck EXCEPT !.active = FALSE])
  /\ begun' = 0 /\ left' = FALSE
  /\ UNCHANGED <<askVars, workVars, report, pastVars, faults>>

FaultyEnsured == IF ck.experience = "none" THEN "present" ELSE ck.experience

\* _ensure_experience_snapshot for the teaching design: the snapshot is kept when its
\* key is that of the present request
Ensured == "present"

\* teaching_context_prepare_node: a request that cannot be built leaves no experience
PrepareContext(r) ==
  /\ At(r, "context")
  /\ Goto(r, "plan")
  /\ \E e \in {Ensured, "none"} : ck' = [ck EXCEPT !.experience = e]
  /\ UNCHANGED <<askVars, workVars, historyVars, faults>>

\* teaching_design_planner takes the experience of the checkpoint if there is any; the
\* design is reviewed
Design(r) ==
  LET used == IF ck.experience = "none" THEN Ensured ELSE ck.experience IN
  /\ At(r, "plan")
  /\ Goto(r, "over")
  /\ ck' = [ck EXCEPT !.pending = "design", !.experience = used]
  /\ planned' = used
  /\ UNCHANGED <<askVars, workVars, report, begun, left, skewed, cut, lost, faults>>

\* artifact_revision_router_node: several artifacts and no type named
Unclear(r) ==
  /\ At(r, "router")
  /\ Cardinality(Listed) > 1
  /\ Interrupt(r, "clarify")
  /\ UNCHANGED <<askVars, workVars, report, begun, pastVars, faults>>

\* revise the listed artifacts of the types asked for
Route(r) ==
  /\ At(r, "router")
  /\ \E types \in (SUBSET Listed) \ {{}} : ck' = Reset(types, types)
  /\ Goto(r, "revision")
  /\ UNCHANGED <<askVars, workVars, historyVars, faults>>

\* or answer that there are none
NothingToRevise(r) ==
  /\ At(r, "router")
  /\ Listed # Types
  /\ Stop(r, ck)
  /\ left' = TRUE
  /\ UNCHANGED <<askVars, workVars, report, begun, pastVars, faults>>

\* artifact_revision_prepare_node: the experience kept is good enough, unless the user's
\* words name subject, grade or audience; a revision's request is never a design's
PrepareRevision(r) ==
  /\ At(r, "revision")
  /\ Goto(r, "jobs")
  /\ \E e \in {"past"} \cup ({ck.experience} \ {"none"}) : ck' = [ck EXCEPT !.experience = e]
  /\ job' = Jobs(ck.sources, "revise")
  /\ UNCHANGED <<askVars, artifact, historyVars, faults>>

-----------------------------------------------------------------------------
\* Artifact jobs, in parallel

\* create_running_artifact, or create_revision_artifact of the artifact in the catalog
Row(r, t) ==
  LET source == ck.catalog[t] IN
  IF job[t].mode = "create"
    THEN [type |-> t, run |-> r, status |-> "running", current |-> TRUE,
          revision |-> 1, root |-> Len(artifact) + 1]
    ELSE [type |-> t, run |-> r, status |-> "running", current |-> FALSE,
          revision |-> artifact[source].revision + 1, root |-> artifact[source].root]

JobStarts(r, t) ==
  /\ At(r, "jobs") /\ job[t].pc = "start"
  /\ artifact' = Append(artifact, Row(r, t))
  /\ job' = [job EXCEPT ![t].pc = "work", ![t].id = Len(artifact) + 1]
  /\ UNCHANGED <<askVars, ck, turn, lock, historyVars, faults>>

FaultySuperseded(t) == {i \in DOMAIN artifact : artifact[i].type = t /\ artifact[i].revision > 1}

\* the rows mark_artifact_ready makes history
Superseded(t) == {i \in DOMAIN artifact : artifact[i].type = t /\ artifact[i].current}

\* mark_artifact_ready
MarkedReady(id, t) ==
  [i \in DOMAIN artifact |->
     IF i = id THEN [artifact[i] EXCEPT !.status = "ready", !.current = TRUE]
     ELSE [artifact[i] EXCEPT !.current = @ /\ i \notin Superseded(t)]]

JobReady(r, t) ==
  /\ At(r, "jobs") /\ job[t].pc = "work"
  /\ artifact' = MarkedReady(job[t].id, t)
  /\ job' = [job EXCEPT ![t].pc = "ready"]
  /\ UNCHANGED <<askVars, ck, turn, lock, historyVars, faults>>

\* mark_artifact_failed: the row keeps is_current
FailedRow(row) == [row EXCEPT !.status = "failed"]

\* The exception handler of a job: it knows no row before the row's creation has returned,
\* and it also meets what fails after the row was marked ready.
JobFails(r, t) ==
  LET id == job[t].id IN
  /\ At(r, "jobs") /\ job[t].pc \in {"start", "work", "ready"}
  /\ faults < MaxFaults
  /\ faults' = faults + 1
  /\ \/ /\ artifact' = IF id = 0 THEN artifact ELSE [artifact EXCEPT ![id] = FailedRow(@)]
        /\ UNCHANGED cut
     \/ /\ id = 0
        /\ artifact' = Append(artifact, Row(r, t))
        /\ cut' = cut \cup {r}
  /\ job' = [job EXCEPT ![t].pc = "failed"]
  /\ lost' = IF job[t].pc = "ready" THEN lost \cup {t} ELSE lost
  /\ UNCHANGED <<askVars, ck, turn, lock, report, begun, left, skewed, planned>>

\* what the job's node returns
JobResult(t) ==
  IF job[t] = NoJob THEN ck.result[t] ELSE [status |-> job[t].pc, id |-> job[t].id]

\* artifact_fan_in_node: the step of the jobs ends and their results are summarized
FanIn(r) ==
  LET result == [t \in Types |-> JobResult(t)]
      types == IF ck.sources # {} THEN ck.sources ELSE ck.targets
  IN
  /\ At(r, "jobs")
  /\ \A t \in Types : job[t].pc \in {"none", "ready", "failed"}
  /\ Stop(r, [ck EXCEPT !.active = FALSE, !.result = result])
  /\ begun' = 0 /\ left' = FALSE
  /\ report' = [run |-> r, asked |-> {t \in Types : job[t] # NoJob},
                told |-> {<<t, result[t]>> : t \in types}]
  /\ UNCHANGED <<askVars, workVars, pastVars, faults>>

-----------------------------------------------------------------------------
\* Ends of runs

Working(r) == lock = r

\* A node raises, or the attachments cannot be read: the run answers with an error and
\* the nodes working beside it are cancelled.
GraphFails(r) ==
  /\ Working(r)
  /\ faults < MaxFaults
  /\ faults' = faults + 1
  /\ Goto(r, "over")
  /\ left' = LeftOpen(r)
  /\ job' = [t \in Types |-> NoJob]
  /\ cut' = cut \cup {r}
  /\ UNCHANGED <<askVars, ck, artifact, report, begun, skewed, lost, planned>>

\* the run is finalized
Settle(r) ==
  /\ turn[r].pc = "over"
  /\ turn' = [turn EXCEPT ![r] = Settled]
  /\ open' = IF open = r THEN 0 ELSE open
  /\ UNCHANGED <<config, post, ck, lock, workVars, historyVars, faults>>

FaultyClosed == [ck EXCEPT !.pending = "none"]

\* cancel_model_workflow closes the workflow and its pending path
Closed == [ck EXCEPT !.active = FALSE, !.pending = "none"]

\* An explicit cancel stops the graph, closes the workflow and finalizes the run.
Cancel(r) ==
  /\ open = r
  /\ faults < MaxFaults
  /\ faults' = faults + 1
  /\ turn' = [turn EXCEPT ![r] = Settled]
  /\ lock' = IF Working(r) THEN 0 ELSE lock
  /\ ck' = Closed
  /\ begun' = 0 /\ left' = FALSE
  /\ job' = IF Working(r) THEN [t \in Types |-> NoJob] ELSE job
  /\ cut' = cut \cup {r}
  /\ open' = 0
  /\ UNCHANGED <<config, post, artifact, report, skewed, lost, planned>>

\* A cancel that finds no task closes the workflow and finalizes the run, whose task is
\* created meanwhile and works on (see FinishedRunIsNotExecuted in ChatRuns).
CancelTooEarly(r) ==
  /\ open = r /\ turn[r].pc = "accepted"
  /\ faults < MaxFaults
  /\ faults' = faults + 1
  /\ ck' = Closed
  /\ begun' = 0 /\ left' = FALSE
  /\ open' = 0
  /\ skewed' = TRUE
  /\ UNCHANGED <<config, post, turn, lock, workVars, report, cut, lost, planned>>

\* The process ends and the next one is started, maybe with another configuration: runs
\* are failed, their checkpoint is kept.
Restart ==
  /\ faults < MaxFaults
  /\ faults' = faults + 1
  /\ \E c \in Configs : config' = c
  /\ post' = NoPost
  /\ open' = 0 /\ lock' = 0
  /\ turn' = [r \in Runs |-> IF turn[r].pc = "new" THEN NoTurn
                             ELSE Settled]
  /\ job' = [t \in Types |-> NoJob]
  /\ cut' = cut \cup {r \in Runs : turn[r].pc \notin {"new", "over", "settled"}}
  /\ left' = IF lock # 0 THEN LeftOpen(lock) ELSE left
  /\ UNCHANGED <<ck, artifact, report, begun, skewed, lost, planned>>

-----------------------------------------------------------------------------
Node(r) ==
  \/ Fresh(r) \/ ApprovesNothing(r) \/ Answered(r)
  \/ MetadataApproved(r) \/ DesignApproved(r) \/ ClarifyApproved(r)
  \/ Chat(r) \/ Teach(r) \/ Revise(r) \/ Again(r)
  \/ AskMore(r) \/ Submit(r) \/ GiveUp(r) \/ PrepareContext(r) \/ Design(r)
  \/ Unclear(r) \/ Route(r) \/ NothingToRevise(r) \/ PrepareRevision(r)
  \/ \E t \in Types : JobStarts(r, t) \/ JobReady(r, t) \/ JobFails(r, t)
  \/ FanIn(r)

Next ==
  \/ Ask \/ Read \/ Accept \/ Refuse
  \/ \E r \in Runs : \/ Admit(r) \/ Node(r) \/ GraphFails(r) \/ Settle(r)
                     \/ Cancel(r) \/ CancelTooEarly(r)
  \/ Restart

Spec == Init /\ [][Next]_vars

-----------------------------------------------------------------------------
TypeOK ==
  /\ config \in Configs
  /\ ck.active \in BOOLEAN /\ ck.model \in Configs
  /\ ck.experience \in {"none", "present", "past"} /\ ck.pending \in Approvals \cup {"none", "input"}
  /\ ck.sources \subseteq Types /\ ck.targets \subseteq Types
  /\ \A t \in Types : ck.catalog[t] \in {0} \cup DOMAIN artifact
  /\ \A r \in Runs :
       turn[r].pc \in {"new", "accepted", "admitted", "entry", "intake", "context", "plan",
                       "router", "revision", "jobs", "over", "settled"}
  /\ lock # 0 => turn[lock].pc \notin {"new", "accepted", "over", "settled"}
  /\ open # 0 => turn[open].pc \notin {"new", "settled"}

\* A workflow keeps the configuration it began with through questions, approvals, errors
\* and restarts with another configuration, until it is completed or given up, unless
\* a run was accepted while another one still changed the checkpoint.
WorkflowKeepsModel == begun # 0 /\ ~skewed => ck.model = begun

\* Between runs a workflow is open exactly as long as a question to the user is pending,
\* but for the runs that end without closing it: an empty selection, nothing to revise,
\* an error, a restart.  What is left open pins the chats that follow.
OpenWorkflowIsPending ==
  lock = 0 /\ ~skewed => /\ ck.pending # "none" => ck.active
                         /\ ck.active /\ ck.pending = "none" => left

\* A type has one current ready artifact once it has a ready one, and the current one is
\* the only highest ready revision of its root, whatever failed or was cut short; a type
\* has none only when something failed after its artifact had been marked ready.
CurrentArtifactIsLatest ==
  \A i \in DOMAIN artifact : artifact[i].status = "ready" =>
    /\ \/ Cardinality(ReadyCurrent(artifact[i].type)) = 1
       \/ artifact[i].type \in lost /\ ReadyCurrent(artifact[i].type) = {}
    /\ \A j \in ReadyCurrent(artifact[i].type) :
         i # j /\ artifact[i].root = artifact[j].root =>
           artifact[i].revision < artifact[j].revision

\* The fan-in tells the user about exactly the artifacts that were asked for in this turn,
\* as their rows are; a row stays running only while its job works, or when its run was
\* cut short or lost the answer to the insert.
ReportMatchesRows ==
  /\ {x[1] : x \in report.told} = report.asked
  /\ \A x \in report.told :
       /\ x[2].status \in {"ready", "failed"}
       /\ x[2].id # 0 => /\ artifact[x[2].id].type = x[1]
                         /\ artifact[x[2].id].run = report.run
                         /\ artifact[x[2].id].status = x[2].status
  /\ \A i \in DOMAIN artifact : artifact[i].status = "running" =>
       \/ artifact[i].run \in cut
       \/ lock = artifact[i].run /\ job[artifact[i].type].id = i

\* A design is made with the experience for the present task, metadata and messages, never
\* with what an earlier task or an earlier wording left in the checkpoint.
PlanUsesPresentExperience == planned # "past"
=============================================================================
