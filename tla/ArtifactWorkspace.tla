------------------------- MODULE ArtifactWorkspace -------------------------
(***************************************************************************)
(* The workspace in which the artifact jobs of one thread and type work,   *)
(* one after the other, and the file each of them registers as its output  *)
(* (core/agent.py, core/workspace.py).  The workspace directory is shared  *)
(* by all of them, the output directory belongs to one run.  What an agent *)
(* and its code do with the tools is arbitrary.                            *)
(***************************************************************************)
EXTENDS Naturals, FiniteSets

CONSTANTS
  Jobs,       \* numbers of jobs, taken in order
  MaxWrites   \* bound on the files written

ASSUME WorkspaceAssumption ==
  /\ IsFiniteSet(Jobs) /\ Jobs \subseteq Nat \ {0} /\ Jobs # {}
  /\ MaxWrites \in Nat

VARIABLES
  backend,      \* get_workspace_execution_backend()
  disk,         \* the files of the workspace directory and of the output directories
  present,      \* the job that works, 0 before the first
  step,         \* where it is
  before,       \* output_snapshot_before
  found,        \* the place _find_generated_output chose
  active,       \* the job has loaded a skill that allows the workspace tools
  tool,         \* the tool each job's agent called last, as long as its thread works
  registered,   \* the file kept as the artifact of each job, as it was then
  outlived,     \* jobs whose tool still worked when they were cut short
  clock         \* number of files written, the clock of the file system

workspaceVars == <<backend, disk, present, step, before, found, active, tool, registered,
                   outlived, clock>>

None == [by |-> 0, at |-> 0]

\* Places of the workspace directory: the copied source, another file at its top, one in a
\* directory called output or dist, and code to execute; and the output directories.
Shared == {"source", "top", "dist", "code"}
Out(j) == <<"out", j>>
Work(p) == <<p, 0>>
Places == {Work(p) : p \in Shared} \cup {Out(j) : j \in Jobs}
\* the artifact's extension is looked for in all of them but the code
Named(j) == {Work(p) : p \in Shared \ {"code"}} \cup {Out(j)}

\* nobody's file, as old as its artifact
Source == [by |-> 0, at |-> 1]

WorkspaceInit ==
  /\ backend \in {"local", "daytona"}
  /\ disk = [p \in Places |-> None]
  /\ present = 0 /\ step = "over"
  /\ before = [p \in Places |-> 0]
  /\ found = <<>>
  /\ active = FALSE
  /\ tool = [j \in Jobs |-> "none"]
  /\ registered = [j \in Jobs |-> None]
  /\ outlived = {}
  /\ clock = 1

At(s) == step = s

-----------------------------------------------------------------------------
\* The job (_run_artifact_job)

\* _clear_workspace_for_job
Cleared(j) == [p \in Places |-> IF p \in {Work(q) : q \in Shared} \cup {Out(j)} THEN None ELSE disk[p]]

\* The next job clears the workspace; a revision then copies its source, with its time of
\* modification (_prepare_revision_workspace).
Begin ==
  LET j == present + 1 IN
  /\ At("over") /\ j \in Jobs
  /\ present' = j
  /\ step' = "prepared"
  /\ \E revision \in BOOLEAN :
       disk' = [Cleared(j) EXCEPT ![Work("source")] = IF revision THEN Source ELSE None]
  /\ active' = FALSE /\ found' = <<>>
  /\ UNCHANGED <<backend, before, tool, registered, outlived, clock>>

FaultySnapshot == [p \in Places |-> 0]

\* _snapshot_generated_outputs: times of modification, 0 for what is not there
Snapshot == [p \in Places |-> IF p \in Named(present) THEN disk[p].at ELSE 0]

TakeSnapshot ==
  /\ At("prepared")
  /\ before' = Snapshot
  /\ step' = "work"
  /\ UNCHANGED <<backend, disk, present, found, active, tool, registered, outlived, clock>>

\* load_skill adds the skill to active_skills
LoadSkill ==
  /\ At("work") /\ ~active /\ tool[present] = "none"
  /\ active' = TRUE
  /\ UNCHANGED <<backend, disk, present, step, before, found, tool, registered, outlived, clock>>

\* write_workspace_file and replace_workspace_text; the tools that list and read files
\* leave no trace
WriteTools == {"write", "replace"}

\* run_workspace_code needs a file to execute
Runnable == disk[Work("code")] # None

\* SkillExecutionPolicyMiddleware lets a workspace tool pass when an active skill allows
\* it; the tool works in a thread of its own.  run_skill_script, whose scripts run on the host
\* and write where their arguments say, is left out.
CallTool ==
  /\ At("work") /\ active /\ tool[present] = "none"
  /\ \/ \E t \in WriteTools : tool' = [tool EXCEPT ![present] = t]
     \/ Runnable /\ tool' = [tool EXCEPT ![present] = "run"]
  /\ UNCHANGED <<backend, disk, present, step, before, found, active, registered, outlived, clock>>

There(p) == disk[p] # None

\* candidates: what is new or changed, else anything in the output directory
Candidates ==
  LET changed == {p \in Named(present) : There(p) /\ before[p] # disk[p].at} IN
  IF changed # {} THEN changed ELSE {p \in {Out(present)} : There(p)}

FaultyPriority(p) == 1

\* _artifact_candidate_priority, before the time of modification
Priority(p) == IF p = Out(present) THEN 3 ELSE IF p = Work("dist") THEN 2 ELSE 1

Better(p, q) ==
  Priority(p) > Priority(q) \/ (Priority(p) = Priority(q) /\ disk[p].at >= disk[q].at)

\* The agent is done: _find_generated_output chooses a file, or there is none and the job fails.
Find ==
  /\ At("work") /\ tool[present] = "none"
  /\ IF Candidates = {}
       THEN step' = "over" /\ UNCHANGED found
       ELSE /\ step' = "found"
            /\ found' = CHOOSE p \in Candidates : \A q \in Candidates : Better(p, q)
  /\ UNCHANGED <<backend, disk, present, before, active, tool, registered, outlived, clock>>

\* mark_artifact_ready keeps the file as it is now
Register ==
  /\ At("found")
  /\ registered' = [registered EXCEPT ![present] = disk[found]]
  /\ step' = "over"
  /\ UNCHANGED <<backend, disk, present, before, found, active, tool, outlived, clock>>

\* An exception or the cancellation of the run ends the job; the thread of a tool works on.
CutShort ==
  /\ step \in {"prepared", "work", "found"}
  /\ step' = "over"
  /\ outlived' = IF tool[present] = "none" THEN outlived ELSE outlived \cup {present}
  /\ UNCHANGED <<backend, disk, present, before, found, active, tool, registered, clock>>

-----------------------------------------------------------------------------
\* Tools, in their threads

Written(j, p) ==
  /\ clock < MaxWrites + 1
  /\ clock' = clock + 1
  /\ disk' = [disk EXCEPT ![p] = [by |-> j, at |-> clock + 1]]

\* write_file, unless it would overwrite what it was not allowed to; replace_text changes
\* a file that is there
WriteFile(j) ==
  /\ tool[j] \in {"write", "replace"}
  /\ \E p \in Shared :
       /\ tool[j] = "replace" => There(Work(p))
       /\ Written(j, Work(p))
  /\ tool' = [tool EXCEPT ![j] = "none"]
  /\ UNCHANGED <<backend, present, step, before, found, active, registered, outlived>>

\* LocalSubprocessExecutionBackend: the code writes wherever it likes in its directories
CodeWrites(j) ==
  /\ backend = "local" /\ tool[j] = "run"
  /\ \E p \in {Work(q) : q \in Shared} \cup {Out(j)} : Written(j, p)
  /\ UNCHANGED <<backend, present, step, before, found, active, tool, registered, outlived>>

\* DaytonaExecutionBackend: the code works on a copy; its outputs alone come back
CollectOutput(j) ==
  /\ backend = "daytona" /\ tool[j] = "run"
  /\ Written(j, Out(j))
  /\ UNCHANGED <<backend, present, step, before, found, active, tool, registered, outlived>>

\* The tool returns or is refused, times out or fails, whatever it has done by then; one
\* that failed is called again by ToolRetryMiddleware.
ToolEnds(j) ==
  /\ tool[j] # "none"
  /\ tool' = [tool EXCEPT ![j] = "none"]
  /\ UNCHANGED <<backend, disk, present, step, before, found, active, registered, outlived, clock>>

-----------------------------------------------------------------------------
WorkspaceNext ==
  \/ Begin \/ TakeSnapshot \/ LoadSkill \/ CallTool \/ Find \/ Register \/ CutShort
  \/ \E j \in Jobs : WriteFile(j) \/ CodeWrites(j) \/ CollectOutput(j) \/ ToolEnds(j)

WorkspaceSpec == WorkspaceInit /\ [][WorkspaceNext]_workspaceVars

-----------------------------------------------------------------------------
\* What a job registers was written by its own tools and never is the source it was to
\* revise.  Only a tool of an earlier job that outlived its cancellation can pass off a
\* file of its own, and only on a job that left nothing in its output directory.
OutputIsOfJob ==
  \A j \in Jobs : registered[j] # None =>
    \/ registered[j].by = j
    \/ registered[j].by \in outlived /\ ~There(Out(j))
=============================================================================
