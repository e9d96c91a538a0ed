----------------------------- MODULE Parts_proofs -----------------------------
(***************************************************************************)
(* Proofs about the components that are small enough to be checked in one  *)
(* run (MCParts), each under its own initial states and steps.             *)
(***************************************************************************)
EXTENDS ArtifactWorkspace, ModelRoles, ExperienceRetrieval, AttachmentAnalysis,
        FiniteSetTheorems, TLAPS

-----------------------------------------------------------------------------
(* The workspace of artifact jobs                                          *)

Stamps == [by : Jobs \cup {0}, at : Nat]
Tools == {"none", "write", "replace", "run"}

WorkspaceTypes ==
  /\ disk \in [Places -> Stamps]
  /\ present \in Jobs \cup {0}
  /\ step \in {"over", "prepared", "work", "found"}
  /\ step # "over" => present \in Jobs
  /\ tool \in [Jobs -> Tools]
  /\ registered \in [Jobs -> Stamps]
  /\ outlived \subseteq Jobs
  /\ clock \in Nat

\* Only the present job and those that outlived their cancellation have a tool at work; a
\* job that is over has none of its own left to outlive it later.
ToolsInv ==
  /\ \A j \in Jobs : tool[j] # "none" => j = present \/ j \in outlived
  /\ \A j \in Jobs : j > present => tool[j] = "none" /\ registered[j] = None
  /\ \A j \in outlived : j <= present
  /\ step = "over" /\ present \in Jobs /\ tool[present] # "none" => present \in outlived
  /\ step # "over" => present \notin outlived
  /\ step \in {"prepared", "found"} => tool[present] = "none"
  /\ step # "over" => registered[present] = None
  /\ \A j \in Jobs : registered[j] # None => tool[j] = "none" /\ j \notin outlived

\* Files are stamped by the clock, and a file in an output directory is its job's.
FilesInv ==
  /\ 1 <= clock
  /\ \A p \in Places : There(p) => disk[p].at > 0
  /\ \A p \in Places : disk[p].at <= clock
  /\ \A j \in Jobs : There(Out(j)) => disk[Out(j)].by = j
  /\ step = "prepared" => ~There(Out(present))

OwnFile(p) == disk[p].by = present \/ disk[p].by \in outlived

\* While the agent works, what differs from the snapshot was written by a tool at work; the
\* file found is the one in the output directory if there is one.
SnapshotInv ==
  /\ step = "work" =>
       /\ before[Out(present)] = 0
       /\ \A p \in Named(present) : There(p) /\ before[p] # disk[p].at => OwnFile(p)
  /\ step = "found" =>
       /\ found \in Named(present) /\ OwnFile(found)
       /\ found = Out(present) \/ ~There(Out(present))

WorkspaceInv ==
  /\ WorkspaceTypes /\ ToolsInv /\ FilesInv /\ SnapshotInv
  /\ OutputIsOfJob

\* Output directories are places of their own.
LEMMA OutIsAPlace ==
  ASSUME NEW j \in Jobs
  PROVE  /\ Out(j) \in Places /\ Out(j) \in Named(j)
         /\ \A p \in Shared : Work(p) \in Places /\ Work(p) # Out(j)
         /\ \A k \in Jobs : Out(k) = Out(j) => k = j
         /\ Named(j) \subseteq Places
         /\ \A p \in Named(j) : p # Out(j) => \E q \in Shared \ {"code"} : p = Work(q)
BY DEF Out, Work, Places, Named, Shared

\* No job has run yet and every directory is empty.
LEMMA InitWorkspaceInv == WorkspaceInit => WorkspaceInv
<1> SUFFICES ASSUME WorkspaceInit PROVE WorkspaceInv
  OBVIOUS
<1> USE WorkspaceAssumption
<1>1. None \in Stamps BY DEF None, Stamps
<1>2. WorkspaceTypes BY <1>1 DEF WorkspaceInit, WorkspaceTypes, Tools
<1>3. ToolsInv BY DEF WorkspaceInit, ToolsInv
<1>4. FilesInv
  BY OutIsAPlace DEF WorkspaceInit, FilesInv, There, None
<1>5. SnapshotInv BY DEF WorkspaceInit, SnapshotInv
<1>6. OutputIsOfJob BY DEF WorkspaceInit, OutputIsOfJob
<1> QED BY <1>2, <1>3, <1>4, <1>5, <1>6 DEF WorkspaceInv

\* A tool of job j stamps a file, one of the shared places or its own output.
LEMMA WrittenKeepsInv ==
  ASSUME WorkspaceInv, NEW j \in Jobs, NEW p \in Places, tool[j] # "none",
         p = Out(j) \/ \E q \in Shared : p = Work(q),
         Written(j, p),
         UNCHANGED <<present, step, before, found, registered, outlived>>,
         tool' \in [Jobs -> Tools],
         \A k \in Jobs : tool'[k] = tool[k] \/ tool'[k] = "none"
  PROVE  WorkspaceInv'
<1> USE WorkspaceAssumption DEF WorkspaceInv
<1>1. clock \in Nat /\ j \in Nat \ {0} /\ present \in Nat
  BY DEF WorkspaceTypes
<1>2. /\ disk'[p] = [by |-> j, at |-> clock + 1]
      /\ \A q \in Places \ {p} : disk'[q] = disk[q]
      /\ clock' = clock + 1
  BY DEF Written, WorkspaceTypes
<1>3. WorkspaceTypes'
  <2>1. [by |-> j, at |-> clock + 1] \in Stamps BY <1>1 DEF Stamps
  <2> QED BY <1>1, <1>2, <2>1 DEF Written, WorkspaceTypes
<1>4. ToolsInv'
  BY DEF ToolsInv, WorkspaceTypes
<1>5. j = present \/ j \in outlived
  BY DEF ToolsInv
<1>6. \A k \in Jobs : p = Out(k) => k = j
  BY OutIsAPlace
<1>7. disk'[p] # None /\ disk'[p].at = clock + 1 /\ disk'[p].by = j
  BY <1>1, <1>2 DEF None
<1>8. FilesInv'
  <2>1. \A q \in Places : There(q)' => disk'[q].at > 0
    BY <1>1, <1>2, <1>7 DEF FilesInv, There
  <2>2. \A q \in Places : disk'[q].at <= clock'
    <3> TAKE q \in Places
    <3>1. disk[q].at \in Nat BY DEF WorkspaceTypes, Stamps
    <3> QED BY <1>1, <1>2, <1>7, <3>1 DEF FilesInv
  <2>3. \A k \in Jobs : There(Out(k))' => disk'[Out(k)].by = k
    BY <1>2, <1>6, <1>7, OutIsAPlace DEF FilesInv, There
  <2>4. step' = "prepared" => ~There(Out(present))'
    <3> SUFFICES ASSUME step = "prepared" PROVE ~There(Out(present))'
      OBVIOUS
    <3>1. present \in Jobs /\ present # j BY DEF WorkspaceTypes, ToolsInv
    <3>2. p # Out(present) BY <1>6, <3>1
    <3> QED BY <1>2, <3>1, <3>2, OutIsAPlace DEF FilesInv, There
  <2> QED BY <1>1, <1>2, <2>1, <2>2, <2>3, <2>4 DEF FilesInv
<1>9. SnapshotInv'
  <2>1. ASSUME step = "work" PROVE
          /\ before[Out(present)] = 0
          /\ \A q \in Named(present) : There(q)' /\ before[q] # disk'[q].at => OwnFile(q)'
    <3>1. present \in Jobs BY <2>1 DEF WorkspaceTypes
    <3> QED BY <1>2, <1>5, <1>7, <2>1, <3>1, OutIsAPlace DEF SnapshotInv, OwnFile, There
  <2>2. ASSUME step = "found" PROVE
          /\ found \in Named(present) /\ OwnFile(found)'
          /\ found = Out(present) \/ ~There(Out(present))'
    <3>1. present \in Jobs /\ present # j BY <2>2 DEF WorkspaceTypes, ToolsInv
    <3>2. p # Out(present) BY <1>6, <3>1
    <3> QED BY <1>2, <1>5, <1>7, <2>2, <3>1, <3>2, OutIsAPlace DEF SnapshotInv, OwnFile, There
  <2> QED BY <2>1, <2>2 DEF SnapshotInv, Named
<1>10. OutputIsOfJob'
  <2> SUFFICES ASSUME NEW k \in Jobs, registered[k] # None
               PROVE  registered[k].by = k \/ (registered[k].by \in outlived /\ ~There(Out(k))')
    BY DEF OutputIsOfJob
  <2>1. k # j BY DEF ToolsInv
  <2>2. disk'[Out(k)] = disk[Out(k)] BY <1>2, <1>6, <2>1, OutIsAPlace
  <2> QED BY <2>2 DEF OutputIsOfJob, There
<1> QED BY <1>3, <1>4, <1>8, <1>9, <1>10

\* _find_generated_output: with a file in the output directory the choice is that file;
\* without one it is a changed file of the workspace directory.
LEMMA FoundIsGood ==
  ASSUME WorkspaceInv, step = "work", Candidates # {},
         NEW p, p = (CHOOSE c \in Candidates : \A q \in Candidates : Better(c, q))
  PROVE  /\ p \in Named(present) /\ There(p) /\ OwnFile(p)
         /\ p = Out(present) \/ ~There(Out(present))
<1> USE WorkspaceAssumption DEF WorkspaceInv
<1>0. present \in Jobs
  BY DEF WorkspaceTypes
<1> DEFINE o == Out(present)
           changed == {c \in Named(present) : There(c) /\ before[c] # disk[c].at}
<1>1. o \in Places /\ o \in Named(present) /\ Named(present) \subseteq Places
      /\ \A c \in Named(present) : c # o => (\E q \in Shared \ {"code"} : c = Work(q))
      /\ \A w \in Shared : Work(w) # o
  BY <1>0, OutIsAPlace
<1>2. \A c \in Places : disk[c].at \in Nat
  BY DEF WorkspaceTypes, Stamps
<1>3. There(o) => o \in changed
  BY <1>1 DEF SnapshotInv, FilesInv
<1>4. Candidates = changed
  <2>1. CASE changed # {} BY <2>1 DEF Candidates
  <2>2. CASE changed = {}
    <3>1. ~There(o) BY <1>3, <2>2
    <3>2. Candidates = {} BY <2>2, <3>1 DEF Candidates
    <3> QED BY <3>2
  <2> QED BY <2>1, <2>2
<1>5. \E c \in Candidates : \A q \in Candidates : Better(c, q)
  <2>1. CASE There(o)
    <3>1. \A q \in Candidates : Better(o, q)
      BY <1>1, <1>2, <1>4 DEF Better, Priority
    <3> QED BY <1>3, <1>4, <2>1, <3>1
  <2>2. CASE ~There(o)
    <3>1. \A c \in Candidates : c \in {Work("source"), Work("top"), Work("dist")}
      BY <1>1, <1>4, <2>2 DEF Shared
    <3>2. \A c \in Candidates : Priority(c) = IF c = Work("dist") THEN 2 ELSE 1
      <4> TAKE c \in Candidates
      <4>1. {"source", "top", "dist"} \subseteq Shared BY DEF Shared
      <4>2. c # Out(present) BY <1>0, <3>1, <4>1, OutIsAPlace
      <4> QED BY <4>2 DEF Priority
    <3>3. \A c \in Candidates : disk[c].at \in Nat
      BY <1>1, <1>2, <1>4
    <3>4. CASE Work("dist") \in Candidates
      <4>1. \A q \in Candidates : Better(Work("dist"), q)
        BY <3>2, <3>3, <3>4 DEF Better
      <4> QED BY <3>4, <4>1
    <3>5. CASE Work("dist") \notin Candidates
      <4>1. \A c, d \in Candidates : disk[c].at >= disk[d].at => Better(c, d)
        BY <3>2, <3>5 DEF Better
      <4>2. \E c \in Candidates : \A d \in Candidates : disk[c].at >= disk[d].at
        <5>1. PICK c \in Candidates : TRUE OBVIOUS
        <5>2. CASE \A d \in Candidates : disk[c].at >= disk[d].at BY <5>2
        <5>3. CASE \E d \in Candidates : ~(disk[c].at >= disk[d].at)
          <6>1. PICK d \in Candidates : ~(disk[c].at >= disk[d].at) BY <5>3
          <6>2. {c, d} = {Work("source"), Work("top")} BY <3>1, <3>3, <3>5, <6>1
          <6>3. \A e \in Candidates : e \in {c, d} BY <3>1, <3>5, <6>2
          <6>4. disk[d].at >= disk[c].at /\ disk[d].at >= disk[d].at BY <3>3, <6>1
          <6>5. \A e \in Candidates : disk[d].at >= disk[e].at BY <6>3, <6>4
          <6> QED BY <6>5
        <5> QED BY <5>2, <5>3
      <4> QED BY <4>1, <4>2
    <3> QED BY <3>4, <3>5
  <2> QED BY <2>1, <2>2
<1>6. p \in Candidates /\ \A q \in Candidates : Better(p, q)
  BY <1>5
<1>7. There(o) => p = o
  <2> SUFFICES ASSUME There(o), p # o PROVE FALSE
    OBVIOUS
  <2>1. Better(p, o) BY <1>3, <1>4, <1>6
  <2>2. Priority(o) = 3 /\ Priority(p) \in {1, 2} BY DEF Priority
  <2> QED BY <2>1, <2>2 DEF Better
<1> QED BY <1>4, <1>6, <1>7 DEF SnapshotInv

\* Every step of a job, a tool or the workspace keeps the invariant.
LEMMA NextWorkspaceInv == WorkspaceInv /\ [WorkspaceNext]_workspaceVars => WorkspaceInv'
<1> SUFFICES ASSUME WorkspaceInv, [WorkspaceNext]_workspaceVars PROVE WorkspaceInv'
  OBVIOUS
<1> USE WorkspaceAssumption
<1>1. CASE Begin
  <2>0. PICK j \in Jobs : j = present + 1 /\ present' = j
    BY <1>1 DEF Begin
  <2>1. PICK revision \in BOOLEAN :
          disk' = [Cleared(j) EXCEPT ![Work("source")] = IF revision THEN Source ELSE None]
    BY <1>1, <2>0 DEF Begin
  <2>2. present \in Nat /\ clock \in Nat
    BY DEF WorkspaceInv, WorkspaceTypes
  <2>3. /\ Source \in Stamps /\ None \in Stamps
    BY DEF Source, None, Stamps
  <2>4. /\ disk'[Out(j)] = None
        /\ \A p \in Places : disk'[p] \in {None, Source, disk[p]}
        /\ \A k \in Jobs \ {j} : disk'[Out(k)] = disk[Out(k)]
        /\ disk' \in [Places -> Stamps]
    <3>1. Cleared(j) \in [Places -> Stamps]
      BY <2>3 DEF Cleared, WorkspaceInv, WorkspaceTypes
    <3>2. \A p \in Places : Cleared(j)[p] \in {None, disk[p]} BY DEF Cleared
    <3>3. Cleared(j)[Out(j)] = None BY OutIsAPlace DEF Cleared
    <3>4. \A k \in Jobs \ {j} : Cleared(j)[Out(k)] = disk[Out(k)]
      BY OutIsAPlace DEF Cleared
    <3>5. \A k \in Jobs : Work("source") # Out(k) BY OutIsAPlace DEF Shared
    <3> QED BY <2>1, <2>3, <3>1, <3>2, <3>3, <3>4, <3>5, OutIsAPlace
  <2>5. WorkspaceTypes'
    BY <1>1, <2>0, <2>4 DEF Begin, WorkspaceInv, WorkspaceTypes
  <2>6. ToolsInv'
    BY <1>1, <2>0, <2>2 DEF Begin, At, WorkspaceInv, WorkspaceTypes, ToolsInv
  <2>7. FilesInv'
    <3>1. \A p \in Places : disk'[p] = None \/ (There(p)' => disk'[p].at > 0)
      BY <2>4 DEF WorkspaceInv, FilesInv, There, Source
    <3>2. \A p \in Places : disk'[p].at <= clock
      <4> TAKE p \in Places
      <4>1. None.at <= clock /\ Source.at <= clock
        BY <2>2 DEF WorkspaceInv, FilesInv, None, Source
      <4> QED BY <2>4, <4>1 DEF WorkspaceInv, FilesInv
    <3>3. \A k \in Jobs : There(Out(k))' => disk'[Out(k)].by = k
      BY <2>4 DEF WorkspaceInv, FilesInv, There
    <3>4. ~There(Out(present))'
      BY <2>0, <2>4 DEF There
    <3> QED BY <1>1, <3>1, <3>2, <3>3, <3>4 DEF Begin, WorkspaceInv, FilesInv, There
  <2>8. SnapshotInv'
    BY <1>1 DEF Begin, SnapshotInv
  <2>9. OutputIsOfJob'
    <3> SUFFICES ASSUME NEW k \in Jobs, registered[k] # None
                 PROVE  registered[k].by = k \/ (registered[k].by \in outlived /\ ~There(Out(k))')
      BY <1>1 DEF Begin, OutputIsOfJob
    <3>1. k # j BY <2>0, <2>2 DEF WorkspaceInv, WorkspaceTypes, ToolsInv
    <3> QED BY <2>4, <3>1 DEF WorkspaceInv, OutputIsOfJob, There
  <2> QED BY <2>5, <2>6, <2>7, <2>8, <2>9 DEF WorkspaceInv
<1>2. CASE TakeSnapshot
  <2>1. present \in Jobs /\ step = "prepared" /\ step' = "work"
    BY <1>2 DEF TakeSnapshot, At, WorkspaceInv, WorkspaceTypes
  <2>2. \A p \in Named(present) : before'[p] = disk[p].at
    BY <1>2, <2>1, OutIsAPlace DEF TakeSnapshot, Snapshot
  <2>3. before'[Out(present)] = 0
    BY <2>1, <2>2, OutIsAPlace DEF WorkspaceInv, FilesInv, There, None
  <2>4. SnapshotInv'
    BY <1>2, <2>1, <2>2, <2>3 DEF TakeSnapshot, SnapshotInv, Named
  <2> QED
    BY <1>2, <2>1, <2>4 DEF TakeSnapshot, WorkspaceInv, WorkspaceTypes, ToolsInv, FilesInv,
                            OutputIsOfJob, There
<1>3. CASE LoadSkill
  BY <1>3 DEF LoadSkill, WorkspaceInv, WorkspaceTypes, ToolsInv, FilesInv, SnapshotInv, OwnFile,
              OutputIsOfJob, There, Named
<1>4. CASE CallTool
  <2>1. /\ step = "work" /\ present \in Jobs
        /\ tool' \in [Jobs -> Tools] /\ \A k \in Jobs \ {present} : tool'[k] = tool[k]
        /\ UNCHANGED <<disk, present, step, before, found, registered, outlived, clock>>
    BY <1>4 DEF CallTool, WriteTools, At, WorkspaceInv, WorkspaceTypes, Tools
  <2>2. ToolsInv'
    BY <2>1 DEF WorkspaceInv, WorkspaceTypes, ToolsInv
  <2> QED
    BY <2>1, <2>2 DEF WorkspaceInv, WorkspaceTypes, FilesInv, SnapshotInv, OwnFile, OutputIsOfJob,
                      There, Named
<1>5. CASE Find
  <2>1. /\ step = "work" /\ present \in Jobs /\ tool[present] = "none"
        /\ UNCHANGED <<disk, present, before, tool, registered, outlived, clock>>
    BY <1>5 DEF Find, At, WorkspaceInv, WorkspaceTypes
  <2>2. step' \in {"over", "found"}
    BY <1>5 DEF Find
  <2>3. SnapshotInv'
    <3>1. CASE Candidates = {} BY <1>5, <3>1 DEF Find, SnapshotInv
    <3>2. CASE Candidates # {}
      <4>1. found' = CHOOSE p \in Candidates : \A q \in Candidates : Better(p, q)
        BY <1>5, <3>2 DEF Find
      <4>2. /\ found' \in Named(present) /\ There(found') /\ OwnFile(found')
            /\ found' = Out(present) \/ ~There(Out(present))
        BY <2>1, <3>2, <4>1, FoundIsGood
      <4>3. step' = "found" BY <1>5, <3>2 DEF Find
      <4> QED BY <2>1, <4>2, <4>3 DEF SnapshotInv, OwnFile, There, Named
    <3> QED BY <3>1, <3>2
  <2> QED
    BY <2>1, <2>2, <2>3 DEF WorkspaceInv, WorkspaceTypes, ToolsInv, FilesInv, OutputIsOfJob, There
<1>6. CASE Register
  <2>1. /\ step = "found" /\ present \in Jobs /\ tool[present] = "none" /\ present \notin outlived
        /\ found \in Places
        /\ step' = "over" /\ registered'[present] = disk[found]
        /\ \A k \in Jobs \ {present} : registered'[k] = registered[k]
        /\ registered' \in [Jobs -> Stamps]
        /\ UNCHANGED <<disk, present, before, found, tool, outlived, clock>>
    BY <1>6, OutIsAPlace DEF Register, At, WorkspaceInv, WorkspaceTypes, ToolsInv, SnapshotInv
  <2>2. OutputIsOfJob'
    <3>1. registered'[present].by = present
            \/ (registered'[present].by \in outlived /\ ~There(Out(present)))
      <4>1. There(Out(present)) => disk[Out(present)].by = present
        BY <2>1 DEF WorkspaceInv, FilesInv
      <4> QED BY <2>1, <4>1 DEF WorkspaceInv, SnapshotInv, OwnFile
    <3> QED BY <2>1, <3>1 DEF WorkspaceInv, OutputIsOfJob, There
  <2>3. ToolsInv'
    BY <2>1 DEF WorkspaceInv, WorkspaceTypes, ToolsInv
  <2> QED
    BY <2>1, <2>2, <2>3 DEF WorkspaceInv, WorkspaceTypes, FilesInv, SnapshotInv, There
<1>7. CASE CutShort
  <2>1. /\ step # "over" /\ present \in Jobs /\ step' = "over"
        /\ outlived' = (IF tool[present] = "none" THEN outlived ELSE outlived \cup {present})
        /\ UNCHANGED <<disk, present, before, found, tool, registered, clock>>
    BY <1>7 DEF CutShort, WorkspaceInv, WorkspaceTypes
  <2>2. ToolsInv'
    BY <2>1 DEF WorkspaceInv, WorkspaceTypes, ToolsInv
  <2>3. OutputIsOfJob'
    BY <2>1 DEF WorkspaceInv, OutputIsOfJob, There
  <2> QED
    BY <2>1, <2>2, <2>3 DEF WorkspaceInv, WorkspaceTypes, FilesInv, SnapshotInv, There
<1>8. ASSUME NEW j \in Jobs, WriteFile(j) PROVE WorkspaceInv'
  <2>1. PICK p \in Shared : Written(j, Work(p))
    BY <1>8 DEF WriteFile
  <2>2. Work(p) \in Places BY OutIsAPlace
  <2>3. tool' \in [Jobs -> Tools] /\ \A k \in Jobs : tool'[k] = tool[k] \/ tool'[k] = "none"
    BY <1>8 DEF WriteFile, WorkspaceInv, WorkspaceTypes, Tools
  <2> QED BY <1>8, <2>1, <2>2, <2>3, WrittenKeepsInv DEF WriteFile
<1>9. ASSUME NEW j \in Jobs, CodeWrites(j) PROVE WorkspaceInv'
  <2>1. PICK p \in {Work(q) : q \in Shared} \cup {Out(j)} : Written(j, p)
    BY <1>9 DEF CodeWrites
  <2>2. p \in Places BY OutIsAPlace
  <2> QED BY <1>9, <2>1, <2>2, WrittenKeepsInv DEF CodeWrites, WorkspaceInv, WorkspaceTypes
<1>10. ASSUME NEW j \in Jobs, CollectOutput(j) PROVE WorkspaceInv'
  <2>1. Out(j) \in Places BY OutIsAPlace
  <2> QED BY <1>10, <2>1, WrittenKeepsInv DEF CollectOutput, WorkspaceInv, WorkspaceTypes
<1>11. ASSUME NEW j \in Jobs, ToolEnds(j) PROVE WorkspaceInv'
  <2>1. /\ tool' \in [Jobs -> Tools]
        /\ \A k \in Jobs : tool'[k] = tool[k] \/ tool'[k] = "none"
        /\ UNCHANGED <<disk, present, step, before, found, registered, outlived, clock>>
    BY <1>11 DEF ToolEnds, WorkspaceInv, WorkspaceTypes, Tools
  <2>2. ToolsInv'
    BY <2>1 DEF WorkspaceInv, WorkspaceTypes, ToolsInv
  <2> QED
    BY <2>1, <2>2 DEF WorkspaceInv, WorkspaceTypes, FilesInv, SnapshotInv, OwnFile, OutputIsOfJob,
                      There, Named
<1>12. CASE UNCHANGED workspaceVars
  BY <1>12 DEF workspaceVars, WorkspaceInv, WorkspaceTypes, ToolsInv, FilesInv, SnapshotInv, OwnFile,
               OutputIsOfJob, There, Named
<1> QED
  BY <1>1, <1>2, <1>3, <1>4, <1>5, <1>6, <1>7, <1>8, <1>9, <1>10, <1>11, <1>12
  DEF WorkspaceNext

\* The file a job registers is its own, but for one of a cancelled job's tool that works on,
\* and that only when the job left nothing in its output directory.
THEOREM RegisteredIsOwn == WorkspaceSpec => []OutputIsOfJob
<1>1. WorkspaceInv => OutputIsOfJob BY DEF WorkspaceInv
<1> QED BY <1>1, InitWorkspaceInv, NextWorkspaceInv, PTL DEF WorkspaceSpec

-----------------------------------------------------------------------------
(* Experience retrieval                                                    *)

Experiences == [kind : Kinds \cup Gone, stamp : Nat]

\* The store since the choice: stamps grow, and what was deleted stays so.
StoreGrows ==
  /\ store \in [Ids -> Experiences] /\ then \in [Ids -> Experiences] /\ changes \in Nat
  /\ \A id \in Ids :
       /\ store[id].stamp <= changes
       /\ then[id].stamp <= store[id].stamp
       /\ then[id].kind = "deleted" => store[id].kind = "deleted"

\* What is chosen is still to be read, once, and there is room for it.
ChoiceInv ==
  /\ phase \in {"asked", "selecting", "reading", "over"}
  /\ phase \in {"asked", "selecting"} => bundle = <<>>
  /\ candidates \in Seq(Ids) /\ chosen \in Seq(Ids) /\ IsInjective(chosen)
  /\ \A i \in DOMAIN chosen : chosen[i] \in ToSet(candidates)
  /\ bundle \in Seq([id : Ids, stamp : Nat])
  /\ Len(bundle) + Len(chosen) <= ItemLimit

\* What was read was there when the choice was made.
BundleInv ==
  /\ \A i, j \in DOMAIN bundle : bundle[i].id = bundle[j].id => i = j
  /\ \A i \in DOMAIN bundle :
       /\ bundle[i].id \in ToSet(candidates) /\ bundle[i].id \notin ToSet(chosen)
       /\ then[bundle[i].id].kind # "deleted"
       /\ bundle[i].stamp >= then[bundle[i].id].stamp

RetrievalInv ==
  /\ StoreGrows
  /\ ChoiceInv
  /\ BundleInv
  /\ phase = "over" /\ degraded => bundle = <<>>

\* The limit leaves what it takes in place.
LEMMA CappedIds ==
  ASSUME NEW s \in Seq(Ids), IsInjective(s)
  PROVE  /\ Capped(s) \in Seq(Ids) /\ IsInjective(Capped(s)) /\ Len(Capped(s)) <= ItemLimit
         /\ \A i \in DOMAIN Capped(s) : Capped(s)[i] \in ToSet(s)
<1>1. ItemLimit \in Nat \ {0} /\ Len(s) \in Nat /\ DOMAIN s = 1..Len(s)
  BY RetrievalAssumption
<1>2. \A i \in 1..Len(s) : s[i] \in ToSet(s) /\ s[i] \in Ids BY <1>1 DEF ToSet
<1>3. CASE Len(s) > ItemLimit
  <2>1. PICK t : t = SubSeq(s, 1, ItemLimit) OBVIOUS
  <2>2. /\ t \in Seq(Ids) /\ Len(t) = ItemLimit /\ DOMAIN t = 1..ItemLimit
        /\ \A i \in 1..ItemLimit : t[i] = s[i] /\ i \in 1..Len(s)
    BY <1>1, <1>3, <2>1
  <2>3. IsInjective(t) BY <1>1, <2>2 DEF IsInjective
  <2>4. Capped(s) = t BY <1>3, <2>1 DEF Capped
  <2> QED BY <1>1, <1>2, <2>2, <2>3, <2>4
<1>4. CASE ~(Len(s) > ItemLimit)
  <2>1. Capped(s) = s BY <1>4 DEF Capped
  <2> QED BY <1>1, <1>2, <1>4, <2>1
<1> QED BY <1>3, <1>4

\* A choice is made of the candidates.
LEMMA ChoiceMade ==
  ASSUME RetrievalInv, NEW s \in Seq(Ids), IsInjective(s), bundle = <<>>,
         candidates' \in Seq(Ids), \A i \in DOMAIN s : s[i] \in ToSet(candidates'),
         chosen' = Capped(s), phase' \in {"selecting", "reading"}, then' = store,
         UNCHANGED <<store, changes, bundle>>
  PROVE  RetrievalInv'
<1>1. /\ chosen' \in Seq(Ids) /\ IsInjective(chosen') /\ Len(chosen') <= ItemLimit
      /\ \A i \in DOMAIN chosen' : chosen'[i] \in ToSet(s)
  BY CappedIds
<1>2. \A i \in DOMAIN chosen' : chosen'[i] \in ToSet(candidates')
  BY <1>1 DEF ToSet
<1>3. StoreGrows' BY DEF RetrievalInv, StoreGrows, Experiences
<1>4. bundle' = <<>> /\ Len(bundle') = 0 /\ DOMAIN bundle' = {} /\ Len(chosen') \in Nat
  BY <1>1
<1>5. ChoiceInv'
  BY <1>1, <1>2, <1>4 DEF ChoiceInv
<1>6. BundleInv' BY <1>4 DEF BundleInv
<1> QED BY <1>3, <1>4, <1>5, <1>6 DEF RetrievalInv

\* Nothing is shown initially.
LEMMA InitRetrieval == RetrievalInit => RetrievalInv
<1> SUFFICES ASSUME RetrievalInit PROVE RetrievalInv
  OBVIOUS
<1>1. /\ store \in [Ids -> {Item(k, 0) : k \in Kinds \cup {"new"}}] /\ then = store
      /\ changes = 0
  BY DEF RetrievalInit
<1>2. \A id \in Ids : \E k \in Kinds \cup {"new"} : store[id] = [kind |-> k, stamp |-> 0]
  BY <1>1 DEF Item
<1>3. StoreGrows
  BY <1>1, <1>2 DEF StoreGrows, Experiences, Kinds, Gone
<1>4. /\ candidates = <<>> /\ chosen = <<>> /\ bundle = <<>> /\ phase = "asked"
      /\ Len(bundle) + Len(chosen) = 0
      /\ ItemLimit \in Nat
  BY RetrievalAssumption DEF RetrievalInit
<1>5. ChoiceInv /\ BundleInv
  BY <1>4 DEF ChoiceInv, BundleInv, IsInjective
<1> QED BY <1>3, <1>4, <1>5 DEF RetrievalInv

\* Every step of retrieval and of the memories it races with keeps it.
LEMMA NextRetrieval == RetrievalInv /\ [RetrievalNext]_retrievalVars => RetrievalInv'
<1> SUFFICES ASSUME RetrievalInv, [RetrievalNext]_retrievalVars PROVE RetrievalInv'
  OBVIOUS
<1>1. ASSUME NEW id \in Ids, Put(id) \/ Delete(id) PROVE RetrievalInv'
  <2>1. PICK kind \in Kinds \cup {"deleted"} :
          /\ Write(id, kind)
          /\ store[id].kind = "deleted" => kind = "deleted"
    BY <1>1 DEF Put, Delete, Present, Gone
  <2>2. /\ store' = [store EXCEPT ![id] = [kind |-> kind, stamp |-> changes + 1]]
        /\ changes' = changes + 1
        /\ UNCHANGED <<semantic, phase, candidates, chosen, bundle, degraded, then>>
    BY <2>1 DEF Write, Item
  <2>3. StoreGrows'
    <3>1. [kind |-> kind, stamp |-> changes + 1] \in Experiences
      BY DEF Experiences, Gone, RetrievalInv, StoreGrows
    <3>2. store' \in [Ids -> Experiences] BY <2>2, <3>1 DEF RetrievalInv, StoreGrows
    <3>3. \A i \in Ids : /\ store[i].stamp \in Nat /\ then[i].stamp \in Nat
                         /\ store[i].stamp <= changes /\ then[i].stamp <= store[i].stamp
                         /\ then[i].kind = "deleted" => store[i].kind = "deleted"
      BY DEF RetrievalInv, StoreGrows, Experiences
    <3>4. /\ store'[id].stamp = changes + 1 /\ store'[id].kind = kind
          /\ \A i \in Ids \ {id} : store'[i] = store[i]
      BY <2>2 DEF RetrievalInv, StoreGrows
    <3>5. changes \in Nat BY DEF RetrievalInv, StoreGrows
    <3>6. \A i \in Ids : /\ store'[i].stamp <= changes + 1
                         /\ then[i].stamp <= store'[i].stamp
                         /\ then[i].kind = "deleted" => store'[i].kind = "deleted"
      <4> TAKE i \in Ids
      <4>1. CASE i = id BY <2>1, <3>3, <3>4, <3>5, <4>1
      <4>2. CASE i # id BY <3>3, <3>4, <3>5, <4>2
      <4> QED BY <4>1, <4>2
    <3> QED BY <2>2, <3>2, <3>5, <3>6 DEF RetrievalInv, StoreGrows
  <2>4. ChoiceInv' BY <2>2 DEF RetrievalInv, ChoiceInv
  <2>5. BundleInv' BY <2>2 DEF RetrievalInv, BundleInv
  <2> QED BY <2>2, <2>3, <2>4, <2>5 DEF RetrievalInv
<1>2. CASE SearchEmpty \/ Degrade
  <2>1. /\ phase' = "over" /\ bundle' = <<>>
        /\ UNCHANGED <<store, changes, candidates, chosen, then>>
    BY <1>2 DEF SearchEmpty, Degrade, Finish
  <2>2. StoreGrows' BY <2>1 DEF RetrievalInv, StoreGrows
  <2>3. Len(bundle) \in Nat /\ Len(bundle') = 0 /\ DOMAIN bundle' = {} /\ Len(chosen) \in Nat
    BY <2>1 DEF RetrievalInv, ChoiceInv
  <2>4. Len(bundle') + Len(chosen') <= ItemLimit
    BY <2>1, <2>3, RetrievalAssumption DEF RetrievalInv, ChoiceInv
  <2>5. ChoiceInv' BY <2>1, <2>4 DEF RetrievalInv, ChoiceInv
  <2>6. BundleInv' BY <2>3 DEF BundleInv
  <2> QED BY <2>1, <2>2, <2>5, <2>6 DEF RetrievalInv
<1>3. CASE Search
  <2>1. PICK n \in Nat : n = Cardinality(Listed)
    BY FS_Subset, FS_CardinalityType, RetrievalAssumption DEF Listed
  <2>2. PICK ids \in [1..n -> Listed] : IsInjective(ids) /\ candidates' \in Bounded(ids)
    BY <1>3, <2>1 DEF Search, Found
  <2>3. ids \in Seq(Ids) /\ Len(ids) = n /\ DOMAIN ids = 1..n
    BY <2>1, <2>2 DEF Listed
  <2>4. PICK m \in 1..n : candidates' = SubSeq(ids, 1, m)
    BY <2>2, <2>3 DEF Bounded
  <2>5. /\ candidates' \in Seq(Ids) /\ DOMAIN candidates' = 1..m /\ m \in Nat
        /\ \A i \in 1..m : candidates'[i] = ids[i] /\ i \in 1..n
    BY <2>1, <2>3, <2>4
  <2>6. PICK places : places \subseteq 1..m /\ places = Confident(candidates')
    BY <2>5 DEF Confident, OfKind
  <2>7. PICK k \in Nat : k = Cardinality(places)
    <3>1. IsFiniteSet(1..m) BY <2>5, FS_Interval
    <3> QED BY <2>6, <3>1, FS_Subset, FS_CardinalityType
  <2>8. PICK s \in [1..k -> places] :
          /\ \A i, j \in 1..k : i < j => s[i] < s[j]
          /\ chosen' = Capped([i \in 1..k |-> candidates'[s[i]]])
    <3>1. PICK hits \in InOrder(candidates', places) : chosen' = Capped(hits)
      BY <1>3, <2>6 DEF Search
    <3>2. PICK s \in [1..k -> places] :
            /\ \A i, j \in DOMAIN s : i < j => s[i] < s[j]
            /\ hits = [i \in DOMAIN s |-> candidates'[s[i]]]
      BY <2>7, <3>1 DEF InOrder
    <3>3. DOMAIN s = 1..k BY <3>2
    <3> QED BY <3>1, <3>2, <3>3
  <2>9. PICK t : t = [i \in 1..k |-> candidates'[s[i]]] OBVIOUS
  <2>10. \A i \in 1..k : s[i] \in 1..m BY <2>6, <2>8
  <2>11. t \in Seq(Ids) /\ DOMAIN t = 1..k
    BY <2>5, <2>7, <2>9, <2>10
  <2>12. \A i \in 1..k : t[i] = ids[s[i]] /\ t[i] \in ToSet(candidates')
    BY <2>5, <2>9, <2>10 DEF ToSet
  <2>13. IsInjective(t)
    <3> SUFFICES ASSUME NEW i \in 1..k, NEW j \in 1..k, t[i] = t[j] PROVE i = j
      BY <2>11 DEF IsInjective
    <3>1. s[i] = s[j] BY <2>2, <2>3, <2>5, <2>10, <2>12 DEF IsInjective
    <3>2. ~(i < j) /\ ~(j < i) BY <2>7, <2>8, <2>10, <3>1
    <3> QED BY <2>7, <3>2
  <2>14. /\ phase' \in {"selecting", "reading"} /\ then' = store
         /\ UNCHANGED <<store, changes, bundle>> /\ bundle = <<>>
    BY <1>3 DEF Search, RetrievalInv, ChoiceInv
  <2> QED BY <2>5, <2>8, <2>9, <2>11, <2>12, <2>13, <2>14, ChoiceMade
<1>4. CASE Select
  <2>0. PICK n \in 0..Len(candidates) : \E ids \in [1..n -> ToSet(candidates)] :
          IsInjective(ids) /\ chosen' = Capped(ids)
    BY <1>4 DEF Select
  <2>1. PICK ids \in [1..n -> ToSet(candidates)] : IsInjective(ids) /\ chosen' = Capped(ids)
    BY <2>0
  <2>2. candidates \in Seq(Ids) /\ n \in Nat BY DEF RetrievalInv, ChoiceInv
  <2>3. ToSet(candidates) \subseteq Ids BY <2>2 DEF ToSet
  <2>4. ids \in Seq(Ids) /\ \A i \in DOMAIN ids : ids[i] \in ToSet(candidates)
    BY <2>1, <2>2, <2>3
  <2>5. /\ phase' = "reading" /\ then' = store /\ candidates' = candidates
        /\ UNCHANGED <<store, changes, bundle>> /\ bundle = <<>>
    BY <1>4 DEF Select, RetrievalInv, ChoiceInv
  <2> QED BY <2>1, <2>2, <2>4, <2>5, ChoiceMade
<1>5. CASE ReadNext
  <2>1. /\ phase = "reading" /\ chosen # <<>> /\ chosen' = Tail(chosen)
        /\ bundle' = bundle \o Read(Head(chosen))
        /\ UNCHANGED <<store, phase, candidates, then, changes>>
    BY <1>5 DEF ReadNext
  <2>2. PICK id : id = Head(chosen) OBVIOUS
  <2>3. /\ id \in Ids /\ id \in ToSet(candidates) /\ id = chosen[1]
        /\ chosen' \in Seq(Ids) /\ Len(chosen) \in Nat /\ Len(chosen') = Len(chosen) - 1
        /\ DOMAIN chosen = 1..Len(chosen) /\ DOMAIN chosen' = 1..(Len(chosen) - 1)
        /\ \A i \in 1..(Len(chosen) - 1) :
             chosen'[i] = chosen[i + 1] /\ i + 1 \in 1..Len(chosen) /\ i + 1 # 1
        /\ 1 \in 1..Len(chosen)
    BY <2>1, <2>2 DEF RetrievalInv, ChoiceInv
  <2>4. /\ IsInjective(chosen') /\ id \notin ToSet(chosen')
        /\ \A i \in DOMAIN chosen' : chosen'[i] \in ToSet(candidates)
        /\ ToSet(chosen') \subseteq ToSet(chosen)
    <3>1. \A i, j \in 1..Len(chosen) : chosen[i] = chosen[j] => i = j
      BY <2>3 DEF RetrievalInv, ChoiceInv, IsInjective
    <3>2. \A i, j \in 1..(Len(chosen) - 1) : chosen'[i] = chosen'[j] => i = j
      <4> TAKE i, j \in 1..(Len(chosen) - 1)
      <4>1. chosen'[i] = chosen'[j] => i + 1 = j + 1 BY <2>3, <3>1
      <4> QED BY <4>1
    <3>3. \A i \in 1..(Len(chosen) - 1) : chosen'[i] # id /\ chosen'[i] \in ToSet(candidates)
      BY <2>3, <3>1 DEF RetrievalInv, ChoiceInv
    <3>4. ToSet(chosen') \subseteq ToSet(chosen)
      BY <2>3 DEF ToSet
    <3> QED BY <2>3, <3>2, <3>3, <3>4 DEF IsInjective, ToSet
  <2>5. StoreGrows' BY <2>1 DEF RetrievalInv, StoreGrows
  <2>6. Len(bundle) \in Nat /\ DOMAIN bundle = 1..Len(bundle) /\ bundle \in Seq([id : Ids, stamp : Nat])
        /\ ItemLimit \in Nat /\ Len(bundle) + Len(chosen) <= ItemLimit
    BY RetrievalAssumption DEF RetrievalInv, ChoiceInv
  <2>7. CASE ~Present(id)
    <3>1. bundle' = bundle BY <2>1, <2>2, <2>6, <2>7 DEF Read
    <3>2. Len(bundle') + Len(chosen') <= ItemLimit BY <2>3, <2>6, <3>1
    <3>3. ChoiceInv' BY <2>1, <2>3, <2>4, <2>6, <3>1, <3>2 DEF RetrievalInv, ChoiceInv
    <3>4. BundleInv' BY <2>1, <2>4, <3>1 DEF RetrievalInv, BundleInv
    <3> QED BY <2>1, <2>5, <3>3, <3>4 DEF RetrievalInv
  <2>8. CASE Present(id)
    <3>1. PICK item : item = [id |-> id, stamp |-> store[id].stamp] OBVIOUS
    <3>2. /\ item \in [id : Ids, stamp : Nat] /\ item.id = id /\ then[id].kind # "deleted"
          /\ item.stamp >= then[id].stamp
      BY <2>3, <2>8, <3>1 DEF RetrievalInv, StoreGrows, Experiences, Present, Gone
    <3>3. bundle' = Append(bundle, item) BY <2>1, <2>2, <2>6, <2>8, <3>1, <3>2 DEF Read
    <3>4. /\ bundle' \in Seq([id : Ids, stamp : Nat]) /\ Len(bundle') = Len(bundle) + 1
          /\ DOMAIN bundle' = 1..(Len(bundle) + 1)
          /\ \A i \in 1..Len(bundle) : bundle'[i] = bundle[i]
          /\ bundle'[Len(bundle) + 1] = item
      BY <2>6, <3>2, <3>3
    <3>5. Len(bundle') + Len(chosen') <= ItemLimit BY <2>3, <2>6, <3>4
    <3>6. ChoiceInv' BY <2>1, <2>3, <2>4, <3>4, <3>5 DEF RetrievalInv, ChoiceInv
    <3>7. \A i \in 1..(Len(bundle) + 1) : i \in 1..Len(bundle) \/ i = Len(bundle) + 1
      BY <2>6
    <3>8. id \in ToSet(chosen) BY <2>3 DEF ToSet
    <3>9. \A i \in 1..Len(bundle) :
            /\ bundle[i].id # id
            /\ bundle[i].id \in ToSet(candidates) /\ bundle[i].id \notin ToSet(chosen')
            /\ then[bundle[i].id].kind # "deleted"
            /\ bundle[i].stamp >= then[bundle[i].id].stamp
      BY <2>4, <2>6, <3>8 DEF RetrievalInv, BundleInv
    <3>10. BundleInv'
      <4>1. \A i, j \in 1..Len(bundle) : bundle[i].id = bundle[j].id => i = j
        BY <2>6 DEF RetrievalInv, BundleInv
      <4>2. \A i, j \in 1..(Len(bundle) + 1) : bundle'[i].id = bundle'[j].id => i = j
        BY <3>2, <3>4, <3>7, <3>9, <4>1
      <4>3. \A i \in 1..(Len(bundle) + 1) :
              /\ bundle'[i].id \in ToSet(candidates) /\ bundle'[i].id \notin ToSet(chosen')
              /\ then[bundle'[i].id].kind # "deleted"
              /\ bundle'[i].stamp >= then[bundle'[i].id].stamp
        BY <2>3, <2>4, <3>2, <3>4, <3>7, <3>9
      <4> QED BY <2>1, <3>4, <4>2, <4>3 DEF BundleInv
    <3> QED BY <2>1, <2>5, <3>6, <3>10 DEF RetrievalInv
  <2> QED BY <2>7, <2>8
<1>6. CASE ReadAll
  <2>1. /\ phase' = "over" /\ bundle' = bundle /\ degraded' = FALSE
        /\ UNCHANGED <<store, changes, candidates, chosen, then>>
    BY <1>6 DEF ReadAll, Finish
  <2> QED BY <2>1 DEF RetrievalInv, StoreGrows, ChoiceInv, BundleInv
<1>7. CASE UNCHANGED retrievalVars
  BY <1>7 DEF retrievalVars, RetrievalInv, StoreGrows, ChoiceInv, BundleInv
<1> QED BY <1>1, <1>2, <1>3, <1>4, <1>5, <1>6, <1>7 DEF RetrievalNext

\* However the user and the reflection worker change the store meanwhile, a model is shown
\* distinct candidates within the limit, none of which was deleted when they were chosen, and
\* none of which is older than it was then.
THEOREM ShownExperienceIsUsable ==
  RetrievalInit /\ [][RetrievalNext]_retrievalVars => []ExperienceIsUsable
<1>1. RetrievalInv => ExperienceIsUsable
  <2> SUFFICES ASSUME RetrievalInv, phase = "over" PROVE ExperienceIsUsable
    BY DEF ExperienceIsUsable
  <2>1. Len(bundle) <= ItemLimit
    <3>1. Len(bundle) \in Nat /\ Len(chosen) \in Nat /\ ItemLimit \in Nat
      BY RetrievalAssumption DEF RetrievalInv, ChoiceInv
    <3> QED BY <3>1 DEF RetrievalInv, ChoiceInv
  <2>2. \A item \in ToSet(bundle) : \E i \in DOMAIN bundle : item = bundle[i]
    BY DEF ToSet
  <2> QED BY <2>1, <2>2 DEF RetrievalInv, BundleInv, ExperienceIsUsable
<1> QED BY <1>1, InitRetrieval, NextRetrieval, PTL

-----------------------------------------------------------------------------
(* Attachment analysis                                                     *)

Ends == {"absent", "success", "failed", "skipped"}

\* What the card says of every step is how its last attempt ended, but for the steps that
\* are going on and the two that CardTellsTruth excuses.
Tells(steps, last, busy) ==
  /\ steps \in Card /\ last \in [ToSet(Steps) -> Ends]
  /\ \A s \in ToSet(Steps) :
       /\ steps[s] = "running" =>
            s \in busy \/ (s = "video_transcription" /\ last["video_audio_extraction"] = "failed")
       /\ steps[s] = "success" => last[s] \in {"success", "skipped"}
       /\ steps[s] = "failed" =>
            \/ last[s] = "failed" \/ s = "video_audio_extraction"
            \/ s = "video_transcription" /\ last["video_audio_extraction"] = "failed"

\* The six steps of the progress display, by place and by name.
LEMMA StepNames ==
  /\ DOMAIN Steps = 1..6
  /\ ToSet(Steps) = {"attachment_analysis", "video_audio_extraction", "video_transcription",
                     "video_keyframe_extraction", "video_frame_captioning", "intent_recognition"}
<1>1. /\ DOMAIN Steps = 1..6 /\ Steps[1] = "attachment_analysis"
      /\ Steps[2] = "video_audio_extraction" /\ Steps[3] = "video_transcription"
      /\ Steps[4] = "video_keyframe_extraction" /\ Steps[5] = "video_frame_captioning"
      /\ Steps[6] = "intent_recognition"
  BY DEF Steps
<1>2. ToSet(Steps) = {Steps[i] : i \in 1..6} BY <1>1 DEF ToSet
<1>3. 1..6 = {1, 2, 3, 4, 5, 6} OBVIOUS
<1>4. ToSet(Steps) = {Steps[1], Steps[2], Steps[3], Steps[4], Steps[5], Steps[6]}
  BY <1>2, <1>3
<1> QED BY <1>1, <1>4

\* A step ends.
LEMMA EndTells ==
  ASSUME NEW steps, NEW last, NEW busy, Tells(steps, last, busy), NEW s \in ToSet(Steps),
         NEW status \in {"success", "failed"}, NEW end \in Ends,
         status = "success" => end \in {"success", "skipped"} /\ s # "video_audio_extraction",
         status = "failed" => end = "failed"
  PROVE  Tells(Emit(steps, s, status), [last EXCEPT ![s] = end], busy \ {s})
<1>1. /\ Emit(steps, s, status) \in Card /\ [last EXCEPT ![s] = end] \in [ToSet(Steps) -> Ends]
      /\ Emit(steps, s, status)[s] = status /\ [last EXCEPT ![s] = end][s] = end
      /\ \A t \in ToSet(Steps) \ {s} : /\ Emit(steps, s, status)[t] = steps[t]
                                       /\ [last EXCEPT ![s] = end][t] = last[t]
  BY DEF Emit, Card, Tells
<1>2. "video_audio_extraction" \in ToSet(Steps) BY StepNames
<1> QED BY <1>1, <1>2 DEF Tells

\* A step begins.
LEMMA BeginTells ==
  ASSUME NEW steps, NEW last, NEW busy, Tells(steps, last, busy), NEW s \in ToSet(Steps)
  PROVE  /\ Tells(Emit(steps, s, "running"), last, busy \cup {s})
         /\ Emit(steps, s, "running")[s] = "running"
<1>1. /\ Emit(steps, s, "running") \in Card
      /\ Emit(steps, s, "running")[s] = "running"
      /\ \A t \in ToSet(Steps) \ {s} : Emit(steps, s, "running")[t] = steps[t]
  BY DEF Emit, Card, Tells
<1> QED BY <1>1 DEF Tells

\* The last step that is running is marked as failed.
LEMMA MarkedStep ==
  ASSUME NEW steps, Running(steps) # {}
  PROVE  \E n \in 1..6 : /\ steps[Steps[n]] = "running"
                         /\ \A m \in 1..6 : steps[Steps[m]] = "running" => m <= n
                         /\ MarkFailed(steps) = [steps EXCEPT ![Steps[n]] = "failed"]
<1>1. PICK R : R = Running(steps) OBVIOUS
<1>2. R \subseteq 1..6 /\ R # {} BY <1>1, StepNames DEF Running
<1>3. \E n \in R : \A m \in R : n >= m
  <2>1. \A m \in R : m \in {1, 2, 3, 4, 5, 6} BY <1>2
  <2>2. CASE 6 \in R BY <2>1, <2>2
  <2>3. CASE 6 \notin R /\ 5 \in R BY <2>1, <2>3
  <2>4. CASE {5, 6} \cap R = {} /\ 4 \in R BY <2>1, <2>4
  <2>5. CASE {4, 5, 6} \cap R = {} /\ 3 \in R BY <2>1, <2>5
  <2>6. CASE {3, 4, 5, 6} \cap R = {} /\ 2 \in R BY <2>1, <2>6
  <2>7. CASE R \subseteq {1}
    <3>1. 1 \in R /\ \A m \in R : m = 1 BY <1>2, <2>7
    <3> QED BY <3>1
  <2> QED BY <2>1, <2>2, <2>3, <2>4, <2>5, <2>6, <2>7
<1>4. Max(R) \in R /\ \A m \in R : Max(R) >= m BY <1>3 DEF Max
<1>5. PICK n \in 1..6 : n = Max(R) BY <1>2, <1>4
<1>6. MarkFailed(steps) = [steps EXCEPT ![Steps[n]] = "failed"]
  BY <1>1, <1>2, <1>5 DEF MarkFailed, Emit
<1>7. \A m \in 1..6 : m \in R <=> steps[Steps[m]] = "running" BY <1>1, StepNames DEF Running
<1> QED BY <1>4, <1>5, <1>6, <1>7

\* An error that belongs to a step that is going on, or to none, leaves the card true.
LEMMA MarkTells ==
  ASSUME NEW steps, NEW last, NEW busy, Tells(steps, last, busy),
         \/ busy = {}
         \/ \E s \in {"video_frame_captioning", "intent_recognition"} :
              busy = {s} /\ steps[s] = "running" /\ last[s] = "failed"
  PROVE  Tells(MarkFailed(steps), last, {})
<1>1. /\ DOMAIN Steps = 1..6 /\ Steps[1] = "attachment_analysis"
      /\ Steps[2] = "video_audio_extraction" /\ Steps[3] = "video_transcription"
      /\ Steps[4] = "video_keyframe_extraction" /\ Steps[5] = "video_frame_captioning"
      /\ Steps[6] = "intent_recognition"
  BY DEF Steps
<1>2. CASE Running(steps) = {}
  <2>1. \A n \in 1..6 : steps[Steps[n]] # "running" BY <1>1, <1>2 DEF Running
  <2>2. \A s \in ToSet(Steps) : steps[s] # "running" BY <1>1, <2>1, StepNames
  <2>3. MarkFailed(steps) = steps BY <1>2 DEF MarkFailed
  <2> QED BY <2>2, <2>3 DEF Tells
<1>3. CASE Running(steps) # {}
  <2>1. PICK n \in 1..6 :
          /\ steps[Steps[n]] = "running"
          /\ \A m \in 1..6 : steps[Steps[m]] = "running" => m <= n
          /\ MarkFailed(steps) = [steps EXCEPT ![Steps[n]] = "failed"]
    BY <1>3, MarkedStep
  <2>2. PICK s \in ToSet(Steps) : s = Steps[n] BY <1>1 DEF ToSet
  <2>3. /\ MarkFailed(steps) \in Card /\ MarkFailed(steps)[s] = "failed"
        /\ \A t \in ToSet(Steps) \ {s} : MarkFailed(steps)[t] = steps[t]
    BY <2>1, <2>2 DEF Tells, Card
  <2>4. \/ s \in busy
        \/ s = "video_transcription" /\ last["video_audio_extraction"] = "failed"
    BY <2>1, <2>2 DEF Tells
  <2>5. \A t \in busy : t = s
    <3>1. CASE busy = {} BY <3>1
    <3>2. CASE busy = {"intent_recognition"} /\ steps["intent_recognition"] = "running"
      <4>1. n = 6 BY <1>1, <2>1, <3>2
      <4> QED BY <1>1, <2>2, <3>2, <4>1
    <3>3. CASE busy = {"video_frame_captioning"} /\ steps["video_frame_captioning"] = "running"
      <4>1. 5 <= n BY <1>1, <2>1, <3>3
      <4>2. s = "video_frame_captioning" \/ s = "intent_recognition"
        BY <1>1, <2>2, <4>1
      <4> QED BY <2>4, <3>3, <4>2
    <3> QED BY <3>1, <3>2, <3>3
  <2> QED BY <2>3, <2>4, <2>5 DEF Tells
<1> QED BY <1>2, <1>3

Parts == {"summary", "sound", "pictures"}

\* a section of the documents or none, then one of each of the first n videos
Sectioned(shown, n) ==
  /\ shown \in Seq([of : Nat, parts : SUBSET Parts])
  /\ \E d \in {0, 1} :
       /\ Len(shown) = d + n
       /\ d = 1 => shown[1].of = 0
       /\ \A i \in 1..n : shown[d + i].of = i /\ shown[d + i].parts # {}

\* the step that is going on while a run waits for a call
Own(call) ==
  CASE call = "documents" -> {"attachment_analysis"}
    [] call \in {"audio", "speech"} -> {"video_transcription"}
    [] call = "frames" -> {"video_keyframe_extraction"}
    [] call = "captions" -> {"video_frame_captioning"}
    [] call = "graph" -> {"intent_recognition"}
    [] OTHER -> {}

VideoCalls == {"fetch", "audio", "speech", "frames", "captions"}

CardInv ==
  /\ card \in Card /\ truth \in [ToSet(Steps) -> Ends]
  /\ result # "cancelled" =>
       Tells(card, truth, Own(doing)) /\ \A s \in Own(doing) : card[s] = "running"

SectionsInv ==
  /\ documents \in BOOLEAN /\ vision \in BOOLEAN /\ heard \in BOOLEAN /\ pictured \in BOOLEAN
  /\ videos \in Nat
  /\ doing \in {"start", "documents"} => video = 0 /\ Sectioned(sections, 0) /\ sections = <<>>
  /\ doing \in VideoCalls => video \in 1..videos /\ Sectioned(sections, video - 1)
  /\ doing = "graph" =>
       /\ Sectioned(sections, videos)
       /\ videos > 0 => /\ "sound" \in Last(sections).parts <=> heard
                        /\ "pictures" \in Last(sections).parts <=> pictured

AnalysisInv ==
  /\ CardInv
  /\ SectionsInv
  /\ doing \in VideoCalls \cup {"start", "documents", "graph", "ended"}
  /\ result = "none" <=> doing # "ended"
  /\ FailsForAReason

\* No attachment is analysed initially.
LEMMA InitAnalysis == AnalysisInit => AnalysisInv
<1> SUFFICES ASSUME AnalysisInit PROVE AnalysisInv
  OBVIOUS
<1>1. /\ card = [s \in ToSet(Steps) |-> "absent"] /\ truth = [s \in ToSet(Steps) |-> "absent"]
      /\ doing = "start" /\ result = "none" /\ video = 0 /\ sections = <<>>
      /\ heard = FALSE /\ pictured = FALSE /\ documents \in BOOLEAN /\ vision \in BOOLEAN
  BY DEF AnalysisInit
<1>2. videos \in Nat BY AnalysisAssumption DEF AnalysisInit
<1>3. Own(doing) = {} BY <1>1 DEF Own
<1>4. CardInv
  BY <1>1, <1>3 DEF CardInv, Tells, Card, Ends
<1>5. Sectioned(sections, 0)
  <2>1. Len(sections) = 0 + 0 /\ sections \in Seq([of : Nat, parts : SUBSET Parts]) BY <1>1
  <2>2. 1..0 = {} OBVIOUS
  <2> QED BY <2>1, <2>2 DEF Sectioned
<1>6. SectionsInv BY <1>1, <1>2, <1>5 DEF SectionsInv, VideoCalls
<1> QED BY <1>1, <1>4, <1>6 DEF AnalysisInv, FailsForAReason

\* The run goes on with a call, or with the graph after the last video.
LEMMA NextVideoHolds ==
  ASSUME AnalysisInv, NEW n \in Nat \ {0}, NEW steps, NextVideo(n, steps),
         Tells(steps, truth', {}), result = "none", result' = "none",
         UNCHANGED <<documents, videos, vision>>, heard' \in BOOLEAN, pictured' \in BOOLEAN,
         n <= videos + 1, Sectioned(sections', n - 1),
         n > 1 => /\ "sound" \in Last(sections').parts <=> heard'
                  /\ "pictures" \in Last(sections').parts <=> pictured'
  PROVE  AnalysisInv'
<1>1. videos \in Nat /\ videos' = videos /\ documents' \in BOOLEAN /\ vision' \in BOOLEAN
  BY DEF AnalysisInv, SectionsInv
<1>2. CASE n <= videos
  <2>1. doing' = "fetch" /\ video' = n /\ card' = steps BY <1>2 DEF NextVideo
  <2>2. Own(doing') = {} BY <2>1 DEF Own
  <2>3. CardInv' BY <2>1, <2>2 DEF CardInv, Tells
  <2>4. video' \in 1..videos' /\ video' - 1 = n - 1 BY <1>1, <1>2, <2>1
  <2>5. SectionsInv' BY <1>1, <2>1, <2>4 DEF SectionsInv
  <2> QED BY <2>1, <2>3, <2>5 DEF AnalysisInv, FailsForAReason, VideoCalls
<1>3. CASE ~(n <= videos)
  <2>1. doing' = "graph" /\ card' = Emit(steps, "intent_recognition", "running")
    BY <1>3 DEF NextVideo
  <2>2. Own(doing') = {"intent_recognition"} BY <2>1 DEF Own
  <2>3. CardInv'
    <3>1. "intent_recognition" \in ToSet(Steps) BY StepNames
    <3>2. Tells(card', truth', {} \cup {"intent_recognition"}) /\ card'["intent_recognition"] = "running"
      BY <2>1, <3>1, BeginTells
    <3>3. {} \cup {"intent_recognition"} = {"intent_recognition"} OBVIOUS
    <3>4. Tells(card', truth', {"intent_recognition"}) BY <3>2, <3>3
    <3> QED BY <2>2, <3>2, <3>4 DEF CardInv, Tells
  <2>4. n - 1 = videos /\ (videos > 0 => n > 1) BY <1>1, <1>3
  <2>5. SectionsInv' BY <1>1, <2>1, <2>4 DEF SectionsInv, VideoCalls
  <2> QED BY <2>1, <2>3, <2>5 DEF AnalysisInv, FailsForAReason
<1> QED BY <1>2, <1>3

\* The run goes on with the same video.
LEMMA SameVideoHolds ==
  ASSUME AnalysisInv, doing \in VideoCalls, doing' \in VideoCalls, NEW busy, busy = Own(doing'),
         Tells(card', truth', busy), \A s \in busy : card'[s] = "running",
         heard' \in BOOLEAN, UNCHANGED <<documents, videos, vision, video, pictured, sections, result>>
  PROVE  AnalysisInv'
<1>1. result = "none" BY DEF AnalysisInv, VideoCalls
<1>2. CardInv' BY DEF CardInv, Tells
<1>3. SectionsInv' BY DEF AnalysisInv, SectionsInv, VideoCalls
<1> QED BY <1>1, <1>2, <1>3 DEF AnalysisInv, FailsForAReason, VideoCalls

\* The run ends.
LEMMA EndHolds ==
  ASSUME AnalysisInv, doing # "ended", doing' = "ended", result' \in {"ok", "error", "no file", "cancelled"},
         UNCHANGED <<documents, videos, vision>>, heard' \in BOOLEAN, pictured' \in BOOLEAN,
         card' \in Card, truth' \in [ToSet(Steps) -> Ends],
         result' # "cancelled" => Tells(card', truth', {}),
         FailsForAReason'
  PROVE  AnalysisInv'
<1>1. Own(doing') = {} BY DEF Own
<1>2. CardInv' BY <1>1 DEF CardInv
<1>3. SectionsInv' BY DEF AnalysisInv, SectionsInv, VideoCalls
<1> QED BY <1>2, <1>3 DEF AnalysisInv, VideoCalls

\* A section joins those of the videos before.
LEMMA SectionAdded ==
  ASSUME NEW shown, NEW n \in Nat, Sectioned(shown, n), NEW parts \in (SUBSET Parts) \ {{}},
         NEW m, m = n + 1
  PROVE  /\ Sectioned(Append(shown, [of |-> m, parts |-> parts]), m)
         /\ Last(Append(shown, [of |-> m, parts |-> parts])).parts = parts
<1>1. PICK item : item = [of |-> m, parts |-> parts] OBVIOUS
<1>2. item \in [of : Nat, parts : SUBSET Parts] /\ item.of = m /\ item.parts = parts
  BY <1>1
<1>3. PICK d \in {0, 1} :
        /\ Len(shown) = d + n
        /\ d = 1 => shown[1].of = 0
        /\ \A i \in 1..n : shown[d + i].of = i /\ shown[d + i].parts # {}
  BY DEF Sectioned
<1>4. shown \in Seq([of : Nat, parts : SUBSET Parts]) BY DEF Sectioned
<1>5. PICK longer : longer = Append(shown, item) OBVIOUS
<1>6. /\ longer \in Seq([of : Nat, parts : SUBSET Parts]) /\ Len(longer) = d + m
      /\ \A i \in 1..(d + n) : longer[i] = shown[i]
      /\ longer[d + m] = item
  <2>1. /\ longer \in Seq([of : Nat, parts : SUBSET Parts]) /\ Len(longer) = Len(shown) + 1
        /\ \A i \in 1..Len(shown) : longer[i] = shown[i]
        /\ longer[Len(shown) + 1] = item
    BY <1>2, <1>4, <1>5
  <2>2. Len(shown) + 1 = d + m BY <1>3
  <2> QED BY <1>3, <2>1, <2>2
<1>7. d = 1 => longer[1].of = 0
  BY <1>3, <1>6
<1>8. \A i \in 1..m : longer[d + i].of = i /\ longer[d + i].parts # {}
  <2> TAKE i \in 1..m
  <2>1. CASE i = m BY <1>2, <1>6, <2>1
  <2>2. CASE i # m
    <3>1. i \in 1..n /\ d + i \in 1..(d + n) BY <2>2
    <3> QED BY <1>3, <1>6, <3>1
  <2> QED BY <2>1, <2>2
<1>9. Sectioned(longer, m) BY <1>6, <1>7, <1>8 DEF Sectioned
<1>10. Last(longer) = item BY <1>6 DEF Last
<1> QED BY <1>1, <1>2, <1>5, <1>9, <1>10

\* A video ends with its section, or the run with an error.
LEMMA VideoEndsHolds ==
  ASSUME AnalysisInv, doing \in {"frames", "captions"}, NEW steps, NEW picture \in BOOLEAN,
         VideoEnds(picture, steps), Tells(steps, truth', {}), pictured' = picture,
         UNCHANGED <<documents, videos, vision, heard>>
  PROVE  AnalysisInv'
<1>1. /\ result = "none" /\ video \in 1..videos /\ videos \in Nat /\ heard \in BOOLEAN
      /\ Sectioned(sections, video - 1)
  BY DEF AnalysisInv, SectionsInv, VideoCalls
<1>2. CASE heard \/ picture
  <2>1. PICK parts : parts = {p \in {"sound", "pictures"} : IF p = "sound" THEN heard ELSE picture}
    OBVIOUS
  <2>2. /\ sections' = Append(sections, [of |-> video, parts |-> parts])
        /\ NextVideo(video + 1, steps) /\ result' = "none"
    BY <1>1, <1>2, <2>1 DEF VideoEnds
  <2>3. parts \in (SUBSET Parts) \ {{}} /\ ("sound" \in parts <=> heard) /\ ("pictures" \in parts <=> picture)
    BY <1>2, <2>1 DEF Parts
  <2>4. video - 1 \in Nat /\ video = (video - 1) + 1 /\ video + 1 \in Nat \ {0}
        /\ (video + 1) - 1 = video /\ video + 1 <= videos + 1
    BY <1>1
  <2>5. Sectioned(sections', video) /\ Last(sections').parts = parts
    BY <1>1, <2>2, <2>3, <2>4, SectionAdded
  <2>6. PICK n \in Nat \ {0} : n = video + 1 BY <2>4
  <2>7. NextVideo(n, steps) /\ Sectioned(sections', n - 1) /\ n <= videos + 1
    BY <2>2, <2>4, <2>5, <2>6
  <2> QED BY <1>1, <2>2, <2>3, <2>5, <2>7, NextVideoHolds
<1>3. CASE ~(heard \/ picture)
  <2>1. doing' = "ended" /\ result' = "error" /\ card' = MarkFailed(steps)
    BY <1>3 DEF VideoEnds, Raise
  <2>2. Tells(card', truth', {}) BY <2>1, MarkTells
  <2>3. FailsForAReason' BY <1>3 DEF FailsForAReason
  <2> QED BY <1>1, <2>1, <2>2, <2>3, EndHolds DEF Tells
<1> QED BY <1>2, <1>3

\* What the run waits for is on the card.
LEMMA CallIsShown ==
  ASSUME AnalysisInv, NEW busy, busy = Own(doing), doing # "ended"
  PROVE  /\ Tells(card, truth, busy) /\ \A s \in busy : card[s] = "running"
         /\ result = "none"
BY DEF AnalysisInv, CardInv

\* Every call and its failure keep the card, the sections and the reasons.
LEMMA NextAnalysisInv == AnalysisInv /\ [AnalysisNext]_analysisVars => AnalysisInv'
<1> SUFFICES ASSUME AnalysisInv, [AnalysisNext]_analysisVars PROVE AnalysisInv'
  OBVIOUS
<1>0. /\ "attachment_analysis" \in ToSet(Steps) /\ "video_audio_extraction" \in ToSet(Steps)
      /\ "video_transcription" \in ToSet(Steps) /\ "video_keyframe_extraction" \in ToSet(Steps)
      /\ "video_frame_captioning" \in ToSet(Steps) /\ "intent_recognition" \in ToSet(Steps)
  BY StepNames
<1>t. card \in Card /\ truth \in [ToSet(Steps) -> Ends] /\ heard \in BOOLEAN /\ pictured \in BOOLEAN
      /\ videos \in Nat
  BY DEF AnalysisInv, CardInv, SectionsInv
<1>1. CASE Start
  <2>1. doing = "start" /\ UNCHANGED <<documents, videos, vision, heard, pictured, sections, result, truth>>
    BY <1>1 DEF Start
  <2>2. /\ Tells(card, truth, {}) /\ result = "none" /\ video = 0 /\ Sectioned(sections, 0)
        /\ sections = <<>>
    BY <2>1, CallIsShown DEF Own, AnalysisInv, SectionsInv
  <2>3. CASE documents
    <3>1. /\ doing' = "documents" /\ card' = Emit(card, "attachment_analysis", "running")
          /\ video' = video
      BY <1>1, <2>3 DEF Start
    <3>2. Tells(card', truth, {} \cup {"attachment_analysis"}) /\ card'["attachment_analysis"] = "running"
      BY <1>0, <2>2, <3>1, BeginTells
    <3>3. Own(doing') = {"attachment_analysis"} /\ {} \cup {"attachment_analysis"} = {"attachment_analysis"}
      BY <3>1 DEF Own
    <3>4. Tells(card', truth', Own(doing')) BY <2>1, <3>2, <3>3
    <3>5. CardInv' BY <3>2, <3>3, <3>4 DEF CardInv, Tells
    <3>6. SectionsInv' BY <2>1, <2>2, <3>1 DEF AnalysisInv, SectionsInv, VideoCalls
    <3> QED BY <2>1, <2>2, <3>1, <3>5, <3>6 DEF AnalysisInv, FailsForAReason
  <2>4. CASE ~documents
    <3>1. NextVideo(1, card) BY <1>1, <2>4 DEF Start
    <3>2. 1 \in Nat \ {0} /\ 1 <= videos + 1 /\ ~(1 > 1) /\ 1 - 1 = 0 BY <1>t
    <3>3. Sectioned(sections', 1 - 1) BY <2>1, <2>2, <3>2
    <3> QED BY <1>t, <2>1, <2>2, <3>1, <3>2, <3>3, NextVideoHolds
  <2> QED BY <2>3, <2>4 DEF AnalysisInv, SectionsInv
<1>2. CASE DocumentsDone \/ DocumentsFail
  <2>1. /\ doing = "documents"
        /\ UNCHANGED <<documents, videos, vision, heard, pictured>>
    BY <1>2 DEF DocumentsDone, DocumentsFail
  <2>2. /\ Tells(card, truth, {"attachment_analysis"}) /\ result = "none" /\ video = 0
        /\ Sectioned(sections, 0) /\ sections = <<>>
    BY <2>1, CallIsShown DEF Own, AnalysisInv, SectionsInv
  <2>3. CASE DocumentsDone
    <3>1. /\ truth' = [truth EXCEPT !["attachment_analysis"] = "success"] /\ result' = result
          /\ sections' \in {sections, Append(sections, [of |-> 0, parts |-> {"summary"}])}
          /\ NextVideo(1, Emit(card, "attachment_analysis", "success"))
      BY <2>3 DEF DocumentsDone, Attempted
    <3>2. Tells(Emit(card, "attachment_analysis", "success"), truth',
                {"attachment_analysis"} \ {"attachment_analysis"})
      BY <1>0, <2>2, <3>1, EndTells DEF Ends
    <3>3. {"attachment_analysis"} \ {"attachment_analysis"} = {} OBVIOUS
    <3>4. PICK steps : steps = Emit(card, "attachment_analysis", "success") OBVIOUS
    <3>5. Tells(steps, truth', {}) /\ NextVideo(1, steps) BY <3>1, <3>2, <3>3, <3>4
    <3>6. Sectioned(sections', 1 - 1)
      <4>1. Sectioned(Append(<<>>, [of |-> 0, parts |-> {"summary"}]), 0)
        <5>1. PICK item : item = [of |-> 0, parts |-> {"summary"}] OBVIOUS
        <5>2. item \in [of : Nat, parts : SUBSET Parts] /\ item.of = 0 BY <5>1 DEF Parts
        <5>3. PICK one : one = Append(<<>>, item) OBVIOUS
        <5>4. one \in Seq([of : Nat, parts : SUBSET Parts]) /\ Len(one) = 1 + 0 /\ one[1] = item
          BY <5>2, <5>3
        <5>5. 1..0 = {} OBVIOUS
        <5> QED BY <5>1, <5>2, <5>3, <5>4, <5>5 DEF Sectioned
      <4>2. 1 - 1 = 0 OBVIOUS
      <4>3. Sectioned(sections', 0) BY <2>2, <3>1, <4>1
      <4> QED BY <4>2, <4>3
    <3>7. 1 \in Nat \ {0} /\ 1 <= videos + 1 /\ ~(1 > 1) BY <1>t
    <3> QED BY <1>t, <2>1, <2>2, <3>1, <3>5, <3>6, <3>7, NextVideoHolds
  <2>4. CASE DocumentsFail
    <3>1. /\ truth' = [truth EXCEPT !["attachment_analysis"] = "failed"]
          /\ doing' = "ended" /\ result' = "error" /\ video' = video
          /\ card' = MarkFailed(Emit(card, "attachment_analysis", "failed"))
      BY <2>4 DEF DocumentsFail, Attempted, Raise
    <3>2. Tells(Emit(card, "attachment_analysis", "failed"), truth',
                {"attachment_analysis"} \ {"attachment_analysis"})
      BY <1>0, <2>2, <3>1, EndTells DEF Ends
    <3>3. {"attachment_analysis"} \ {"attachment_analysis"} = {} OBVIOUS
    <3>4. Tells(card', truth', {}) BY <3>1, <3>2, <3>3, MarkTells
    <3>5. FailsForAReason' BY <2>2, <3>1 DEF FailsForAReason
    <3> QED BY <1>t, <2>1, <3>1, <3>4, <3>5, EndHolds DEF Tells
  <2> QED BY <1>2, <2>3, <2>4
<1>3. CASE Fetched
  <2>1. /\ doing = "fetch" /\ doing' = "audio" /\ card' = Emit(card, "video_transcription", "running")
        /\ UNCHANGED <<documents, videos, vision, video, heard, pictured, sections, result, truth>>
    BY <1>3 DEF Fetched
  <2>2. Tells(card, truth, {}) BY <2>1, CallIsShown DEF Own
  <2>3. /\ Tells(card', truth', {} \cup {"video_transcription"}) /\ card'["video_transcription"] = "running"
        /\ {} \cup {"video_transcription"} = {"video_transcription"}
    BY <1>0, <2>1, <2>2, BeginTells
  <2>4. Own(doing') = {"video_transcription"} BY <2>1 DEF Own
  <2>5. Tells(card', truth', {"video_transcription"}) BY <2>3
  <2> QED BY <1>t, <2>1, <2>3, <2>4, <2>5, SameVideoHolds DEF VideoCalls
<1>4. CASE FileMissing
  <2>1. /\ doing \in {"start", "fetch"} /\ doing' = "ended" /\ result' = "no file"
        /\ card' = MarkFailed(card)
        /\ UNCHANGED <<documents, videos, vision, video, heard, pictured, sections, truth>>
    BY <1>4 DEF FileMissing
  <2>2. Tells(card, truth, {}) BY <2>1, CallIsShown DEF Own
  <2>3. Tells(card', truth', {}) BY <2>1, <2>2, MarkTells
  <2>4. FailsForAReason' BY <2>1 DEF FailsForAReason
  <2> QED BY <1>t, <2>1, <2>3, <2>4, EndHolds DEF Tells
<1>5. CASE AudioExtracted
  <2>1. /\ doing = "audio" /\ doing' = "speech"
        /\ truth' = [truth EXCEPT !["video_audio_extraction"] = "success"]
        /\ UNCHANGED <<documents, videos, vision, video, heard, pictured, sections, card, result>>
    BY <1>5 DEF AudioExtracted, Attempted
  <2>2. Tells(card, truth, {"video_transcription"}) /\ card["video_transcription"] = "running"
    BY <2>1, CallIsShown DEF Own
  <2>3. /\ truth' \in [ToSet(Steps) -> Ends] /\ truth'["video_audio_extraction"] = "success"
        /\ \A s \in ToSet(Steps) \ {"video_audio_extraction"} : truth'[s] = truth[s]
    BY <1>0, <1>t, <2>1 DEF Ends
  <2>4. Tells(card', truth', {"video_transcription"})
    BY <1>0, <2>1, <2>2, <2>3 DEF Tells
  <2>5. Own(doing') = {"video_transcription"} BY <2>1 DEF Own
  <2> QED BY <1>t, <2>1, <2>2, <2>4, <2>5, SameVideoHolds DEF VideoCalls
<1>6. CASE AudioFails
  <2>1. /\ doing = "audio" /\ heard' = FALSE /\ doing' = "frames"
        /\ truth' = [truth EXCEPT !["video_audio_extraction"] = "failed"]
        /\ card' = Emit(Emit(card, "video_audio_extraction", "failed"), "video_keyframe_extraction", "running")
        /\ UNCHANGED <<documents, videos, vision, video, pictured, sections, result>>
    BY <1>6 DEF AudioFails, Attempted, Pictures
  <2>2. Tells(card, truth, {"video_transcription"})
    BY <2>1, CallIsShown DEF Own
  <2>3. PICK steps : steps = Emit(card, "video_audio_extraction", "failed") OBVIOUS
  <2>4. /\ Tells(steps, truth', {"video_transcription"} \ {"video_audio_extraction"})
        /\ truth'["video_audio_extraction"] = "failed"
    BY <1>0, <1>t, <2>1, <2>2, <2>3, EndTells DEF Ends
  <2>5. Tells(steps, truth', {}) BY <2>4 DEF Tells
  <2>6. /\ Tells(card', truth', {} \cup {"video_keyframe_extraction"})
        /\ card'["video_keyframe_extraction"] = "running"
        /\ {} \cup {"video_keyframe_extraction"} = {"video_keyframe_extraction"}
    BY <1>0, <2>1, <2>3, <2>5, BeginTells
  <2>7. Own(doing') = {"video_keyframe_extraction"} BY <2>1 DEF Own
  <2>8. Tells(card', truth', {"video_keyframe_extraction"}) BY <2>6
  <2> QED BY <2>1, <2>6, <2>7, <2>8, SameVideoHolds DEF VideoCalls
<1>7. ASSUME NEW status \in Outcomes, SpeechEnds(status) PROVE AnalysisInv'
  <2>1. /\ doing = "speech" /\ heard' = (status = "success") /\ doing' = "frames"
        /\ truth' = [truth EXCEPT !["video_transcription"] = status]
        /\ card' = Emit(Emit(card, "video_transcription", status), "video_keyframe_extraction", "running")
        /\ UNCHANGED <<documents, videos, vision, video, pictured, sections, result>>
    BY <1>7 DEF SpeechEnds, Attempted, Pictures
  <2>2. Tells(card, truth, {"video_transcription"})
    BY <2>1, CallIsShown DEF Own
  <2>3. PICK steps : steps = Emit(card, "video_transcription", status) OBVIOUS
  <2>4. Tells(steps, truth', {"video_transcription"} \ {"video_transcription"})
    BY <1>0, <2>1, <2>2, <2>3, EndTells DEF Ends, Outcomes
  <2>5. {"video_transcription"} \ {"video_transcription"} = {} OBVIOUS
  <2>6. Tells(steps, truth', {}) BY <2>4, <2>5
  <2>7. /\ Tells(card', truth', {} \cup {"video_keyframe_extraction"})
        /\ card'["video_keyframe_extraction"] = "running"
        /\ {} \cup {"video_keyframe_extraction"} = {"video_keyframe_extraction"}
    BY <1>0, <2>1, <2>3, <2>6, BeginTells
  <2>8. Own(doing') = {"video_keyframe_extraction"} BY <2>1 DEF Own
  <2>9. Tells(card', truth', {"video_keyframe_extraction"}) BY <2>7
  <2>10. heard' \in BOOLEAN BY <2>1
  <2> QED BY <2>1, <2>7, <2>8, <2>9, <2>10, SameVideoHolds DEF VideoCalls
<1>8. CASE FramesDone
  <2>1. /\ doing = "frames" /\ doing' = "captions"
        /\ truth' = [truth EXCEPT !["video_keyframe_extraction"] = "success"]
        /\ card' = Emit(Emit(card, "video_keyframe_extraction", "success"), "video_frame_captioning", "running")
        /\ UNCHANGED <<documents, videos, vision, video, heard, pictured, sections, result>>
    BY <1>8 DEF FramesDone, Attempted
  <2>2. Tells(card, truth, {"video_keyframe_extraction"})
    BY <2>1, CallIsShown DEF Own
  <2>3. PICK steps : steps = Emit(card, "video_keyframe_extraction", "success") OBVIOUS
  <2>4. Tells(steps, truth', {"video_keyframe_extraction"} \ {"video_keyframe_extraction"})
    BY <1>0, <2>1, <2>2, <2>3, EndTells DEF Ends
  <2>5. {"video_keyframe_extraction"} \ {"video_keyframe_extraction"} = {} OBVIOUS
  <2>6. Tells(steps, truth', {}) BY <2>4, <2>5
  <2>7. /\ Tells(card', truth', {} \cup {"video_frame_captioning"})
        /\ card'["video_frame_captioning"] = "running"
        /\ {} \cup {"video_frame_captioning"} = {"video_frame_captioning"}
    BY <1>0, <2>1, <2>3, <2>6, BeginTells
  <2>8. Own(doing') = {"video_frame_captioning"} BY <2>1 DEF Own
  <2>9. Tells(card', truth', {"video_frame_captioning"}) BY <2>7
  <2> QED BY <1>t, <2>1, <2>7, <2>8, <2>9, SameVideoHolds DEF VideoCalls
<1>9. ASSUME NEW status \in Outcomes, NoFrames(status) PROVE AnalysisInv'
  <2>1. PICK first, steps :
          /\ first = Emit(card, "video_keyframe_extraction", status)
          /\ steps = Emit(first, "video_frame_captioning", "success")
    OBVIOUS
  <2>2. /\ doing = "frames" /\ pictured' = FALSE /\ VideoEnds(FALSE, steps)
        /\ truth' = [truth EXCEPT !["video_keyframe_extraction"] = status,
                                  !["video_frame_captioning"] = "skipped"]
        /\ UNCHANGED <<documents, videos, vision, heard>>
    BY <1>9, <2>1 DEF NoFrames
  <2>3. Tells(card, truth, {"video_keyframe_extraction"})
    BY <2>2, CallIsShown DEF Own
  <2>4. PICK last : last = [truth EXCEPT !["video_keyframe_extraction"] = status] OBVIOUS
  <2>5. truth' = [last EXCEPT !["video_frame_captioning"] = "skipped"]
    BY <1>0, <1>t, <2>2, <2>4
  <2>6. Tells(first, last, {"video_keyframe_extraction"} \ {"video_keyframe_extraction"})
    BY <1>0, <2>1, <2>3, <2>4, EndTells DEF Ends, Outcomes
  <2>7. Tells(steps, truth', ({"video_keyframe_extraction"} \ {"video_keyframe_extraction"})
                               \ {"video_frame_captioning"})
    BY <1>0, <2>1, <2>5, <2>6, EndTells DEF Ends
  <2>8. ({"video_keyframe_extraction"} \ {"video_keyframe_extraction"}) \ {"video_frame_captioning"} = {}
    OBVIOUS
  <2>9. Tells(steps, truth', {}) BY <2>7, <2>8
  <2>10. PICK picture \in BOOLEAN : picture = FALSE OBVIOUS
  <2>11. VideoEnds(picture, steps) /\ pictured' = picture BY <2>2, <2>10
  <2> QED BY <2>2, <2>9, <2>11, VideoEndsHolds
<1>10. ASSUME NEW status \in Outcomes, CaptionEnds(status) PROVE AnalysisInv'
  <2>1. PICK steps : steps = Emit(card, "video_frame_captioning", status) OBVIOUS
  <2>2. PICK picture \in BOOLEAN : picture = (status = "success") OBVIOUS
  <2>3. /\ doing = "captions" /\ pictured' = picture /\ VideoEnds(picture, steps)
        /\ truth' = [truth EXCEPT !["video_frame_captioning"] = status]
        /\ UNCHANGED <<documents, videos, vision, heard>>
    BY <1>10, <2>1, <2>2 DEF CaptionEnds, Attempted, CaptionShown
  <2>4. Tells(card, truth, {"video_frame_captioning"})
    BY <2>3, CallIsShown DEF Own
  <2>5. Tells(steps, truth', {"video_frame_captioning"} \ {"video_frame_captioning"})
    BY <1>0, <2>1, <2>3, <2>4, EndTells DEF Ends, Outcomes
  <2>6. {"video_frame_captioning"} \ {"video_frame_captioning"} = {} OBVIOUS
  <2>7. Tells(steps, truth', {}) BY <2>5, <2>6
  <2> QED BY <2>3, <2>7, VideoEndsHolds
<1>11. CASE CaptionRefused \/ GraphFails
  <2>1. PICK s : s = IF CaptionRefused THEN "video_frame_captioning" ELSE "intent_recognition" OBVIOUS
  <2>2. /\ doing = (IF CaptionRefused THEN "captions" ELSE "graph")
        /\ CaptionRefused => ~vision
        /\ truth' = [truth EXCEPT ![s] = "failed"]
        /\ doing' = "ended" /\ result' = "error" /\ card' = MarkFailed(card)
        /\ UNCHANGED <<documents, videos, vision, video, heard, pictured, sections>>
    BY <1>11, <2>1 DEF CaptionRefused, GraphFails, Attempted, Raise
  <2>3. Own(doing) = {s} BY <2>1, <2>2 DEF Own
  <2>4. Tells(card, truth, {s}) /\ card[s] = "running"
    BY <2>2, <2>3, CallIsShown
  <2>5. /\ truth' \in [ToSet(Steps) -> Ends] /\ truth'[s] = "failed"
        /\ \A t \in ToSet(Steps) \ {s} : truth'[t] = truth[t]
    BY <1>0, <1>t, <2>1, <2>2 DEF Ends
  <2>6. Tells(card, truth', {s})
    BY <1>0, <2>1, <2>4, <2>5 DEF Tells
  <2>7. Tells(card', truth', {})
    BY <2>1, <2>2, <2>4, <2>5, <2>6, MarkTells
  <2>8. FailsForAReason' BY <2>1, <2>2, <2>5 DEF FailsForAReason
  <2> QED BY <1>t, <2>2, <2>7, <2>8, EndHolds DEF Tells
<1>12. CASE GraphEnds
  <2>1. /\ doing = "graph" /\ doing' = "ended" /\ result' = "ok"
        /\ truth' = [truth EXCEPT !["intent_recognition"] = "success"]
        /\ card' = Emit(card, "intent_recognition", "success")
        /\ UNCHANGED <<documents, videos, vision, video, heard, pictured, sections>>
    BY <1>12 DEF GraphEnds, Attempted
  <2>2. Tells(card, truth, {"intent_recognition"})
    BY <2>1, CallIsShown DEF Own
  <2>3. Tells(card', truth', {"intent_recognition"} \ {"intent_recognition"})
    BY <1>0, <2>1, <2>2, EndTells DEF Ends
  <2>4. {"intent_recognition"} \ {"intent_recognition"} = {} OBVIOUS
  <2>5. Tells(card', truth', {}) BY <2>3, <2>4
  <2>6. FailsForAReason' BY <2>1 DEF FailsForAReason
  <2> QED BY <1>t, <2>1, <2>5, <2>6, EndHolds DEF Tells
<1>13. CASE Cancelled
  <2>1. /\ doing # "ended" /\ doing' = "ended" /\ result' = "cancelled"
        /\ UNCHANGED <<documents, videos, vision, video, heard, pictured, sections, card, truth>>
    BY <1>13 DEF Cancelled
  <2>2. FailsForAReason' BY <2>1 DEF FailsForAReason
  <2> QED BY <1>t, <2>1, <2>2, EndHolds
<1>14. CASE UNCHANGED analysisVars
  <2>1. CardInv' BY <1>14 DEF analysisVars, AnalysisInv, CardInv
  <2>2. SectionsInv' BY <1>14 DEF analysisVars, AnalysisInv, SectionsInv
  <2>3. FailsForAReason' BY <1>14 DEF analysisVars, AnalysisInv, FailsForAReason
  <2> QED BY <1>14, <2>1, <2>2, <2>3 DEF analysisVars, AnalysisInv
<1> QED
  BY <1>1, <1>2, <1>3, <1>4, <1>5, <1>6, <1>7, <1>8, <1>9, <1>10, <1>11, <1>12, <1>13, <1>14
  DEF AnalysisNext

\* The graph gets every video once, in order, with all that was made of it; the card tells how
\* each step ended; and a run with its files fails only for a reason.
THEOREM AttachmentsAreShown == AnalysisInit /\ [][AnalysisNext]_analysisVars => []AnalysisShown
<1>1. AnalysisInv => AnalysisShown
  <2> SUFFICES ASSUME AnalysisInv PROVE AnalysisShown
    OBVIOUS
  <2>1. NoVideoDropped
    <3> SUFFICES ASSUME doing = "graph" PROVE NoVideoDropped
      BY DEF NoVideoDropped
    <3>1. PICK shown : shown = IF sections # <<>> /\ Head(sections).of = 0
                                 THEN Tail(sections) ELSE sections
      OBVIOUS
    <3>2. PICK d \in {0, 1} :
            /\ Len(sections) = d + videos
            /\ d = 1 => sections[1].of = 0
            /\ \A i \in 1..videos : sections[d + i].of = i /\ sections[d + i].parts # {}
      BY DEF AnalysisInv, SectionsInv, Sectioned
    <3>3. sections \in Seq([of : Nat, parts : SUBSET Parts]) /\ videos \in Nat
      BY DEF AnalysisInv, SectionsInv, Sectioned
    <3>4. /\ Len(shown) = videos /\ DOMAIN shown = 1..videos
          /\ \A i \in 1..videos : shown[i] = sections[d + i]
      <4>1. CASE d = 1
        <5>1. sections # <<>> /\ Head(sections) = sections[1] BY <3>2, <3>3, <4>1
        <5>2. shown = Tail(sections) BY <3>1, <3>2, <4>1, <5>1
        <5>3. /\ Len(shown) = Len(sections) - 1 /\ DOMAIN shown = 1..(Len(sections) - 1)
              /\ \A i \in 1..(Len(sections) - 1) : shown[i] = sections[i + 1]
          BY <3>3, <5>1, <5>2
        <5>4. Len(sections) - 1 = videos BY <3>2, <3>3, <4>1
        <5> QED BY <3>3, <4>1, <5>3, <5>4
      <4>2. CASE d = 0
        <5>1. Len(sections) = videos /\ \A i \in 1..videos : d + i = i BY <3>2, <3>3, <4>2
        <5>2. sections # <<>> => Head(sections).of # 0
          <6> SUFFICES ASSUME sections # <<>> PROVE Head(sections).of # 0
            OBVIOUS
          <6>1. Head(sections) = sections[1] /\ 1 \in 1..videos BY <3>3, <5>1
          <6> QED BY <3>2, <5>1, <6>1
        <5>3. shown = sections BY <3>1, <5>2
        <5> QED BY <3>3, <5>1, <5>3
      <4> QED BY <4>1, <4>2
    <3>5. videos > 0 => Last(shown) = Last(sections)
      <4> SUFFICES ASSUME videos > 0 PROVE Last(shown) = Last(sections)
        OBVIOUS
      <4>1. Last(shown) = shown[videos] BY <3>4 DEF Last
      <4>2. Last(sections) = sections[d + videos] BY <3>2 DEF Last
      <4>3. videos \in 1..videos BY <3>3
      <4> QED BY <3>4, <4>1, <4>2, <4>3
    <3>6. videos > 0 => /\ "sound" \in Last(shown).parts <=> heard
                        /\ "pictures" \in Last(shown).parts <=> pictured
      BY <3>5 DEF AnalysisInv, SectionsInv
    <3>7. \A n \in DOMAIN shown : shown[n].of = n /\ shown[n].parts # {}
      BY <3>2, <3>4
    <3> QED BY <3>1, <3>4, <3>6, <3>7 DEF NoVideoDropped
  <2>2. CardTellsTruth
    <3> SUFFICES ASSUME result \in {"ok", "error", "no file"} PROVE CardTellsTruth
      BY DEF CardTellsTruth
    <3>1. Own(doing) = {} BY DEF AnalysisInv, Own
    <3>2. Tells(card, truth, {}) BY <3>1 DEF AnalysisInv, CardInv
    <3> QED BY <3>2 DEF Tells, CardTellsTruth
  <2> QED BY <2>1, <2>2 DEF AnalysisInv, CardInv, AnalysisShown
<1> QED BY <1>1, InitAnalysis, NextAnalysisInv, PTL

-----------------------------------------------------------------------------
(* Roles of models                                                         *)

Names == FileModels \cup Roles
Bindings ==
  {Off, Unclear} \cup {ByModel(name, spare) : name \in Names, spare \in Spares}
                 \cup {ByRole(role, spare) : role \in Roles, spare \in Spares}
Profiles ==
  [from : {"env", "file"} \X Names, able : SUBSET Abilities, fallback : Spares, timeout : Nat]

\* The environment is one of those assumed.
SettingsOK ==
  /\ settings.structured \in Nat /\ settings.compression \in Nat
  /\ settings.compress \in BOOLEAN /\ settings.vision \in BOOLEAN
  /\ settings.identity \in [Roles -> {"none", "part", "whole"}]

Bound(roles) == DOMAIN roles \subseteq Roles /\ roles \in [DOMAIN roles -> Bindings]
Leveled(roles, below) == below \in [DOMAIN roles -> Profiles \cup {Off, Refused}]

\* the model has the capabilities the role needs, and so has each of its fallbacks
Apt(role, profile) ==
  /\ Required[role] \subseteq profile.able
  /\ \A name \in profile.fallback :
       name \in FileModels /\ Required[role] \subseteq FileAble[name]

\* a model with other fallbacks
With(profile, spare) == [profile EXCEPT !.fallback = spare]

\* the model of a binding that names one
Given(binding) == With(ModelOf(binding.name), binding.fallback)

\* A model has another shape than the two values in place of one.
LEMMA NoProfile == Off \notin Profiles /\ Refused \notin Profiles /\ Off # Refused
<1>1. ASSUME NEW p \in Profiles PROVE "by" \notin DOMAIN p
  BY DEF Profiles
<1>2. "by" \in DOMAIN Off /\ "by" \in DOMAIN Refused
  BY DEF Off, Refused
<1> QED BY <1>1, <1>2 DEF Off, Refused

\* What a role may be bound to.
LEMMA BindingKinds ==
  ASSUME NEW b \in Bindings
  PROVE  /\ b.fallback \in Spares
         /\ \/ b = Off \/ b = Unclear
            \/ b.by = "model" /\ b.name \in Names
            \/ b.by = "inherit" /\ b.name \in Roles
<1>1. {} \in Spares BY DEF Spares
<1>2. CASE b \in {Off, Unclear} BY <1>1, <1>2 DEF Off, Unclear
<1>3. CASE b \in {ByModel(name, spare) : name \in Names, spare \in Spares}
  BY <1>3 DEF ByModel
<1>4. CASE b \in {ByRole(role, spare) : role \in Roles, spare \in Spares}
  BY <1>4 DEF ByRole
<1> QED BY <1>2, <1>3, <1>4 DEF Bindings

\* A role's own timeout is a number of seconds, 0 when it has none.
LEMMA OwnTimeoutType == ASSUME SettingsOK, NEW role PROVE OwnTimeout(role) \in Nat
BY DEF OwnTimeout, SettingsOK

\* The model of a name is a profile without fallbacks.
LEMMA ModelOfType ==
  ASSUME SettingsOK, NEW name \in Names
  PROVE  ModelOf(name) \in Profiles /\ ModelOf(name).fallback = {}
<1>0. {} \in Spares BY DEF Spares
<1>1. CASE name \in FileModels
  <2>1. FileAble[name] \in SUBSET Abilities BY <1>1, RolesAssumption
  <2> QED BY <1>0, <1>1, <2>1 DEF ModelOf, FileModel, Profiles
<1>2. CASE name \notin FileModels
  <2>1. OwnTimeout(name) \in Nat /\ settings.structured \in Nat
    BY OwnTimeoutType DEF SettingsOK
  <2>2. Abilities \in SUBSET Abilities OBVIOUS
  <2> QED BY <1>0, <1>2, <2>1, <2>2 DEF ModelOf, EnvModel, Profiles
<1> QED BY <1>1, <1>2

\* Other fallbacks change nothing else of a model.
LEMMA WithType ==
  ASSUME NEW p \in Profiles, NEW spare \in Spares
  PROVE  /\ With(p, spare) \in Profiles
         /\ With(p, spare).from = p.from /\ With(p, spare).able = p.able
         /\ With(p, spare).fallback = spare /\ With(p, spare).timeout = p.timeout
         /\ With(p, p.fallback) = p
         /\ \A other \in Spares : With(With(p, other), spare) = With(p, spare)
<1>1. PICK f, a, s, n : p = [from |-> f, able |-> a, fallback |-> s, timeout |-> n]
  BY DEF Profiles
<1>2. f \in {"env", "file"} \X Names /\ a \in SUBSET Abilities /\ s \in Spares /\ n \in Nat
  BY <1>1 DEF Profiles
<1>3. With(p, spare) = [from |-> f, able |-> a, fallback |-> spare, timeout |-> n]
  BY <1>1 DEF With
<1>4. With(p, p.fallback) = p BY <1>1 DEF With
<1>5. \A other \in Spares : With(With(p, other), spare) = With(p, spare)
  BY <1>1 DEF With
<1> QED BY <1>1, <1>2, <1>3, <1>4, <1>5 DEF Profiles

\* The model of a binding that names one is the model of that name.
LEMMA GivenType ==
  ASSUME SettingsOK, NEW b, b.name \in Names, b.fallback \in Spares
  PROVE  /\ Given(b) \in Profiles
         /\ b.fallback = {} => Given(b) = ModelOf(b.name)
         /\ Given(b).from = ModelOf(b.name).from
BY ModelOfType, WithType DEF Given

\* a model within the time of a role that is not one of the file's
Timed(role, p, own) ==
  IF role \in own /\ OwnTimeout(role) > 0 THEN [p EXCEPT !.timeout = OwnTimeout(role)] ELSE p

\* Another time changes nothing else of a model.
LEMMA TimedType ==
  ASSUME SettingsOK, NEW role, NEW own, NEW p \in Profiles
  PROVE  /\ Timed(role, p, own) \in Profiles
         /\ Timed(role, p, own).from = p.from
         /\ Timed(role, p, own).able = p.able
         /\ Timed(role, p, own).fallback = p.fallback
         /\ Timed(role, p, own).timeout =
              IF role \in own /\ OwnTimeout(role) > 0 THEN OwnTimeout(role) ELSE p.timeout
<1>1. PICK t \in Nat : t = OwnTimeout(role) BY OwnTimeoutType
<1>2. Timed(role, p, own) = IF role \in own /\ t > 0 THEN [p EXCEPT !.timeout = t] ELSE p
  BY <1>1 DEF Timed
<1>3. PICK f, a, s, n : p = [from |-> f, able |-> a, fallback |-> s, timeout |-> n]
  BY DEF Profiles
<1>4. [p EXCEPT !.timeout = t] = [from |-> f, able |-> a, fallback |-> s, timeout |-> t]
  BY <1>3
<1>5. f \in {"env", "file"} \X Names /\ a \in SUBSET Abilities /\ s \in Spares /\ n \in Nat
  BY <1>3 DEF Profiles
<1> QED BY <1>1, <1>2, <1>3, <1>4, <1>5 DEF Profiles

\* A borrowed model is a model, from where the parent's is.
LEMMA InheritedType ==
  ASSUME SettingsOK, NEW role, NEW own, NEW p \in Profiles, NEW spare \in Spares
  PROVE  /\ Inherited(role, p, spare, own) \in Profiles
         /\ Inherited(role, p, spare, own).from = p.from
<1>1. PICK s \in Spares : s = IF spare # {} THEN spare ELSE p.fallback
  BY DEF Profiles
<1>2. PICK q : q = With(p, s) OBVIOUS
<1>3. q \in Profiles /\ q.from = p.from BY <1>2, WithType
<1>4. Inherited(role, p, spare, own) = Timed(role, q, own)
  BY <1>1, <1>2 DEF Inherited, With, Timed
<1> QED BY <1>3, <1>4, TimedType

\* A role of the file borrows its parent's model in the parent's time.
LEMMA InheritedInTime ==
  ASSUME NEW role, NEW own, role \notin own, NEW p \in Profiles, NEW spare \in Spares
  PROVE  Inherited(role, p, spare, own) = IF spare # {} THEN With(p, spare) ELSE p
<1>1. CASE spare # {} BY <1>1 DEF Inherited, With
<1>2. CASE spare = {}
  <2>1. Inherited(role, p, spare, own) = With(p, p.fallback) BY <1>2 DEF Inherited, With
  <2>2. p.fallback \in Spares BY DEF Profiles
  <2> QED BY <1>2, <2>1, <2>2, WithType
<1> QED BY <1>1, <1>2

\* Who names no fallbacks borrows the parent's.
LEMMA InheritedWhole ==
  ASSUME SettingsOK, NEW role, NEW own, NEW p \in Profiles
  PROVE  /\ Inherited(role, p, {}, own) \in Profiles
         /\ Inherited(role, p, {}, own).from = p.from
         /\ Inherited(role, p, {}, own).able = p.able
         /\ Inherited(role, p, {}, own).fallback = p.fallback
         /\ Inherited(role, p, {}, own).timeout =
              IF role \in own /\ OwnTimeout(role) > 0 THEN OwnTimeout(role) ELSE p.timeout
<1>1. Inherited(role, p, {}, own) = Timed(role, With(p, p.fallback), own)
  BY DEF Inherited, With, Timed
<1>2. p.fallback \in Spares BY DEF Profiles
<1>3. With(p, p.fallback) = p BY <1>2, WithType
<1> QED BY <1>1, <1>3, TimedType

\* The capabilities checked while resolving are those the role requires.
LEMMA FitMeans ==
  ASSUME NEW role, NEW p \in Profiles
  PROVE  Fit(role, p) <=> Apt(role, p)
<1>1. p # Off BY NoProfile
<1>2. \A name \in FileModels : FileModel(name).able = FileAble[name] BY DEF FileModel
<1> QED BY <1>1, <1>2 DEF Fit, Able, Apt, Stands

\* What one more step of resolution makes of a role.
LEMMA Visited ==
  ASSUME SettingsOK, NEW R, Bound(R), NEW own, NEW below, Leveled(R, below), NEW r \in DOMAIN R
  PROVE  /\ R[r] = Off => Visit(R, own, below)[r] = IF r \in Optional THEN Off ELSE Refused
         /\ R[r] = Unclear => Visit(R, own, below)[r] = Refused
         /\ R[r].by = "model" =>
              Visit(R, own, below)[r] = IF Apt(r, Given(R[r])) THEN Given(R[r]) ELSE Refused
         /\ R[r].by = "inherit" =>
              Visit(R, own, below)[r] =
                IF /\ R[r].name \in DOMAIN R /\ below[R[r].name] \in Profiles
                   /\ Apt(r, Inherited(r, below[R[r].name], R[r].fallback, own))
                  THEN Inherited(r, below[R[r].name], R[r].fallback, own) ELSE Refused
<1>1. PICK v : v = Visit(R, own, below)[r] OBVIOUS
<1>2. PICK b : b = R[r] OBVIOUS
<1>3. PICK p : p = IF b.name \in DOMAIN R THEN below[b.name] ELSE Refused OBVIOUS
<1>4. DOMAIN below = DOMAIN R BY DEF Leveled
<1>5. PICK q : q = CASE b.by = "off" -> Off
                     [] b.by = "model" -> Given(b)
                     [] b.by = "inherit" /\ p \notin {Refused, Off} ->
                          Inherited(r, p, b.fallback, own)
                     [] OTHER -> Refused
  OBVIOUS
<1>6. v = IF q # Refused /\ Fit(r, q) THEN q ELSE Refused
  <2>1. q = ModelFor(r, b, own, below) BY <1>3, <1>4, <1>5 DEF ModelFor, Given, With
  <2> QED BY <1>1, <1>2, <2>1 DEF Visit, Checked
<1>7. p \in Profiles \cup {Off, Refused}
  BY <1>3 DEF Leveled
<1>8. ASSUME b = Off PROVE v = IF r \in Optional THEN Off ELSE Refused
  <2>1. b.by = "off" BY <1>8 DEF Off
  <2>2. q = Off BY <1>5, <2>1
  <2>3. Fit(r, q) <=> r \in Optional BY <2>2 DEF Fit
  <2> QED BY <1>6, <2>2, <2>3, NoProfile
<1>9. ASSUME b = Unclear PROVE v = Refused
  <2>1. b.by = "both" BY <1>9 DEF Unclear
  <2>2. q = Refused BY <1>5, <2>1
  <2> QED BY <1>6, <2>2
<1>10. ASSUME b.by = "model" PROVE v = IF Apt(r, Given(b)) THEN Given(b) ELSE Refused
  <2>1. q = Given(b) BY <1>5, <1>10
  <2>2. b.name \in Names /\ b.fallback \in Spares
    <3>1. b \in Bindings BY <1>2 DEF Bound
    <3> QED BY <1>10, <3>1, BindingKinds DEF Off, Unclear
  <2>3. q \in Profiles BY <2>1, <2>2, GivenType
  <2>4. Fit(r, q) <=> Apt(r, q) BY <2>3, FitMeans
  <2> QED BY <1>6, <2>1, <2>3, <2>4, NoProfile
<1>11. ASSUME b.by = "inherit"
       PROVE  v = IF /\ b.name \in DOMAIN R /\ below[b.name] \in Profiles
                     /\ Apt(r, Inherited(r, below[b.name], b.fallback, own))
                    THEN Inherited(r, below[b.name], b.fallback, own) ELSE Refused
  <2>1. CASE p \in Profiles
    <3>1. b.name \in DOMAIN R /\ p = below[b.name] BY <1>3, <2>1, NoProfile
    <3>2. q = Inherited(r, p, b.fallback, own) BY <1>5, <1>11, <2>1, NoProfile
    <3>3. b.fallback \in Spares
      <4>1. b \in Bindings BY <1>2 DEF Bound
      <4> QED BY <4>1, BindingKinds
    <3>4. q \in Profiles BY <2>1, <3>2, <3>3, InheritedType
    <3>5. Fit(r, q) <=> Apt(r, q) BY <3>4, FitMeans
    <3> QED BY <1>6, <2>1, <3>1, <3>2, <3>4, <3>5, NoProfile
  <2>2. CASE p \notin Profiles
    <3>1. p \in {Off, Refused} BY <1>7, <2>2
    <3>2. q = Refused BY <1>5, <1>11, <3>1
    <3>3. ~(b.name \in DOMAIN R /\ below[b.name] \in Profiles) BY <1>3, <2>2
    <3> QED BY <1>6, <3>2, <3>3
  <2> QED BY <2>1, <2>2
<1> QED BY <1>1, <1>2, <1>8, <1>9, <1>10, <1>11

\* A role is bound in one of four ways.
LEMMA BoundKinds ==
  ASSUME NEW R, Bound(R), NEW r \in DOMAIN R
  PROVE  /\ r \in Roles /\ R[r].fallback \in Spares
         /\ \/ R[r] = Off \/ R[r] = Unclear
            \/ R[r].by = "model" /\ R[r].name \in Names
            \/ R[r].by = "inherit" /\ R[r].name \in Roles
BY BindingKinds DEF Bound

\* One more level of resolving gives each role a profile, nothing, or a refusal.
LEMMA VisitType ==
  ASSUME SettingsOK, NEW R, Bound(R), NEW own, NEW below, Leveled(R, below)
  PROVE  Leveled(R, Visit(R, own, below))
<1>1. ASSUME NEW r \in DOMAIN R PROVE Visit(R, own, below)[r] \in Profiles \cup {Off, Refused}
  <2>1. CASE R[r] = Off BY <2>1, Visited
  <2>2. CASE R[r] = Unclear BY <2>2, Visited
  <2>3. CASE R[r].by = "model" /\ R[r].name \in Names BY <2>3, Visited, GivenType, BoundKinds
  <2>4. CASE R[r].by = "inherit"
    <3>1. PICK q : q = R[r].name OBVIOUS
    <3>2. PICK spare : spare = R[r].fallback OBVIOUS
    <3>3. spare \in Spares BY <3>2, BoundKinds
    <3>4. ASSUME below[q] \in Profiles PROVE Inherited(r, below[q], spare, own) \in Profiles
      BY <3>3, <3>4, InheritedType
    <3> QED BY <2>4, <3>1, <3>2, <3>4, Visited
  <2> QED BY <2>1, <2>2, <2>3, <2>4, BoundKinds
<1>2. Visit(R, own, below) = [r \in DOMAIN R |-> Visit(R, own, below)[r]]
  BY DEF Visit
<1> QED BY <1>1, <1>2 DEF Leveled

-----------------------------------------------------------------------------
\* The levels of resolution.
Level0(R) == [role \in DOMAIN R |-> Refused]
Level1(R, own) == Visit(R, own, Level0(R))
Level2(R, own) == Visit(R, own, Level1(R, own))
Level3(R, own) == Visit(R, own, Level2(R, own))
Level4(R, own) == Visit(R, own, Level3(R, own))
Level5(R, own) == Visit(R, own, Level4(R, own))
Level6(R, own) == Visit(R, own, Level5(R, own))
Level7(R, own) == Visit(R, own, Level6(R, own))

\* Resolving is seven visits, one level after the other.
LEMMA SevenLevels == ASSUME NEW R, NEW own PROVE Resolve(R, own) = Level7(R, own)
BY DEF Resolve, Level0, Level1, Level2, Level3, Level4, Level5, Level6, Level7

\* Every level gives each role a profile, nothing, or a refusal.
LEMMA LevelTypes ==
  ASSUME SettingsOK, NEW R, Bound(R), NEW own
  PROVE  /\ Leveled(R, Level0(R)) /\ Leveled(R, Level1(R, own)) /\ Leveled(R, Level2(R, own))
         /\ Leveled(R, Level3(R, own)) /\ Leveled(R, Level4(R, own)) /\ Leveled(R, Level5(R, own))
         /\ Leveled(R, Level6(R, own)) /\ Leveled(R, Level7(R, own))
<1>0. Leveled(R, Level0(R)) BY DEF Leveled, Level0
<1>1. Leveled(R, Level1(R, own)) BY <1>0, VisitType DEF Level1
<1>2. Leveled(R, Level2(R, own)) BY <1>1, VisitType DEF Level2
<1>3. Leveled(R, Level3(R, own)) BY <1>2, VisitType DEF Level3
<1>4. Leveled(R, Level4(R, own)) BY <1>3, VisitType DEF Level4
<1>5. Leveled(R, Level5(R, own)) BY <1>4, VisitType DEF Level5
<1>6. Leveled(R, Level6(R, own)) BY <1>5, VisitType DEF Level6
<1>7. Leveled(R, Level7(R, own)) BY <1>6, VisitType DEF Level7
<1> QED BY <1>0, <1>1, <1>2, <1>3, <1>4, <1>5, <1>6, <1>7

\* What is resolved stays so.
Below(a, b) == \A r \in DOMAIN a : a[r] # Refused => b[r] = a[r]

\* Visiting is monotone: what was resolved below stays what it was.
LEMMA VisitGrows ==
  ASSUME SettingsOK, NEW R, Bound(R), NEW own, NEW a, NEW b,
         Leveled(R, a), Leveled(R, b), Below(a, b)
  PROVE  Below(Visit(R, own, a), Visit(R, own, b))
<1>1. DOMAIN Visit(R, own, a) = DOMAIN R BY DEF Visit
<1> SUFFICES ASSUME NEW r \in DOMAIN R, Visit(R, own, a)[r] # Refused
             PROVE  Visit(R, own, b)[r] = Visit(R, own, a)[r]
  BY <1>1 DEF Below
<1>2. CASE R[r] = Off BY <1>2, Visited
<1>3. CASE R[r] = Unclear BY <1>3, Visited
<1>4. CASE R[r].by = "model" BY <1>4, Visited
<1>5. CASE R[r].by = "inherit"
  <2>1. PICK q : q = R[r].name OBVIOUS
  <2>2. /\ q \in DOMAIN R /\ a[q] \in Profiles
        /\ Apt(r, Inherited(r, a[q], R[r].fallback, own))
        /\ Visit(R, own, a)[r] = Inherited(r, a[q], R[r].fallback, own)
    BY <1>5, <2>1, Visited
  <2>3. b[q] = a[q]
    <3>1. DOMAIN a = DOMAIN R BY DEF Leveled
    <3> QED BY <2>2, <3>1, NoProfile DEF Below
  <2> QED BY <1>5, <2>1, <2>2, <2>3, Visited
<1> QED BY <1>2, <1>3, <1>4, <1>5, BoundKinds

\* What a level resolved, every later level resolves alike.
LEMMA LevelsGrow ==
  ASSUME SettingsOK, NEW R, Bound(R), NEW own
  PROVE  /\ Below(Level0(R), Level1(R, own)) /\ Below(Level1(R, own), Level2(R, own))
         /\ Below(Level2(R, own), Level3(R, own)) /\ Below(Level3(R, own), Level4(R, own))
         /\ Below(Level4(R, own), Level5(R, own)) /\ Below(Level5(R, own), Level6(R, own))
         /\ Below(Level6(R, own), Level7(R, own))
         /\ Below(Level7(R, own), Visit(R, own, Level7(R, own)))
<1>0. Below(Level0(R), Level1(R, own)) BY DEF Below, Level0
<1>1. Below(Level1(R, own), Level2(R, own))
  BY <1>0, LevelTypes, VisitGrows DEF Level1, Level2
<1>2. Below(Level2(R, own), Level3(R, own))
  BY <1>1, LevelTypes, VisitGrows DEF Level2, Level3
<1>3. Below(Level3(R, own), Level4(R, own))
  BY <1>2, LevelTypes, VisitGrows DEF Level3, Level4
<1>4. Below(Level4(R, own), Level5(R, own))
  BY <1>3, LevelTypes, VisitGrows DEF Level4, Level5
<1>5. Below(Level5(R, own), Level6(R, own))
  BY <1>4, LevelTypes, VisitGrows DEF Level5, Level6
<1>6. Below(Level6(R, own), Level7(R, own))
  BY <1>5, LevelTypes, VisitGrows DEF Level6, Level7
<1>7. Below(Level7(R, own), Visit(R, own, Level7(R, own)))
  BY <1>6, LevelTypes, VisitGrows DEF Level7
<1> QED BY <1>0, <1>1, <1>2, <1>3, <1>4, <1>5, <1>6, <1>7

\* A resolved configuration is what another step makes of it.
LEMMA ResolvedIsStable ==
  ASSUME SettingsOK, NEW R, Bound(R), NEW own, Resolves(Resolve(R, own))
  PROVE  /\ Leveled(R, Resolve(R, own))
         /\ \A r \in DOMAIN R : Resolve(R, own)[r] # Refused
         /\ \A r \in DOMAIN R : Visit(R, own, Resolve(R, own))[r] = Resolve(R, own)[r]
<1>1. Leveled(R, Resolve(R, own)) BY SevenLevels, LevelTypes
<1>2. DOMAIN Resolve(R, own) = DOMAIN R BY <1>1 DEF Leveled
<1>3. Below(Resolve(R, own), Visit(R, own, Resolve(R, own))) BY SevenLevels, LevelsGrow
<1> QED BY <1>1, <1>2, <1>3 DEF Below, Resolves

-----------------------------------------------------------------------------
\* The file and the environment put together.

\* The file's roles are bound as roles may be.
LEMMA FileIsBound == ASSUME file \in Files PROVE Bound(file)
<1>1. /\ DOMAIN file \subseteq Roles
      /\ file \in [DOMAIN file -> {Off, Unclear}
                      \cup {ByModel(name, spare) : name \in FileModels, spare \in Spares}
                      \cup {ByRole(role, spare) : role \in Roles, spare \in Spares}]
  BY RolesAssumption
<1> QED BY <1>1 DEF Bound, Bindings, Names

\* the models a file names are its own
LEMMA FileNamesItsModels ==
  ASSUME file \in Files, NEW r \in DOMAIN file, file[r].by = "model"
  PROVE  file[r].name \in FileModels
<1>1. file[r] \in {Off, Unclear}
                   \cup {ByModel(name, spare) : name \in FileModels, spare \in Spares}
                   \cup {ByRole(role, spare) : role \in Roles, spare \in Spares}
  BY RolesAssumption
<1> QED BY <1>1 DEF Off, Unclear, ByModel, ByRole

\* The settings have the types the lemmas ask for.
LEMMA SettingsAreOK == ASSUME settings \in Settings PROVE SettingsOK
BY RolesAssumption DEF SettingsOK

\* The least of some places is one of them.
LEMMA MinOfPlaces ==
  ASSUME NEW S \in SUBSET (1..5), S # {}
  PROVE  Min(S) \in S /\ \A n \in S : Min(S) <= n
<1>1. \E x \in S : \A y \in S : x <= y
  <2>1. CASE 1 \in S BY <2>1
  <2>2. CASE 1 \notin S /\ 2 \in S BY <2>2
  <2>3. CASE 1 \notin S /\ 2 \notin S /\ 3 \in S BY <2>3
  <2>4. CASE 1 \notin S /\ 2 \notin S /\ 3 \notin S /\ 4 \in S BY <2>4
  <2>5. CASE 1 \notin S /\ 2 \notin S /\ 3 \notin S /\ 4 \notin S
    <3>1. \A y \in S : y \in 1..5 /\ y # 1 /\ y # 2 /\ y # 3 /\ y # 4 BY <2>5
    <3>2. \A y \in S : y = 5 BY <3>1
    <3>3. PICK x \in S : TRUE OBVIOUS
    <3>4. x = 5 /\ \A y \in S : 5 <= y BY <3>2, <3>3
    <3> QED BY <3>3, <3>4
  <2> QED BY <2>1, <2>2, <2>3, <2>4, <2>5
<1> QED BY <1>1 DEF Min

Borrowers == {"structured_fast", "memory", "compression", "video_vision"}

\* From whom each borrower may inherit, in order (INHERIT).
LEMMA OwnersAsked ==
  /\ DOMAIN Inherit = Borrowers
  /\ DOMAIN Inherit["structured_fast"] = 1..1 /\ Inherit["structured_fast"][1] = "small"
  /\ DOMAIN Inherit["memory"] = 1..4
  /\ Inherit["memory"][1] = "structured_fast" /\ Inherit["memory"][2] = "structured"
  /\ Inherit["memory"][3] = "small" /\ Inherit["memory"][4] = "main"
  /\ DOMAIN Inherit["compression"] = 1..5
  /\ Inherit["compression"][1] = "memory" /\ Inherit["compression"][2] = "structured_fast"
  /\ Inherit["compression"][3] = "structured" /\ Inherit["compression"][4] = "small"
  /\ Inherit["compression"][5] = "main"
  /\ DOMAIN Inherit["video_vision"] = 1..1 /\ Inherit["video_vision"][1] = "main"
BY DEF Inherit, Borrowers

\* A borrower's candidates are other roles that everybody needs.
LEMMA CandidatesAreRoles ==
  ASSUME NEW role \in Borrowers, NEW n \in DOMAIN Inherit[role]
  PROVE  n \in 1..5 /\ Inherit[role][n] \in Needed /\ Inherit[role][n] # role
<1>1. CASE role = "structured_fast" BY <1>1, OwnersAsked DEF Needed
<1>2. CASE role = "memory"
  <2>1. n \in {1, 2, 3, 4} BY <1>2, OwnersAsked
  <2> QED BY <1>2, <2>1, OwnersAsked DEF Needed
<1>3. CASE role = "compression"
  <2>1. n \in {1, 2, 3, 4, 5} BY <1>3, OwnersAsked
  <2> QED BY <1>3, <2>1, OwnersAsked DEF Needed
<1>4. CASE role = "video_vision" BY <1>4, OwnersAsked DEF Needed
<1> QED BY <1>1, <1>2, <1>3, <1>4 DEF Borrowers

\* FirstOf is the candidate at the least of the places.
LEMMA FirstIsFirst ==
  ASSUME NEW role \in Borrowers, NEW places \in SUBSET DOMAIN Inherit[role], places # {}
  PROVE  \E n \in places : /\ FirstOf(role, places) = Inherit[role][n]
                           /\ \A m \in places : n <= m
<1>1. places \in SUBSET (1..5) BY CandidatesAreRoles
<1> QED BY <1>1, MinOfPlaces DEF FirstOf

\* The configuration before borrowing: the file's roles, then those of the variables.
LEMMA ConfiguredIs ==
  ASSUME SettingsOK, NEW F, Bound(F), NEW C, C = Configured(F)
  PROVE  /\ Bound(C)
         /\ DOMAIN C = DOMAIN F \cup {q \in Roles : Disabled(q) \/ Identity(q) = "whole"}
         /\ \A r \in DOMAIN F : C[r] = F[r]
         /\ \A r \in DOMAIN C \ DOMAIN F : C[r] = IF Disabled(r) THEN Off ELSE ByModel(r, {})
<1>1. DOMAIN C = DOMAIN F \cup {q \in Roles : Disabled(q) \/ Identity(q) = "whole"}
  BY DEF Configured
<1>2. \A r \in DOMAIN C :
        C[r] = IF r \in DOMAIN F THEN F[r] ELSE IF Disabled(r) THEN Off ELSE ByModel(r, {})
  BY DEF Configured
<1>3. DOMAIN C \subseteq Roles BY <1>1 DEF Bound
<1>4. \A r \in DOMAIN C : C[r] \in Bindings
  <2>1. ASSUME NEW r \in DOMAIN F PROVE F[r] \in Bindings BY <2>1 DEF Bound
  <2>2. ASSUME NEW r \in Roles PROVE ByModel(r, {}) \in Bindings /\ Off \in Bindings
    BY DEF Bindings, Names, Spares
  <2> QED BY <1>2, <1>3, <2>1, <2>2
<1>5. C = [r \in DOMAIN C |-> C[r]]
  BY DEF Configured
<1>6. Bound(C) BY <1>3, <1>4, <1>5 DEF Bound
<1> QED BY <1>1, <1>2, <1>6

\* A borrower that is not bound borrows from the first parent there is.
LEMMA Borrows ==
  ASSUME NEW R, Bound(R), NEW explicit, NEW role \in Borrowers,
         NEW B, B = Borrow(R, explicit, role),
         NEW P, P = Parents(R, explicit, role)
  PROVE  /\ Bound(B)
         /\ \A r \in DOMAIN R : r \in DOMAIN B /\ B[r] = R[r]
         /\ \A r \in DOMAIN B \ DOMAIN R :
              r = role /\ P # {} /\ B[role] = ByRole(FirstOf(role, P), {})
         /\ role \notin DOMAIN B => P = {}
         /\ P \subseteq DOMAIN Inherit[role]
<1>1. P \subseteq DOMAIN Inherit[role] BY DEF Parents
<1>2. CASE role \in DOMAIN R \/ P = {}
  <2>1. B = R BY <1>2 DEF Borrow
  <2> QED BY <1>1, <1>2, <2>1
<1>3. CASE role \notin DOMAIN R /\ P # {}
  <2>1. B = [r \in DOMAIN R \cup {role} |->
               IF r \in DOMAIN R THEN R[r] ELSE ByRole(FirstOf(role, P), {})]
    BY <1>3 DEF Borrow
  <2>2. FirstOf(role, P) \in Roles
    BY <1>1, <1>3, FirstIsFirst, CandidatesAreRoles DEF Roles
  <2>3. ByRole(FirstOf(role, P), {}) \in Bindings BY <2>2 DEF Bindings, Spares
  <2>4. role \in Roles BY DEF Borrowers, Roles, Needed, Optional
  <2>5. DOMAIN B = DOMAIN R \cup {role} BY <2>1
  <2>6. \A r \in DOMAIN R : R[r] \in Bindings BY DEF Bound
  <2>7. \A r \in DOMAIN B : B[r] \in Bindings BY <2>1, <2>3, <2>5, <2>6
  <2>8. DOMAIN B \subseteq Roles BY <2>4, <2>5 DEF Bound
  <2>9. Bound(B) BY <2>1, <2>7, <2>8 DEF Bound
  <2> QED BY <1>1, <1>3, <2>1, <2>5, <2>9
<1> QED BY <1>2, <1>3

\* the places of the candidates of a role that have a model
Lenders(role, from) ==
  {n \in DOMAIN Inherit[role] :
     Inherit[role][n] \in DOMAIN from /\ from[Inherit[role][n]] # Off}

\* Who is bound by nobody borrows, compression also from a borrower.
LEMMA MergedIs ==
  ASSUME SettingsOK, NEW F, Bound(F), NEW C, C = Configured(F), NEW M, M = Merged(F)
  PROVE  /\ Bound(M)
         /\ \A r \in DOMAIN C : r \in DOMAIN M /\ M[r] = C[r]
         /\ \A r \in DOMAIN M \ DOMAIN C :
              LET P == Lenders(r, IF r = "compression" THEN M ELSE C) IN
              r \in Borrowers /\ P # {} /\ M[r] = ByRole(FirstOf(r, P), {})
         /\ \A r \in Borrowers \ DOMAIN M :
              Lenders(r, IF r = "compression" THEN M ELSE C) = {}
<1>0. PICK E : E = DOMAIN C OBVIOUS
<1>1. PICK R1 : R1 = Borrow(C, E, "structured_fast") OBVIOUS
<1>2. PICK R2 : R2 = Borrow(R1, E, "memory") OBVIOUS
<1>3. PICK R3 : R3 = Borrow(R2, E, "compression") OBVIOUS
<1>4. M = Borrow(R3, E, "video_vision") BY <1>0, <1>1, <1>2, <1>3 DEF Merged
<1>5. PICK P1 : P1 = Parents(C, E, "structured_fast") OBVIOUS
<1>6. PICK P2 : P2 = Parents(R1, E, "memory") OBVIOUS
<1>7. PICK P3 : P3 = Parents(R2, E, "compression") OBVIOUS
<1>8. PICK P4 : P4 = Parents(R3, E, "video_vision") OBVIOUS
<1>9. /\ "structured_fast" \in Borrowers /\ "memory" \in Borrowers /\ "compression" \in Borrowers
      /\ "video_vision" \in Borrowers
      /\ \A r \in Borrowers : r \in {"structured_fast", "memory", "compression", "video_vision"}
  BY DEF Borrowers
<1>10. Bound(C) BY ConfiguredIs
<1>11. /\ Bound(R1)
       /\ \A r \in E : r \in DOMAIN R1 /\ R1[r] = C[r]
       /\ \A r \in DOMAIN R1 \ E :
            r = "structured_fast" /\ P1 # {}
            /\ R1["structured_fast"] = ByRole(FirstOf("structured_fast", P1), {})
       /\ "structured_fast" \notin DOMAIN R1 => P1 = {}
  BY <1>0, <1>1, <1>5, <1>9, <1>10, Borrows
<1>12. /\ Bound(R2)
       /\ \A r \in DOMAIN R1 : r \in DOMAIN R2 /\ R2[r] = R1[r]
       /\ \A r \in DOMAIN R2 \ DOMAIN R1 :
            r = "memory" /\ P2 # {} /\ R2["memory"] = ByRole(FirstOf("memory", P2), {})
       /\ "memory" \notin DOMAIN R2 => P2 = {}
  BY <1>2, <1>6, <1>9, <1>11, Borrows
<1>13. /\ Bound(R3)
       /\ \A r \in DOMAIN R2 : r \in DOMAIN R3 /\ R3[r] = R2[r]
       /\ \A r \in DOMAIN R3 \ DOMAIN R2 :
            r = "compression" /\ P3 # {} /\ R3["compression"] = ByRole(FirstOf("compression", P3), {})
       /\ "compression" \notin DOMAIN R3 => P3 = {}
  BY <1>3, <1>7, <1>9, <1>12, Borrows
<1>14. /\ Bound(M)
       /\ \A r \in DOMAIN R3 : r \in DOMAIN M /\ M[r] = R3[r]
       /\ \A r \in DOMAIN M \ DOMAIN R3 :
            r = "video_vision" /\ P4 # {} /\ M["video_vision"] = ByRole(FirstOf("video_vision", P4), {})
       /\ "video_vision" \notin DOMAIN M => P4 = {}
  BY <1>4, <1>8, <1>9, <1>13, Borrows
<1>15. P1 = Lenders("structured_fast", C)
  BY <1>5 DEF Parents, Lenders
<1>16. P2 = Lenders("memory", C)
  BY <1>0, <1>6, <1>11 DEF Parents, Lenders
<1>17. P3 = Lenders("compression", M)
  <2>1. ASSUME NEW n \in DOMAIN Inherit["compression"]
        PROVE  Inherit["compression"][n] # "compression" /\ Inherit["compression"][n] # "video_vision"
    BY <1>9, CandidatesAreRoles DEF Needed
  <2>2. ASSUME NEW c, c # "compression", c # "video_vision"
        PROVE  (c \in DOMAIN R2 /\ R2[c] # Off) <=> (c \in DOMAIN M /\ M[c] # Off)
    BY <1>13, <1>14, <2>2
  <2>3. P3 = {n \in DOMAIN Inherit["compression"] :
                Inherit["compression"][n] \in DOMAIN R2 /\ R2[Inherit["compression"][n]] # Off}
    BY <1>7 DEF Parents
  <2> QED BY <2>1, <2>2, <2>3 DEF Lenders
<1>18. P4 = Lenders("video_vision", C)
  <2>1. \A n \in DOMAIN Inherit["video_vision"] : Inherit["video_vision"][n] = "main"
    BY OwnersAsked
  <2>2. ("main" \in DOMAIN R3 /\ R3["main"] # Off) <=> ("main" \in DOMAIN C /\ C["main"] # Off)
    BY <1>0, <1>11, <1>12, <1>13
  <2>3. P4 = {n \in DOMAIN Inherit["video_vision"] :
                Inherit["video_vision"][n] \in DOMAIN R3 /\ R3[Inherit["video_vision"][n]] # Off}
    BY <1>8 DEF Parents
  <2> QED BY <2>1, <2>2, <2>3 DEF Lenders
<1>19. \A r \in E : r \in DOMAIN M /\ M[r] = C[r]
  BY <1>11, <1>12, <1>13, <1>14
<1>20. ASSUME NEW r \in DOMAIN M \ E
       PROVE  LET P == Lenders(r, IF r = "compression" THEN M ELSE C) IN
              r \in Borrowers /\ P # {} /\ M[r] = ByRole(FirstOf(r, P), {})
  <2>1. CASE r \in DOMAIN R1 BY <1>9, <1>11, <1>12, <1>13, <1>14, <1>15, <2>1
  <2>2. CASE r \in DOMAIN R2 \ DOMAIN R1 BY <1>9, <1>12, <1>13, <1>14, <1>16, <2>2
  <2>3. CASE r \in DOMAIN R3 \ DOMAIN R2 BY <1>9, <1>13, <1>14, <1>17, <2>3
  <2>4. CASE r \notin DOMAIN R3 BY <1>9, <1>14, <1>18, <2>4
  <2> QED BY <2>1, <2>2, <2>3, <2>4
<1>21. ASSUME NEW r \in Borrowers \ DOMAIN M
       PROVE  Lenders(r, IF r = "compression" THEN M ELSE C) = {}
  <2>1. CASE r = "structured_fast" BY <1>11, <1>12, <1>13, <1>14, <1>15, <2>1
  <2>2. CASE r = "memory" BY <1>12, <1>13, <1>14, <1>16, <2>2
  <2>3. CASE r = "compression" BY <1>13, <1>14, <1>17, <2>3
  <2>4. CASE r = "video_vision" BY <1>14, <1>18, <2>4
  <2> QED BY <1>9, <2>1, <2>2, <2>3, <2>4
<1> QED BY <1>0, <1>14, <1>19, <1>20, <1>21

-----------------------------------------------------------------------------
\* The roles of the file.

\* The file's roles are bound in R as the file says.
Includes(R) == \A r \in DOMAIN file : r \in DOMAIN R /\ R[r] = file[r]

\* Roles of the file inherit from roles of the file.
FileIsClosed ==
  \A r \in DOMAIN file : file[r].by = "inherit" => file[r].name \in DOMAIN file

\* A resolved role of the file has a model and fallbacks of its chain, its own fallbacks if it
\* names some, and they can do its work; or it is switched off there.
Obeyed(models) ==
  \A role \in DOMAIN file : models[role] # Refused =>
    \/ models[role] = Off /\ file[role] = Off
    \/ /\ Apt(role, models[role])
       /\ \E r, q \in Chain(role) :
            /\ r \in DOMAIN file /\ q \in DOMAIN file /\ file[r].by = "model"
            /\ models[role] = With(FileModel(file[r].name), file[q].fallback)
            /\ file[role].fallback # {} => file[q].fallback = file[role].fallback

\* The models a file names are profiles, whatever fallbacks they get.
LEMMA FileModelType ==
  ASSUME file \in Files, SettingsOK, NEW r \in DOMAIN file, file[r].by = "model"
  PROVE  /\ FileModel(file[r].name) \in Profiles /\ FileModel(file[r].name).fallback = {}
         /\ ModelOf(file[r].name) = FileModel(file[r].name)
<1>1. file[r].name \in FileModels BY FileNamesItsModels
<1>2. ModelOf(file[r].name) = FileModel(file[r].name) BY <1>1 DEF ModelOf
<1> QED BY <1>1, <1>2, ModelOfType DEF Names

\* A file that resolves inherits only within itself.
LEMMA FileInherits ==
  ASSUME file \in Files, SettingsOK, Resolves(Resolve(file, {}))
  PROVE  FileIsClosed
<1> SUFFICES ASSUME NEW r \in DOMAIN file, file[r].by = "inherit"
             PROVE  file[r].name \in DOMAIN file
  BY DEF FileIsClosed
<1>1. PICK a : a = Resolve(file, {}) OBVIOUS
<1>2. Leveled(file, a) /\ a[r] # Refused /\ Visit(file, {}, a)[r] = a[r]
  BY <1>1, FileIsBound, ResolvedIsStable
<1> QED BY <1>2, FileIsBound, Visited

\* A role is on its own chain.
LEMMA ChainStart == ASSUME NEW role \in Roles PROVE role \in Chain(role)
BY DEF Chain

\* The chain of the role inherited from is part of the chain.
LEMMA ChainGrows ==
  ASSUME NEW role \in DOMAIN file, file[role].by = "inherit"
  PROVE  Chain(file[role].name) \subseteq Chain(role)
<1> SUFFICES ASSUME NEW r \in Chain(file[role].name), NEW S \in SUBSET Roles, role \in S,
                    \A q \in S \cap DOMAIN file : file[q].by = "inherit" => file[q].name \in S
             PROVE  r \in S
  BY DEF Chain
<1>1. file[role].name \in S OBVIOUS
<1> QED BY <1>1 DEF Chain

\* Visiting keeps every role of the file on a model of its chain.
LEMMA ObeyedStep ==
  ASSUME file \in Files, SettingsOK, FileIsClosed, NEW R, Bound(R), Includes(R),
         NEW own, \A r \in DOMAIN file : r \notin own,
         NEW below, Leveled(R, below), Obeyed(below)
  PROVE  Obeyed(Visit(R, own, below))
<1> SUFFICES ASSUME NEW role \in DOMAIN file, Visit(R, own, below)[role] # Refused
             PROVE  \/ Visit(R, own, below)[role] = Off /\ file[role] = Off
                    \/ /\ Apt(role, Visit(R, own, below)[role])
                       /\ \E r, q \in Chain(role) :
                            /\ r \in DOMAIN file /\ q \in DOMAIN file /\ file[r].by = "model"
                            /\ Visit(R, own, below)[role]
                                 = With(FileModel(file[r].name), file[q].fallback)
                            /\ file[role].fallback # {} =>
                                 file[q].fallback = file[role].fallback
  BY DEF Obeyed
<1>1. role \in DOMAIN R /\ R[role] = file[role] BY DEF Includes
<1>2. PICK v : v = Visit(R, own, below)[role] OBVIOUS
<1>3. role \in Roles BY FileIsBound DEF Bound
<1>4. CASE file[role] = Off
  <2>1. v = Off BY <1>1, <1>2, <1>4, Visited
  <2> QED BY <1>2, <1>4, <2>1
<1>5. CASE file[role] = Unclear BY <1>1, <1>5, Visited
<1>6. CASE file[role].by = "model"
  <2>1. v = Given(file[role]) /\ Apt(role, v) BY <1>1, <1>2, <1>6, Visited
  <2>2. v = With(FileModel(file[role].name), file[role].fallback)
    BY <1>6, <2>1, FileModelType DEF Given
  <2> QED BY <1>2, <1>3, <1>6, <2>1, <2>2, ChainStart
<1>7. CASE file[role].by = "inherit"
  <2>1. PICK c : c = file[role].name OBVIOUS
  <2>2. c \in DOMAIN file BY <1>7, <2>1 DEF FileIsClosed
  <2>3. PICK spare \in Spares : spare = file[role].fallback BY FileIsBound, BoundKinds
  <2>4. below[c] \in Profiles /\ v = Inherited(role, below[c], spare, own) /\ Apt(role, v)
    BY <1>1, <1>2, <1>7, <2>1, <2>3, Visited
  <2>5. v = IF spare # {} THEN With(below[c], spare) ELSE below[c]
    <3>1. PICK p \in Profiles : p = below[c] BY <2>4
    <3>2. spare \in Spares BY <2>3
    <3>3. Inherited(role, p, spare, own) = IF spare # {} THEN With(p, spare) ELSE p
      BY <3>1, <3>2, InheritedInTime
    <3> QED BY <2>4, <3>1, <3>3
  <2>6. PICK r \in Chain(c), q \in Chain(c) :
          /\ r \in DOMAIN file /\ q \in DOMAIN file /\ file[r].by = "model"
          /\ below[c] = With(FileModel(file[r].name), file[q].fallback)
    BY <2>2, <2>4, NoProfile DEF Obeyed
  <2>7. r \in Chain(role) /\ q \in Chain(role) BY <1>7, <2>1, <2>6, ChainGrows
  <2>8. CASE spare = {} BY <1>2, <2>3, <2>4, <2>5, <2>6, <2>7, <2>8
  <2>9. CASE spare # {}
    <3>1. FileModel(file[r].name) \in Profiles /\ file[q].fallback \in Spares
      BY <2>6, FileModelType, FileIsBound, BoundKinds
    <3>2. v = With(FileModel(file[r].name), file[role].fallback)
      BY <2>3, <2>5, <2>6, <2>9, <3>1, WithType
    <3>3. role \in Chain(role) BY <1>3, ChainStart
    <3> QED BY <1>2, <2>4, <2>6, <2>7, <3>2, <3>3
  <2> QED BY <2>8, <2>9
<1> QED BY <1>1, <1>4, <1>5, <1>6, <1>7, BoundKinds

\* At every level the file's roles have models of their chains.
LEMMA LevelsObey ==
  ASSUME file \in Files, SettingsOK, FileIsClosed, NEW R, Bound(R), Includes(R),
         NEW own, \A r \in DOMAIN file : r \notin own
  PROVE  /\ Obeyed(Level5(R, own)) /\ Obeyed(Level6(R, own)) /\ Obeyed(Level7(R, own))
<1>0. Obeyed(Level0(R)) BY DEF Obeyed, Level0, Includes
<1>1. Obeyed(Level1(R, own)) BY <1>0, LevelTypes, ObeyedStep DEF Level1
<1>2. Obeyed(Level2(R, own)) BY <1>1, LevelTypes, ObeyedStep DEF Level2
<1>3. Obeyed(Level3(R, own)) BY <1>2, LevelTypes, ObeyedStep DEF Level3
<1>4. Obeyed(Level4(R, own)) BY <1>3, LevelTypes, ObeyedStep DEF Level4
<1>5. Obeyed(Level5(R, own)) BY <1>4, LevelTypes, ObeyedStep DEF Level5
<1>6. Obeyed(Level6(R, own)) BY <1>5, LevelTypes, ObeyedStep DEF Level6
<1>7. Obeyed(Level7(R, own)) BY <1>6, LevelTypes, ObeyedStep DEF Level7
<1> QED BY <1>5, <1>6, <1>7

\* As a part of the whole the file's roles are resolved as alone.
Extends(a, b) == \A r \in DOMAIN file : a[r] # Refused => b[r] = a[r]

\* Visiting the merged configuration extends visiting the file alone.
LEMMA ExtendsStep ==
  ASSUME file \in Files, SettingsOK, NEW R, Bound(R), Includes(R),
         NEW own, \A r \in DOMAIN file : r \notin own,
         NEW a, Leveled(file, a), NEW b, Leveled(R, b), Extends(a, b)
  PROVE  Extends(Visit(file, {}, a), Visit(R, own, b))
<1> SUFFICES ASSUME NEW r \in DOMAIN file, Visit(file, {}, a)[r] # Refused
             PROVE  Visit(R, own, b)[r] = Visit(file, {}, a)[r]
  BY DEF Extends
<1>1. r \in DOMAIN R /\ R[r] = file[r] BY DEF Includes
<1>2. Bound(file) BY FileIsBound
<1>3. CASE file[r] = Off BY <1>1, <1>2, <1>3, Visited
<1>4. CASE file[r] = Unclear BY <1>2, <1>4, Visited
<1>5. CASE file[r].by = "model" BY <1>1, <1>2, <1>5, Visited
<1>6. CASE file[r].by = "inherit"
  <2>1. PICK q : q = file[r].name OBVIOUS
  <2>2. PICK spare \in Spares : spare = file[r].fallback BY <1>2, BoundKinds
  <2>3. /\ q \in DOMAIN file /\ a[q] \in Profiles
        /\ Apt(r, Inherited(r, a[q], spare, {}))
        /\ Visit(file, {}, a)[r] = Inherited(r, a[q], spare, {})
    BY <1>2, <1>6, <2>1, <2>2, Visited
  <2>4. b[q] = a[q] /\ q \in DOMAIN R BY <2>3, NoProfile DEF Extends, Includes
  <2>5. Inherited(r, a[q], spare, own) = Inherited(r, a[q], spare, {})
    BY <2>2, <2>3, InheritedInTime
  <2> QED BY <1>1, <1>6, <2>1, <2>2, <2>3, <2>4, <2>5, Visited
<1> QED BY <1>2, <1>3, <1>4, <1>5, <1>6, BoundKinds

\* The merged configuration gives the file's roles what the file gives them.
LEMMA LevelsExtend ==
  ASSUME file \in Files, SettingsOK, NEW R, Bound(R), Includes(R),
         NEW own, \A r \in DOMAIN file : r \notin own
  PROVE  /\ Extends(Level5(file, {}), Level5(R, own))
         /\ Extends(Level6(file, {}), Level6(R, own))
         /\ Extends(Level7(file, {}), Level7(R, own))
<1>0. Extends(Level0(file), Level0(R)) BY DEF Extends, Level0
<1>1. Extends(Level1(file, {}), Level1(R, own))
  BY <1>0, FileIsBound, LevelTypes, ExtendsStep DEF Level1
<1>2. Extends(Level2(file, {}), Level2(R, own))
  BY <1>1, FileIsBound, LevelTypes, ExtendsStep DEF Level2
<1>3. Extends(Level3(file, {}), Level3(R, own))
  BY <1>2, FileIsBound, LevelTypes, ExtendsStep DEF Level3
<1>4. Extends(Level4(file, {}), Level4(R, own))
  BY <1>3, FileIsBound, LevelTypes, ExtendsStep DEF Level4
<1>5. Extends(Level5(file, {}), Level5(R, own))
  BY <1>4, FileIsBound, LevelTypes, ExtendsStep DEF Level5
<1>6. Extends(Level6(file, {}), Level6(R, own))
  BY <1>5, FileIsBound, LevelTypes, ExtendsStep DEF Level6
<1>7. Extends(Level7(file, {}), Level7(R, own))
  BY <1>6, FileIsBound, LevelTypes, ExtendsStep DEF Level7
<1> QED BY <1>5, <1>6, <1>7

-----------------------------------------------------------------------------
\* Few roles are resolved in few steps.

\* the roles that are resolved
Resolved(models) == {r \in DOMAIN models : models[r] # Refused}

\* The resolved roles can be counted.
LEMMA ResolvedIsFinite ==
  ASSUME NEW R, Bound(R), NEW a, Leveled(R, a)
  PROVE  /\ IsFiniteSet(DOMAIN R) /\ IsFiniteSet(Resolved(a))
         /\ Cardinality(DOMAIN R) \in Nat /\ Cardinality(Resolved(a)) \in Nat
         /\ Resolved(a) \subseteq DOMAIN R
<1>1. IsFiniteSet(Roles)
  <2>1. IsFiniteSet({"main", "structured", "small", "structured_fast"})
    <3>1. IsFiniteSet({"main"}) BY FS_Singleton
    <3>2. IsFiniteSet({"main"} \cup {"structured"}) BY <3>1, FS_AddElement
    <3>3. IsFiniteSet(({"main"} \cup {"structured"}) \cup {"small"}) BY <3>2, FS_AddElement
    <3>4. IsFiniteSet((({"main"} \cup {"structured"}) \cup {"small"}) \cup {"structured_fast"})
      BY <3>3, FS_AddElement
    <3>5. (({"main"} \cup {"structured"}) \cup {"small"}) \cup {"structured_fast"}
            = {"main", "structured", "small", "structured_fast"}
      OBVIOUS
    <3> QED BY <3>4, <3>5
  <2>2. IsFiniteSet({"main", "structured", "small", "structured_fast"} \cup {"memory"})
    BY <2>1, FS_AddElement
  <2>3. IsFiniteSet(({"main", "structured", "small", "structured_fast"} \cup {"memory"})
                      \cup {"compression"})
    BY <2>2, FS_AddElement
  <2>4. IsFiniteSet((({"main", "structured", "small", "structured_fast"} \cup {"memory"})
                      \cup {"compression"}) \cup {"video_vision"})
    BY <2>3, FS_AddElement
  <2>5. (({"main", "structured", "small", "structured_fast"} \cup {"memory"})
           \cup {"compression"}) \cup {"video_vision"} = Roles
    BY DEF Roles, Needed, Optional
  <2> QED BY <2>4, <2>5
<1>2. DOMAIN R \subseteq Roles /\ DOMAIN a = DOMAIN R BY DEF Bound, Leveled
<1>3. Resolved(a) \subseteq DOMAIN R BY <1>2 DEF Resolved
<1>4. IsFiniteSet(DOMAIN R) BY <1>1, <1>2, FS_Subset
<1>5. IsFiniteSet(Resolved(a)) BY <1>3, <1>4, FS_Subset
<1> QED BY <1>3, <1>4, <1>5, FS_CardinalityType

\* A level resolves one more role, or it is the fixpoint.
LEMMA GrowsOrRests ==
  ASSUME SettingsOK, NEW R, Bound(R), NEW own, NEW a, Leveled(R, a),
         Below(a, Visit(R, own, a))
  PROVE  \/ Visit(R, own, a) = a
         \/ Cardinality(Resolved(Visit(R, own, a))) >= Cardinality(Resolved(a)) + 1
<1>1. PICK b : b = Visit(R, own, a) OBVIOUS
<1>2. Leveled(R, b) BY <1>1, VisitType
<1>3. DOMAIN a = DOMAIN R /\ DOMAIN b = DOMAIN R BY <1>2 DEF Leveled
<1>4. Resolved(a) \subseteq Resolved(b)
  BY <1>1, <1>3 DEF Resolved, Below
<1>5. IsFiniteSet(Resolved(b)) /\ Cardinality(Resolved(b)) \in Nat /\ Cardinality(Resolved(a)) \in Nat
  BY <1>2, ResolvedIsFinite
<1>6. CASE Resolved(a) = Resolved(b)
  <2>1. \A r \in DOMAIN R : b[r] = a[r]
    BY <1>1, <1>3, <1>6 DEF Resolved, Below
  <2>2. a = [r \in DOMAIN R |-> a[r]] /\ b = [r \in DOMAIN R |-> b[r]]
    BY <1>2 DEF Leveled
  <2>3. b = a BY <2>1, <2>2
  <2> QED BY <1>1, <2>3
<1>7. CASE Resolved(a) # Resolved(b)
  <2>1. Cardinality(Resolved(a)) <= Cardinality(Resolved(b))
        /\ Cardinality(Resolved(a)) # Cardinality(Resolved(b))
    BY <1>4, <1>5, <1>7, FS_Subset
  <2> QED BY <1>1, <1>5, <2>1
<1> QED BY <1>6, <1>7

\* Each level before the fixpoint resolves a role, so few roles are resolved early.
LEMMA FewAreSoonResolved ==
  ASSUME SettingsOK, NEW R, Bound(R), NEW own, Resolves(Resolve(R, own))
  PROVE  /\ Cardinality(DOMAIN R) <= 5 => \A r \in DOMAIN R : Level5(R, own)[r] # Refused
         /\ Cardinality(DOMAIN R) <= 6 => \A r \in DOMAIN R : Level6(R, own)[r] # Refused
<1>0. PICK a0 : a0 = Level0(R) OBVIOUS
<1>1. PICK a1 : a1 = Level1(R, own) OBVIOUS
<1>2. PICK a2 : a2 = Level2(R, own) OBVIOUS
<1>3. PICK a3 : a3 = Level3(R, own) OBVIOUS
<1>4. PICK a4 : a4 = Level4(R, own) OBVIOUS
<1>5. PICK a5 : a5 = Level5(R, own) OBVIOUS
<1>6. PICK a6 : a6 = Level6(R, own) OBVIOUS
<1>7. PICK a7 : a7 = Level7(R, own) OBVIOUS
<1>8. /\ a1 = Visit(R, own, a0) /\ a2 = Visit(R, own, a1) /\ a3 = Visit(R, own, a2)
      /\ a4 = Visit(R, own, a3) /\ a5 = Visit(R, own, a4) /\ a6 = Visit(R, own, a5)
      /\ a7 = Visit(R, own, a6)
  BY <1>0, <1>1, <1>2, <1>3, <1>4, <1>5, <1>6, <1>7
  DEF Level1, Level2, Level3, Level4, Level5, Level6, Level7
<1>9. /\ Leveled(R, a0) /\ Leveled(R, a1) /\ Leveled(R, a2) /\ Leveled(R, a3) /\ Leveled(R, a4)
      /\ Leveled(R, a5) /\ Leveled(R, a6)
  BY <1>0, <1>1, <1>2, <1>3, <1>4, <1>5, <1>6, LevelTypes
<1>10. /\ Below(a0, a1) /\ Below(a1, a2) /\ Below(a2, a3) /\ Below(a3, a4) /\ Below(a4, a5)
       /\ Below(a5, a6)
  BY <1>0, <1>1, <1>2, <1>3, <1>4, <1>5, <1>6, LevelsGrow
<1>11. \A r \in DOMAIN R : a7[r] # Refused
  BY <1>7, SevenLevels, ResolvedIsStable
<1>12. PICK c : c = [n \in 0..6 |->
                       Cardinality(Resolved(CASE n = 0 -> a0 [] n = 1 -> a1 [] n = 2 -> a2
                                              [] n = 3 -> a3 [] n = 4 -> a4 [] n = 5 -> a5
                                              [] OTHER -> a6))]
  OBVIOUS
<1>13. /\ c[0] = Cardinality(Resolved(a0)) /\ c[1] = Cardinality(Resolved(a1))
       /\ c[2] = Cardinality(Resolved(a2)) /\ c[3] = Cardinality(Resolved(a3))
       /\ c[4] = Cardinality(Resolved(a4)) /\ c[5] = Cardinality(Resolved(a5))
       /\ c[6] = Cardinality(Resolved(a6))
  BY <1>12
<1>14. /\ c[0] \in Nat /\ c[1] \in Nat /\ c[2] \in Nat /\ c[3] \in Nat /\ c[4] \in Nat
       /\ c[5] \in Nat /\ c[6] \in Nat
  BY <1>9, <1>13, ResolvedIsFinite
<1>15. /\ a1 = a0 \/ c[1] >= c[0] + 1
       /\ a2 = a1 \/ c[2] >= c[1] + 1
       /\ a3 = a2 \/ c[3] >= c[2] + 1
       /\ a4 = a3 \/ c[4] >= c[3] + 1
       /\ a5 = a4 \/ c[5] >= c[4] + 1
       /\ a6 = a5 \/ c[6] >= c[5] + 1
  BY <1>8, <1>9, <1>10, <1>13, GrowsOrRests
<1>16. a5 = a7 \/ c[5] >= 5
  <2>1. CASE a1 = a0 BY <1>8, <2>1
  <2>2. CASE a2 = a1 BY <1>8, <2>2
  <2>3. CASE a3 = a2 BY <1>8, <2>3
  <2>4. CASE a4 = a3 BY <1>8, <2>4
  <2>5. CASE a5 = a4 BY <1>8, <2>5
  <2>6. CASE /\ c[1] >= c[0] + 1 /\ c[2] >= c[1] + 1 /\ c[3] >= c[2] + 1 /\ c[4] >= c[3] + 1
             /\ c[5] >= c[4] + 1
    BY <1>14, <2>6
  <2> QED BY <1>15, <2>1, <2>2, <2>3, <2>4, <2>5, <2>6
<1>17. a6 = a7 \/ c[6] >= 6
  <2>1. CASE a6 = a5 BY <1>8, <2>1
  <2>2. CASE a5 = a7 /\ a6 # a5
    <3>1. CASE a1 = a0 BY <1>8, <3>1
    <3>2. CASE a2 = a1 BY <1>8, <3>2
    <3>3. CASE a3 = a2 BY <1>8, <3>3
    <3>4. CASE a4 = a3 BY <1>8, <3>4
    <3>5. CASE a5 = a4 BY <1>8, <3>5
    <3>6. CASE /\ c[1] >= c[0] + 1 /\ c[2] >= c[1] + 1 /\ c[3] >= c[2] + 1 /\ c[4] >= c[3] + 1
               /\ c[5] >= c[4] + 1 /\ c[6] >= c[5] + 1
      BY <1>14, <3>6
    <3> QED BY <1>15, <2>2, <3>1, <3>2, <3>3, <3>4, <3>5, <3>6
  <2>3. CASE c[5] >= 5 /\ c[6] >= c[5] + 1 BY <1>14, <2>3
  <2> QED BY <1>15, <1>16, <2>1, <2>2, <2>3
<1>18. ASSUME NEW a, Leveled(R, a), NEW k \in {5, 6}, Cardinality(Resolved(a)) >= k,
              Cardinality(DOMAIN R) <= k, NEW r \in DOMAIN R
       PROVE  a[r] # Refused
  <2>1. /\ IsFiniteSet(DOMAIN R) /\ Resolved(a) \subseteq DOMAIN R
        /\ Cardinality(DOMAIN R) \in Nat /\ Cardinality(Resolved(a)) \in Nat
    BY <1>18, ResolvedIsFinite
  <2>2. Cardinality(Resolved(a)) <= Cardinality(DOMAIN R) BY <2>1, FS_Subset
  <2>3. Cardinality(Resolved(a)) = Cardinality(DOMAIN R) BY <1>18, <2>1, <2>2
  <2>4. Resolved(a) = DOMAIN R BY <2>1, <2>3, FS_Subset
  <2> QED BY <1>18, <2>4 DEF Resolved
<1>19. ASSUME Cardinality(DOMAIN R) <= 5 PROVE \A r \in DOMAIN R : a5[r] # Refused
  BY <1>9, <1>11, <1>13, <1>16, <1>18, <1>19
<1>20. ASSUME Cardinality(DOMAIN R) <= 6 PROVE \A r \in DOMAIN R : a6[r] # Refused
  BY <1>9, <1>11, <1>13, <1>17, <1>18, <1>20
<1> QED BY <1>5, <1>6, <1>19, <1>20

\* How many roles a configuration can have that lacks one, or two.
LEMMA FewerRoles ==
  ASSUME NEW S \in SUBSET Roles, NEW x \in Roles \ S
  PROVE  Cardinality(S) <= 6 /\ \A y \in Roles \ S : y # x => Cardinality(S) <= 5
<1>1. IsFiniteSet(Roles) /\ Cardinality(Roles) = 7
  <2>1. IsFiniteSet({"main"}) /\ Cardinality({"main"}) = 1 BY FS_Singleton
  <2>2. PICK s : s = {"main"} \cup {"structured"} OBVIOUS
  <2>3. IsFiniteSet(s) /\ Cardinality(s) = 2 BY <2>1, <2>2, FS_AddElement
  <2>4. PICK t : t = s \cup {"small"} OBVIOUS
  <2>5. IsFiniteSet(t) /\ Cardinality(t) = 3 BY <2>2, <2>3, <2>4, FS_AddElement
  <2>6. PICK u : u = t \cup {"structured_fast"} OBVIOUS
  <2>7. IsFiniteSet(u) /\ Cardinality(u) = 4
    <3>1. "structured_fast" \notin t BY <2>2, <2>4
    <3> QED BY <2>5, <2>6, <3>1, FS_AddElement
  <2>8. PICK v : v = u \cup {"memory"} OBVIOUS
  <2>9. IsFiniteSet(v) /\ Cardinality(v) = 5
    <3>1. "memory" \notin u BY <2>2, <2>4, <2>6
    <3> QED BY <2>7, <2>8, <3>1, FS_AddElement
  <2>10. PICK w : w = v \cup {"compression"} OBVIOUS
  <2>11. IsFiniteSet(w) /\ Cardinality(w) = 6
    <3>1. "compression" \notin v BY <2>2, <2>4, <2>6, <2>8
    <3> QED BY <2>9, <2>10, <3>1, FS_AddElement
  <2>12. PICK z : z = w \cup {"video_vision"} OBVIOUS
  <2>13. IsFiniteSet(z) /\ Cardinality(z) = 7
    <3>1. "video_vision" \notin w BY <2>2, <2>4, <2>6, <2>8, <2>10
    <3> QED BY <2>11, <2>12, <3>1, FS_AddElement
  <2>14. z = Roles BY <2>2, <2>4, <2>6, <2>8, <2>10, <2>12 DEF Roles, Needed, Optional
  <2> QED BY <2>13, <2>14
<1>2. PICK T : T = Roles \ {x} OBVIOUS
<1>3. IsFiniteSet(T) /\ Cardinality(T) = 6 BY <1>1, <1>2, FS_RemoveElement
<1>4. S \subseteq T BY <1>2
<1>5. Cardinality(S) <= 6 BY <1>3, <1>4, FS_Subset
<1>6. ASSUME NEW y \in Roles \ S, y # x PROVE Cardinality(S) <= 5
  <2>1. PICK U : U = T \ {y} OBVIOUS
  <2>2. IsFiniteSet(U) /\ Cardinality(U) = 5 BY <1>2, <1>3, <1>6, <2>1, FS_RemoveElement
  <2>3. S \subseteq U BY <1>4, <1>6, <2>1
  <2> QED BY <2>2, <2>3, FS_Subset
<1> QED BY <1>5, <1>6

\* What the first level resolved is never changed.
LEMMA FirstIsKept ==
  ASSUME SettingsOK, NEW R, Bound(R), NEW own, NEW r \in DOMAIN R, Level1(R, own)[r] # Refused
  PROVE  /\ Level5(R, own)[r] = Level1(R, own)[r] /\ Level6(R, own)[r] = Level1(R, own)[r]
         /\ Level7(R, own)[r] = Level1(R, own)[r]
<1>1. /\ DOMAIN Level1(R, own) = DOMAIN R /\ DOMAIN Level2(R, own) = DOMAIN R
      /\ DOMAIN Level3(R, own) = DOMAIN R /\ DOMAIN Level4(R, own) = DOMAIN R
      /\ DOMAIN Level5(R, own) = DOMAIN R /\ DOMAIN Level6(R, own) = DOMAIN R
  BY LevelTypes DEF Leveled
<1>2. Level2(R, own)[r] = Level1(R, own)[r] BY <1>1, LevelsGrow DEF Below
<1>3. Level3(R, own)[r] = Level1(R, own)[r] BY <1>1, <1>2, LevelsGrow DEF Below
<1>4. Level4(R, own)[r] = Level1(R, own)[r] BY <1>1, <1>3, LevelsGrow DEF Below
<1>5. Level5(R, own)[r] = Level1(R, own)[r] BY <1>1, <1>4, LevelsGrow DEF Below
<1>6. Level6(R, own)[r] = Level1(R, own)[r] BY <1>1, <1>5, LevelsGrow DEF Below
<1>7. Level7(R, own)[r] = Level1(R, own)[r] BY <1>1, <1>6, LevelsGrow DEF Below
<1> QED BY <1>5, <1>6, <1>7

\* A model any role that is not the file's could borrow.
Good(models, c) ==
  models[c] \in Profiles /\ \A role \in Roles \ DOMAIN file : Apt(role, models[c])

\* No role would borrow a model of the file, or a fallback, that cannot do its work.
FileIsAble ==
  \A role \in Roles \ DOMAIN file, r \in DOMAIN file :
    \A name \in Suggested(file[r]) : Required[role] \subseteq FileModel(name).able

\* The environment's models can do the work of every role, and are its own.
LEMMA EnvModelIsGood ==
  ASSUME SettingsOK, NEW c \in Roles
  PROVE  /\ ModelOf(c) \in Profiles
         /\ ModelOf(c).from = <<"env", c>>
         /\ Given(ByModel(c, {})) = ModelOf(c)
         /\ \A role \in Roles : Apt(role, ModelOf(c))
<1>1. ModelOf(c) = EnvModel(c) BY RolesAssumption DEF ModelOf
<1>2. ModelOf(c) \in Profiles BY ModelOfType DEF Names
<1>3. EnvModel(c).able = Abilities /\ EnvModel(c).fallback = {} BY DEF EnvModel
<1>4. ASSUME NEW role \in Roles PROVE Required[role] \subseteq Abilities
  BY DEF Required, Abilities, Roles, Needed, Optional
<1>5. EnvModel(c).from = <<"env", c>> BY DEF EnvModel
<1>6. Given(ByModel(c, {})) = ModelOf(c)
  <2>1. c \in Names /\ {} \in Spares BY DEF Names, Spares
  <2>2. ByModel(c, {}).name = c /\ ByModel(c, {}).fallback = {} BY DEF ByModel
  <2> QED BY <2>1, <2>2, GivenType
<1> QED BY <1>1, <1>2, <1>3, <1>4, <1>5, <1>6 DEF Apt

\* What is known of the merged configuration and of the roles it adds to the file's.
LEMMA Configuration ==
  ASSUME file \in Files, settings \in Settings, NEW C, C = Configured(file),
         NEW M, M = Merged(file)
  PROVE  /\ SettingsOK /\ Bound(file) /\ Bound(C) /\ Bound(M) /\ Includes(M) /\ Includes(C)
         /\ \A r \in DOMAIN C \ DOMAIN file :
              C[r] = IF Disabled(r) THEN Off ELSE ByModel(r, {})
         /\ \A r \in DOMAIN file : r \notin Roles \ DOMAIN file
<1>1. SettingsOK /\ Bound(file) BY SettingsAreOK, FileIsBound
<1>2. Bound(C) /\ Bound(M) BY <1>1, ConfiguredIs, MergedIs
<1>3. Includes(C)
  <2>1. \A r \in DOMAIN file : r \in DOMAIN C /\ C[r] = file[r] BY ZenonT(30), <1>1, ConfiguredIs
  <2> QED BY <2>1 DEF Includes
<1>4. Includes(M) BY <1>1, <1>3, MergedIs DEF Includes
<1>5. \A r \in DOMAIN C \ DOMAIN file : C[r] = IF Disabled(r) THEN Off ELSE ByModel(r, {})
  BY DEF Configured
<1>6. \A r \in DOMAIN file : r \notin Roles \ DOMAIN file OBVIOUS
<1> QED BY <1>1, <1>2, <1>3, <1>4, <1>5, <1>6

\* the first step resolves what the environment says
LEMMA EnvIsResolved ==
  ASSUME file \in Files, settings \in Settings, NEW C, C = Configured(file),
         NEW M, M = Merged(file), NEW own, NEW r \in DOMAIN C \ DOMAIN file
  PROVE  /\ r \in DOMAIN M
         /\ Level1(M, own)[r] # Refused
         /\ C[r] # Off => Level1(M, own)[r] = ModelOf(r)
<1>1. /\ SettingsOK /\ Bound(file) /\ Bound(C) /\ Bound(M)
      /\ C[r] = IF Disabled(r) THEN Off ELSE ByModel(r, {})
  BY Configuration
<1>2. r \in DOMAIN M /\ M[r] = C[r] BY <1>1, MergedIs
<1>3. r \in Roles BY <1>1 DEF Bound
<1>4. Leveled(M, Level0(M)) BY <1>1, LevelTypes
<1>5. CASE Disabled(r)
  <2>1. M[r] = Off /\ r \in Optional BY <1>1, <1>2, <1>5 DEF Disabled, Optional
  <2>2. Level1(M, own)[r] = Off BY <1>1, <1>2, <1>4, <2>1, Visited DEF Level1
  <2> QED BY <1>1, <1>2, <1>5, <2>2, NoProfile
<1>6. CASE ~Disabled(r)
  <2>1. M[r] = ByModel(r, {}) /\ M[r].by = "model" BY <1>1, <1>2, <1>6 DEF ByModel
  <2>2. ModelOf(r) \in Profiles /\ Apt(r, ModelOf(r)) /\ Given(M[r]) = ModelOf(r)
    BY <1>1, <1>3, <2>1, EnvModelIsGood
  <2>3. Level1(M, own)[r] = ModelOf(r) BY <1>1, <1>2, <1>4, <2>1, <2>2, Visited DEF Level1
  <2> QED BY <1>2, <2>2, <2>3, NoProfile
<1> QED BY <1>5, <1>6

\* Whoever a role of no binding may borrow from has a model that can do its work.
LEMMA LendersAreGood ==
  ASSUME file \in Files, settings \in Settings, FileIsAble, NEW C, C = Configured(file),
         NEW M, M = Merged(file), NEW own,
         NEW a, Obeyed(a), \A r \in DOMAIN file : a[r] # Refused,
         NEW b, Extends(a, b),
         \A r \in DOMAIN M : Level1(M, own)[r] # Refused => b[r] = Level1(M, own)[r],
         NEW c \in DOMAIN C, C[c] # Off
  PROVE  Good(b, c)
<1>1. SettingsOK /\ Bound(C) /\ Includes(C) BY Configuration
<1>2. c \in Roles BY <1>1 DEF Bound
<1>3. CASE c \in DOMAIN file
  <2>1. b[c] = a[c] /\ a[c] # Refused BY <1>3 DEF Extends
  <2>2. file[c] # Off BY <1>1, <1>3 DEF Includes
  <2>3. /\ Apt(c, a[c])
        /\ \E r, q \in Chain(c) :
             /\ r \in DOMAIN file /\ q \in DOMAIN file /\ file[r].by = "model"
             /\ a[c] = With(FileModel(file[r].name), file[q].fallback)
    BY <1>3, <2>1, <2>2 DEF Obeyed
  <2>4. PICK r \in DOMAIN file, q \in DOMAIN file :
          file[r].by = "model" /\ a[c] = With(FileModel(file[r].name), file[q].fallback)
    BY <2>3
  <2>5. FileModel(file[r].name) \in Profiles /\ file[q].fallback \in Spares
    BY <1>1, <2>4, FileModelType, FileIsBound, BoundKinds
  <2>6. /\ a[c] \in Profiles /\ a[c].able = FileModel(file[r].name).able
        /\ a[c].fallback = file[q].fallback
    BY <2>4, <2>5, WithType
  <2>7. a[c].fallback \subseteq FileModels BY <2>3 DEF Apt
  <2>8. file[r].name \in Suggested(file[r]) /\ a[c].fallback \subseteq Suggested(file[q])
    BY <2>4, <2>6, <2>7 DEF Suggested
  <2>9. ASSUME NEW role \in Roles \ DOMAIN file PROVE Apt(role, a[c])
    <3>1. Required[role] \subseteq a[c].able BY <2>6, <2>8 DEF FileIsAble
    <3>2. ASSUME NEW name \in a[c].fallback
          PROVE  name \in FileModels /\ Required[role] \subseteq FileAble[name]
      <4>1. Required[role] \subseteq FileModel(name).able BY <2>8 DEF FileIsAble
      <4> QED BY <2>7, <4>1 DEF FileModel
    <3> QED BY <3>1, <3>2 DEF Apt
  <2> QED BY <2>1, <2>6, <2>9 DEF Good
<1>4. CASE c \notin DOMAIN file
  <2>1. c \in DOMAIN M /\ Level1(M, own)[c] = ModelOf(c) /\ Level1(M, own)[c] # Refused
    BY <1>4, EnvIsResolved
  <2>2. b[c] = ModelOf(c) BY <2>1
  <2> QED BY <1>1, <1>2, <2>2, EnvModelIsGood DEF Good
<1> QED BY <1>3, <1>4

\* A file that resolves by itself and has no unable model for others resolves with the
\* environment.
LEMMA MergedResolves ==
  ASSUME file \in Files, settings \in Settings, FileIsAble, Resolves(Resolve(file, {}))
  PROVE  Resolves(Load)
<1>1. PICK C : C = Configured(file) OBVIOUS
<1>2. PICK M : M = Merged(file) OBVIOUS
<1>3. PICK own : own = Roles \ DOMAIN file OBVIOUS
<1>4. /\ SettingsOK /\ Bound(file) /\ Bound(C) /\ Bound(M) /\ Includes(M) /\ Includes(C)
      /\ \A r \in DOMAIN file : r \notin own
  BY <1>1, <1>2, <1>3, Configuration
<1>5. FileIsClosed BY <1>4, FileInherits
<1>6. PICK b5 : b5 = Level5(M, own) OBVIOUS
<1>7. PICK b6 : b6 = Level6(M, own) OBVIOUS
<1>8. PICK b7 : b7 = Level7(M, own) OBVIOUS
<1>9. /\ b6 = Visit(M, own, b5) /\ b7 = Visit(M, own, b6)
      /\ Leveled(M, b5) /\ Leveled(M, b6) /\ Leveled(M, b7)
  BY <1>4, <1>6, <1>7, <1>8, LevelTypes DEF Level6, Level7
<1>10. \A r \in DOMAIN M : Level1(M, own)[r] # Refused =>
         b5[r] = Level1(M, own)[r] /\ b6[r] = Level1(M, own)[r] /\ b7[r] = Level1(M, own)[r]
  BY <1>4, <1>6, <1>7, <1>8, FirstIsKept
<1>11. /\ Extends(Level5(file, {}), b5) /\ Extends(Level6(file, {}), b6)
       /\ Extends(Level7(file, {}), b7)
  BY <1>4, <1>6, <1>7, <1>8, LevelsExtend
<1>12. Obeyed(Level5(file, {})) /\ Obeyed(Level6(file, {}))
  <2>1. Includes(file) BY DEF Includes
  <2> QED BY <1>4, <1>5, <2>1, LevelsObey
<1>13. ASSUME Cardinality(DOMAIN file) <= 6, NEW c \in DOMAIN C, C[c] # Off
       PROVE  Good(b6, c)
  <2>1. \A r \in DOMAIN file : Level6(file, {})[r] # Refused
    BY <1>4, <1>13, FewAreSoonResolved
  <2> QED BY <1>1, <1>2, <1>10, <1>11, <1>12, <1>13, <2>1, LendersAreGood
<1>14. ASSUME Cardinality(DOMAIN file) <= 5, NEW c \in DOMAIN C, C[c] # Off
       PROVE  Good(b5, c)
  <2>1. \A r \in DOMAIN file : Level5(file, {})[r] # Refused
    BY <1>4, <1>14, FewAreSoonResolved
  <2> QED BY <1>1, <1>2, <1>10, <1>11, <1>12, <1>14, <2>1, LendersAreGood
<1>15. DOMAIN file \subseteq DOMAIN C /\ DOMAIN file \in SUBSET Roles
  BY <1>4 DEF Includes, Bound
\* a borrower gets the model of its lender
<1>16. ASSUME NEW r \in Roles \ DOMAIN file, r \in DOMAIN M, NEW q \in DOMAIN M,
              M[r] = ByRole(q, {}), NEW below, Leveled(M, below), Good(below, q)
       PROVE  Visit(M, own, below)[r] \in Profiles /\ Good(Visit(M, own, below), r)
  <2>1. below[q] \in Profiles /\ \A role \in Roles \ DOMAIN file : Apt(role, below[q])
    BY <1>16 DEF Good
  <2>2. M[r].by = "inherit" /\ M[r].name = q /\ M[r].fallback = {} BY <1>16 DEF ByRole
  <2>3. PICK p : p = Inherited(r, below[q], {}, own) OBVIOUS
  <2>4. p \in Profiles /\ p.able = below[q].able /\ p.fallback = below[q].fallback
    BY <1>4, <2>1, <2>3, InheritedWhole
  <2>5. \A role \in Roles \ DOMAIN file : Apt(role, p) BY <2>1, <2>4 DEF Apt
  <2>6. Visit(M, own, below)[r] = p BY <1>4, <1>16, <2>1, <2>2, <2>3, <2>5, Visited
  <2> QED BY <2>4, <2>5, <2>6 DEF Good
<1>17. ASSUME NEW r \in (DOMAIN M) \ (DOMAIN C), NEW q \in DOMAIN C, M[r] = ByRole(q, {}), C[q] # Off
       PROVE  /\ b7[r] \in Profiles
              /\ Cardinality(DOMAIN file) <= 5 => Good(b6, r)
  <2>1. r \in Roles \ DOMAIN file BY <1>4, <1>15 DEF Bound
  <2>2. q \in DOMAIN M BY <1>1, <1>2, <1>4, MergedIs
  <2>3. Cardinality(DOMAIN file) <= 6 BY <1>15, <2>1, FewerRoles
  <2>4. Good(b6, q) BY <1>13, <1>17, <2>3
  <2>5. b7[r] \in Profiles BY <1>9, <1>16, <1>17, <2>1, <2>2, <2>4
  <2>6. ASSUME Cardinality(DOMAIN file) <= 5 PROVE Good(b6, r)
    <3>1. Good(b5, q) BY <1>14, <1>17, <2>6
    <3> QED BY <1>9, <1>16, <1>17, <2>1, <2>2, <3>1
  <2> QED BY <2>5, <2>6
\* whom a role borrows from
<1>18. ASSUME NEW r \in (DOMAIN M) \ (DOMAIN C)
       PROVE  /\ r \in Borrowers
              /\ \E q \in Needed :
                   /\ q # r /\ M[r] = ByRole(q, {})
                   /\ IF r = "compression" THEN q \in DOMAIN M /\ M[q] # Off
                      ELSE q \in DOMAIN C /\ C[q] # Off
  <2>1. PICK from : from = IF r = "compression" THEN M ELSE C OBVIOUS
  <2>2. PICK P : P = Lenders(r, from) OBVIOUS
  <2>3. r \in Borrowers /\ P # {} /\ M[r] = ByRole(FirstOf(r, P), {})
    BY <1>1, <1>2, <1>4, <2>1, <2>2, MergedIs
  <2>4. P \subseteq DOMAIN Inherit[r] BY <2>2 DEF Lenders
  <2>5. PICK n \in P : FirstOf(r, P) = Inherit[r][n] BY <2>3, <2>4, FirstIsFirst
  <2>6. Inherit[r][n] \in Needed /\ Inherit[r][n] # r BY <2>3, <2>4, <2>5, CandidatesAreRoles
  <2>7. Inherit[r][n] \in DOMAIN from /\ from[Inherit[r][n]] # Off BY <2>2, <2>5 DEF Lenders
  <2> QED BY <2>1, <2>3, <2>5, <2>6, <2>7
<1>19. ASSUME NEW r \in DOMAIN M PROVE b7[r] # Refused
  <2>1. CASE r \in DOMAIN file
    <3>1. Level7(file, {})[r] # Refused BY <1>4, <2>1, SevenLevels, ResolvedIsStable
    <3> QED BY <1>11, <2>1, <3>1 DEF Extends
  <2>2. CASE r \in (DOMAIN C) \ (DOMAIN file)
    <3>1. Level1(M, own)[r] # Refused BY <1>1, <1>2, <2>2, EnvIsResolved
    <3> QED BY <1>10, <3>1
  <2>3. CASE r \notin DOMAIN C
    <3>1. PICK q \in Needed :
            /\ q # r /\ M[r] = ByRole(q, {})
            /\ IF r = "compression" THEN q \in DOMAIN M /\ M[q] # Off
               ELSE q \in DOMAIN C /\ C[q] # Off
      BY <1>18, <2>3
    <3>2. CASE q \in DOMAIN C
      <4>1. C[q] # Off BY <1>1, <1>2, <1>4, <3>1, <3>2, MergedIs
      <4>2. b7[r] \in Profiles BY <1>17, <2>3, <3>1, <3>2, <4>1
      <4> QED BY <4>2, NoProfile
    <3>3. CASE q \notin DOMAIN C
      <4>1. r = "compression" /\ q \in DOMAIN M BY <3>1, <3>3
      <4>2. q # "compression" BY <3>1, <4>1
      <4>3. PICK p \in Needed : M[q] = ByRole(p, {}) /\ p \in DOMAIN C /\ C[p] # Off
        BY <1>18, <3>3, <4>1, <4>2
      <4>4. r \in Roles \ DOMAIN file /\ q \in Roles \ DOMAIN file
        BY <1>4, <1>15, <2>3, <3>3, <4>1 DEF Bound
      <4>5. Cardinality(DOMAIN file) <= 5 BY <1>15, <3>1, <4>4, FewerRoles
      <4>6. Good(b6, q) BY <1>17, <3>3, <4>1, <4>3, <4>5
      <4>7. b7[r] \in Profiles BY <1>9, <1>16, <3>1, <4>1, <4>4, <4>6
      <4> QED BY <4>7, NoProfile
    <3> QED BY <3>2, <3>3
  <2> QED BY <2>1, <2>2, <2>3
<1>20. Load = b7 BY <1>2, <1>3, <1>8, SevenLevels DEF Load
<1>21. DOMAIN b7 = DOMAIN M BY <1>9 DEF Leveled
<1> QED BY <1>19, <1>20, <1>21 DEF Resolves

\* Every needed role is bound when the file names them all, or the variables name the three
\* that had them from the start.
LEMMA NeededAreBound ==
  ASSUME file \in Files, settings \in Settings, Resolves(Resolve(file, {})),
         \/ Needed \subseteq DOMAIN file
         \/ \A role \in {"main", "structured", "small"} : InVariables(role)
  PROVE  Needed \subseteq DOMAIN Merged(file)
<1>1. PICK C : C = Configured(file) OBVIOUS
<1>2. PICK M : M = Merged(file) OBVIOUS
<1>3. /\ SettingsOK /\ Bound(file) /\ Bound(C) /\ Bound(M) /\ Includes(M) /\ Includes(C)
      /\ \A r \in DOMAIN C \ DOMAIN file : C[r] = IF Disabled(r) THEN Off ELSE ByModel(r, {})
  BY <1>1, <1>2, Configuration
<1>4. CASE Needed \subseteq DOMAIN file BY <1>2, <1>3, <1>4 DEF Includes
<1>5. CASE \A role \in {"main", "structured", "small"} : InVariables(role)
  <2>1. ASSUME NEW r \in {"main", "structured", "small"} PROVE r \in DOMAIN C
    <3>1. r \in Roles BY DEF Roles, Needed
    <3> QED BY <1>1, <1>5, <3>1 DEF Configured, InVariables
  <2>2. C["small"] # Off
    <3>1. CASE "small" \in DOMAIN file
      <4>1. PICK a : a = Resolve(file, {}) OBVIOUS
      <4>2. Leveled(file, a) /\ a["small"] # Refused
            /\ Visit(file, {}, a)["small"] = a["small"]
        BY <1>3, <3>1, <4>1, ResolvedIsStable
      <4>3. file["small"] # Off BY <1>3, <3>1, <4>2, Visited DEF Optional
      <4> QED BY <1>3, <3>1, <4>3 DEF Includes
    <3>2. CASE "small" \notin DOMAIN file
      <4>1. "small" \in DOMAIN C /\ ~Disabled("small") BY <2>1 DEF Disabled
      <4>2. C["small"] = ByModel("small", {}) BY <1>3, <3>2, <4>1
      <4> QED BY <4>2 DEF ByModel, Off
    <3> QED BY <3>1, <3>2
  <2>3. \A r \in DOMAIN C : r \in DOMAIN M BY <1>1, <1>2, <1>3, MergedIs
  <2>4. "structured_fast" \in DOMAIN M
    <3>1. 1 \in Lenders("structured_fast", C) BY <2>1, <2>2, OwnersAsked DEF Lenders
    <3>2. "structured_fast" \in Borrowers BY DEF Borrowers
    <3> QED BY <1>1, <1>2, <1>3, <3>1, <3>2, MergedIs
  <2>5. "memory" \in DOMAIN M
    <3>1. 3 \in Lenders("memory", C) BY <2>1, <2>2, OwnersAsked DEF Lenders
    <3>2. "memory" \in Borrowers BY DEF Borrowers
    <3> QED BY <1>1, <1>2, <1>3, <3>1, <3>2, MergedIs
  <2> QED BY <1>2, <2>1, <2>3, <2>4, <2>5 DEF Needed
<1> QED BY <1>4, <1>5

\* Without a file every model comes from the environment.
FromEnv(models) ==
  \A r \in DOMAIN models : models[r] \in Profiles => models[r].from[1] = "env"

\* Visiting roles bound to the environment's models finds only such models.
LEMMA EnvStep ==
  ASSUME SettingsOK, NEW R, Bound(R), NEW own, NEW below, Leveled(R, below), FromEnv(below),
         \A r \in DOMAIN R : R[r].by = "model" => R[r].name \in Roles
  PROVE  FromEnv(Visit(R, own, below))
<1>1. DOMAIN Visit(R, own, below) = DOMAIN R BY DEF Visit
<1> SUFFICES ASSUME NEW r \in DOMAIN R, Visit(R, own, below)[r] \in Profiles
             PROVE  Visit(R, own, below)[r].from[1] = "env"
  BY <1>1 DEF FromEnv
<1>2. CASE R[r] = Off BY <1>2, Visited, NoProfile
<1>3. CASE R[r] = Unclear BY <1>3, Visited, NoProfile
<1>4. CASE R[r].by = "model"
  <2>1. Visit(R, own, below)[r] = Given(R[r]) BY <1>4, Visited, NoProfile
  <2>2. ModelOf(R[r].name).from = <<"env", R[r].name>> BY <1>4, EnvModelIsGood
  <2>3. R[r].name \in Names /\ R[r].fallback \in Spares BY <1>4, BoundKinds DEF Names
  <2>4. Given(R[r]).from = ModelOf(R[r].name).from BY <2>3, GivenType
  <2> QED BY <2>1, <2>2, <2>4
<1>5. CASE R[r].by = "inherit"
  <2>1. PICK q : q = R[r].name OBVIOUS
  <2>2. q \in DOMAIN R /\ below[q] \in Profiles
        /\ Visit(R, own, below)[r] = Inherited(r, below[q], R[r].fallback, own)
    BY <1>5, <2>1, Visited, NoProfile
  <2>3. DOMAIN below = DOMAIN R BY DEF Leveled
  <2>4. below[q].from[1] = "env" BY <2>2, <2>3 DEF FromEnv
  <2>5. PICK spare \in Spares : spare = R[r].fallback BY BoundKinds
  <2>6. PICK p \in Profiles : p = below[q] BY <2>2
  <2>7. Inherited(r, p, spare, own).from = p.from BY <2>5, <2>6, InheritedType
  <2> QED BY <2>2, <2>4, <2>5, <2>6, <2>7
<1> QED BY <1>2, <1>3, <1>4, <1>5, BoundKinds

\* Without a file every model is the environment's, whose secret is known.
LEMMA EnvHasItsSecrets ==
  ASSUME file \in Files, settings \in Settings, DOMAIN file = {}
  PROVE  FromEnv(Load)
<1>1. PICK C : C = Configured(file) OBVIOUS
<1>2. PICK M : M = Merged(file) OBVIOUS
<1>3. PICK own : own = Roles \ DOMAIN file OBVIOUS
<1>4. /\ SettingsOK /\ Bound(file) /\ Bound(C) /\ Bound(M)
      /\ \A r \in DOMAIN C \ DOMAIN file : C[r] = IF Disabled(r) THEN Off ELSE ByModel(r, {})
  BY <1>1, <1>2, Configuration
<1>5. ASSUME NEW r \in DOMAIN M, M[r].by = "model" PROVE M[r].name \in Roles
  <2>1. CASE r \in DOMAIN C
    <3>1. M[r] = C[r] BY <1>1, <1>2, <1>4, <2>1, MergedIs
    <3>2. r \in (DOMAIN C) \ DOMAIN file BY <2>1
    <3>3. C[r] = Off \/ C[r] = ByModel(r, {}) BY <1>4, <3>2
    <3>4. r \in Roles BY <1>4 DEF Bound
    <3> QED BY <1>5, <3>1, <3>3, <3>4 DEF Off, ByModel
  <2>2. CASE r \notin DOMAIN C
    <3>1. PICK q : M[r] = ByRole(q, {})
      BY <1>1, <1>2, <1>4, <2>2, MergedIs
    <3> QED BY <1>5, <3>1 DEF ByRole
  <2> QED BY <2>1, <2>2
<1>6. PICK a0 : a0 = Level0(M) OBVIOUS
<1>7. FromEnv(a0) BY <1>6, NoProfile DEF FromEnv, Level0
<1>8. FromEnv(Level1(M, own)) BY <1>4, <1>5, <1>6, <1>7, LevelTypes, EnvStep DEF Level1
<1>9. FromEnv(Level2(M, own)) BY <1>4, <1>5, <1>8, LevelTypes, EnvStep DEF Level2
<1>10. FromEnv(Level3(M, own)) BY <1>4, <1>5, <1>9, LevelTypes, EnvStep DEF Level3
<1>11. FromEnv(Level4(M, own)) BY <1>4, <1>5, <1>10, LevelTypes, EnvStep DEF Level4
<1>12. FromEnv(Level5(M, own)) BY <1>4, <1>5, <1>11, LevelTypes, EnvStep DEF Level5
<1>13. FromEnv(Level6(M, own)) BY <1>4, <1>5, <1>12, LevelTypes, EnvStep DEF Level6
<1>14. FromEnv(Level7(M, own)) BY <1>4, <1>5, <1>13, LevelTypes, EnvStep DEF Level7
<1> QED BY <1>2, <1>3, <1>14, SevenLevels DEF Load

-----------------------------------------------------------------------------
\* What is published.

\* A load that resolves is a fixpoint that follows every binding.
LEMMA LoadIs ==
  ASSUME file \in Files, settings \in Settings, Resolves(Load),
         NEW M, M = Merged(file), NEW own, own = Roles \ DOMAIN file, NEW P, P = Load
  PROVE  /\ Leveled(M, P) /\ \A r \in DOMAIN M : P[r] # Refused /\ Visit(M, own, P)[r] = P[r]
         /\ \A r \in DOMAIN M : M[r] = Off => r \in Optional /\ P[r] = Off
         /\ \A r \in Needed \cap DOMAIN M : P[r] \in Profiles /\ Apt(r, P[r])
         /\ \A r \in DOMAIN M, q \in DOMAIN M : M[r] = ByRole(q, {}) =>
              P[q] \in Profiles /\ P[r] = Inherited(r, P[q], {}, own)
<1>1. SettingsOK /\ Bound(M) BY Configuration
<1>2. P = Resolve(M, own) BY DEF Load
<1>3. Leveled(M, P) /\ \A r \in DOMAIN M : P[r] # Refused /\ Visit(M, own, P)[r] = P[r]
  BY <1>1, <1>2, ResolvedIsStable
<1>4. ASSUME NEW r \in DOMAIN M, M[r] = Off PROVE r \in Optional /\ P[r] = Off
  BY <1>1, <1>3, <1>4, Visited
<1>5. ASSUME NEW r \in Needed, r \in DOMAIN M PROVE P[r] \in Profiles /\ Apt(r, P[r])
  <2>1. r \notin Optional BY DEF Needed, Optional
  <2>2. CASE M[r] = Off BY <1>4, <1>5, <2>1, <2>2
  <2>3. CASE M[r] = Unclear BY <1>1, <1>3, <1>5, <2>3, Visited
  <2>4. CASE M[r].by = "model" /\ M[r].name \in Names
    <3>1. P[r] = Given(M[r]) /\ Apt(r, P[r]) BY <1>1, <1>3, <1>5, <2>4, Visited
    <3> QED BY <1>1, <1>5, <2>4, <3>1, BoundKinds, GivenType
  <2>5. CASE M[r].by = "inherit"
    <3>1. PICK q : q = M[r].name OBVIOUS
    <3>2. /\ q \in DOMAIN M /\ P[q] \in Profiles
          /\ P[r] = Inherited(r, P[q], M[r].fallback, own) /\ Apt(r, P[r])
      BY <1>1, <1>3, <1>5, <2>5, <3>1, Visited
    <3>3. PICK spare \in Spares : spare = M[r].fallback BY <1>1, <1>5, BoundKinds
    <3>4. Inherited(r, P[q], spare, own) \in Profiles BY <1>1, <3>2, <3>3, InheritedType
    <3> QED BY <3>2, <3>3, <3>4
  <2> QED BY <1>1, <1>5, <2>2, <2>3, <2>4, <2>5, BoundKinds
<1>6. ASSUME NEW r \in DOMAIN M, NEW q \in DOMAIN M, M[r] = ByRole(q, {})
      PROVE  P[q] \in Profiles /\ P[r] = Inherited(r, P[q], {}, own)
  <2>1. M[r].by = "inherit" /\ M[r].name = q /\ M[r].fallback = {} BY <1>6 DEF ByRole
  <2>2. PICK name : name = M[r].name OBVIOUS
  <2>3. P[name] \in Profiles /\ P[r] = Inherited(r, P[name], M[r].fallback, own)
    <3>1. M[r].by = "inherit" BY <2>1
    <3> QED BY <1>1, <1>3, <2>2, <3>1, Visited
  <2>4. P[r] = Inherited(r, P[q], {}, own)
    <3>1. PICK spare : spare = M[r].fallback OBVIOUS
    <3>2. P[r] = Inherited(r, P[name], spare, own) BY <2>3, <3>1
    <3>3. name = q /\ spare = {} BY <2>1, <2>2, <3>1
    <3> QED BY <3>2, <3>3
  <2> QED BY <2>1, <2>2, <2>3, <2>4
<1> QED BY <1>3, <1>4, <1>5, <1>6

\* A role bound by nobody has the model of the first owner, with its own timeout.
LEMMA BorrowedFromOwner ==
  ASSUME file \in Files, settings \in Settings, Resolves(Load), NEW P, P = Load,
         NEW role \in DOMAIN P, ~InFile(role), ~InVariables(role), P[role] # Off,
         NEW places,
         places = {n \in DOMAIN Inherit[role] :
                     InFile(Inherit[role][n]) \/ InVariables(Inherit[role][n])},
         NEW owner, owner = P[FirstOf(role, places)]
  PROVE  /\ P[role].from = owner.from /\ P[role].fallback = owner.fallback
         /\ P[role].timeout = IF OwnTimeout(role) > 0 THEN OwnTimeout(role) ELSE owner.timeout
<1>1. PICK C : C = Configured(file) OBVIOUS
<1>2. PICK M : M = Merged(file) OBVIOUS
<1>3. PICK own : own = Roles \ DOMAIN file OBVIOUS
<1>4. /\ SettingsOK /\ Bound(file) /\ Bound(C) /\ Bound(M) /\ Includes(M) /\ Includes(C)
      /\ \A r \in DOMAIN C \ DOMAIN file : C[r] = IF Disabled(r) THEN Off ELSE ByModel(r, {})
  BY <1>1, <1>2, Configuration
<1>5. /\ Leveled(M, P) /\ \A r \in DOMAIN M : P[r] # Refused /\ Visit(M, own, P)[r] = P[r]
      /\ \A r \in DOMAIN M : M[r] = Off => r \in Optional /\ P[r] = Off
      /\ \A r \in Needed \cap DOMAIN M : P[r] \in Profiles /\ Apt(r, P[r])
      /\ \A r \in DOMAIN M, q \in DOMAIN M : M[r] = ByRole(q, {}) =>
           P[q] \in Profiles /\ P[r] = Inherited(r, P[q], {}, own)
  BY <1>2, <1>3, LoadIs
<1>6. DOMAIN P = DOMAIN M BY <1>5 DEF Leveled
<1>7. \A r \in DOMAIN C : r \in DOMAIN M /\ M[r] = C[r]
  BY <1>1, <1>2, <1>4, MergedIs
\* a candidate has a model of its own when the file or the variables name it
<1>8. ASSUME NEW c \in Needed
      PROVE  /\ (InFile(c) \/ InVariables(c)) <=> c \in DOMAIN C
             /\ c \in DOMAIN C => C[c] # Off
  <2>1. c \in Roles /\ c \notin Optional /\ ~Disabled(c)
    BY DEF Needed, Roles, Optional, Disabled
  <2>2. (InFile(c) \/ InVariables(c)) <=> c \in DOMAIN C
    BY <1>1, <2>1 DEF Configured, InFile, InVariables
  <2>3. ASSUME c \in DOMAIN C PROVE C[c] # Off BY <1>5, <1>7, <2>1, <2>3
  <2> QED BY <2>2, <2>3
<1>9. role \notin DOMAIN C
  <2>1. SUFFICES ASSUME role \in DOMAIN C PROVE FALSE OBVIOUS
  <2>2. role \in (DOMAIN C) \ DOMAIN file BY <2>1 DEF InFile
  <2>3. Disabled(role) BY <1>1, <2>2 DEF Configured, InVariables
  <2>4. C[role] = Off BY <1>4, <2>2, <2>3
  <2> QED BY <1>5, <1>7, <2>1, <2>4
<1>10. role \in own BY <1>3, <1>4, <1>6 DEF InFile, Bound
\* what the model of a borrower is
<1>11. ASSUME NEW r \in own, r \in DOMAIN M, NEW q \in DOMAIN M, M[r] = ByRole(q, {})
       PROVE  /\ P[r].from = P[q].from /\ P[r].fallback = P[q].fallback
              /\ P[r].timeout = IF OwnTimeout(r) > 0 THEN OwnTimeout(r) ELSE P[q].timeout
  <2>1. P[q] \in Profiles /\ P[r] = Inherited(r, P[q], {}, own) BY <1>5, <1>11
  <2> QED BY <1>4, <1>11, <2>1, InheritedWhole
<1>12. \A r \in Borrowers \ {"compression"} : \A n \in DOMAIN Inherit[r] :
         n \in Lenders(r, C) <=> InFile(Inherit[r][n]) \/ InVariables(Inherit[r][n])
  <2> SUFFICES ASSUME NEW r \in Borrowers \ {"compression"}, NEW n \in DOMAIN Inherit[r]
               PROVE  n \in Lenders(r, C) <=> InFile(Inherit[r][n]) \/ InVariables(Inherit[r][n])
    OBVIOUS
  <2>1. PICK c : c = Inherit[r][n] OBVIOUS
  <2>2. c \in Needed BY <2>1, CandidatesAreRoles
  <2>3. n \in Lenders(r, C) <=> c \in DOMAIN C /\ C[c] # Off BY <2>1 DEF Lenders
  <2> QED BY <1>8, <2>1, <2>2, <2>3
<1>13. /\ role \in Borrowers
       /\ LET L == Lenders(role, IF role = "compression" THEN M ELSE C) IN
          L # {} /\ M[role] = ByRole(FirstOf(role, L), {})
  BY <1>1, <1>2, <1>4, <1>6, <1>9, MergedIs
<1>14. CASE role # "compression"
  <2>1. PICK L : L = Lenders(role, C) OBVIOUS
  <2>2. L # {} /\ M[role] = ByRole(FirstOf(role, L), {}) BY <1>13, <1>14, <2>1
  <2>3. L = places BY <1>12, <1>13, <1>14, <2>1 DEF Lenders
  <2>4. PICK n \in L : FirstOf(role, L) = Inherit[role][n]
    <3>1. L \in SUBSET DOMAIN Inherit[role] BY <2>1 DEF Lenders
    <3> QED BY <1>13, <2>2, <3>1, FirstIsFirst
  <2>5. FirstOf(role, L) \in DOMAIN M BY <1>7, <2>1, <2>4 DEF Lenders
  <2> QED BY <1>6, <1>10, <1>11, <2>2, <2>3, <2>5
<1>15. CASE role = "compression"
  <2>1. PICK L : L = Lenders("compression", M) OBVIOUS
  <2>2. L # {} /\ M["compression"] = ByRole(FirstOf("compression", L), {}) BY <1>13, <1>15, <2>1
  <2>3. "compression" \in Borrowers /\ "memory" \in Borrowers /\ "structured_fast" \in Borrowers
    BY DEF Borrowers
  <2>4. PICK l \in L : FirstOf("compression", L) = Inherit["compression"][l]
                       /\ \A m \in L : l <= m
    <3>1. L \in SUBSET DOMAIN Inherit["compression"] BY <2>1 DEF Lenders
    <3> QED BY <2>2, <2>3, <3>1, FirstIsFirst
  <2>5. PICK Lm : Lm = Lenders("memory", C) OBVIOUS
  <2>6. \A n \in 1..4 : n \in Lm <=> (n + 1) \in places
    <3> SUFFICES ASSUME NEW n \in 1..4 PROVE n \in Lm <=> (n + 1) \in places
      OBVIOUS
    <3>1. Inherit["memory"][n] = Inherit["compression"][n + 1]
      <4>1. n = 1 \/ n = 2 \/ n = 3 \/ n = 4 OBVIOUS
      <4> QED BY <4>1, OwnersAsked
    <3>2. n + 1 \in DOMAIN Inherit["compression"] /\ n \in DOMAIN Inherit["memory"]
      BY OwnersAsked
    <3>3. n \in Lm <=> InFile(Inherit["memory"][n]) \/ InVariables(Inherit["memory"][n])
      BY <1>12, <2>3, <2>5, <3>2
    <3> QED BY <1>15, <3>1, <3>2, <3>3
  <2>7. 1 \in places <=> "memory" \in DOMAIN C
    <3>1. 1 \in DOMAIN Inherit["compression"] /\ Inherit["compression"][1] = "memory"
      BY OwnersAsked
    <3>2. "memory" \in Needed BY DEF Needed
    <3> QED BY <1>8, <1>15, <3>1, <3>2
  <2>8. places \subseteq 1..5 /\ places \in SUBSET DOMAIN Inherit["compression"]
    BY <1>15, OwnersAsked
  <2>9. CASE "memory" \in DOMAIN C
    <3>1. M["memory"] # Off /\ "memory" \in DOMAIN M BY <1>7, <1>8, <2>9 DEF Needed
    <3>2. 1 \in L BY <2>1, <3>1, OwnersAsked DEF Lenders
    <3>3. l \in 1..5 BY <2>1, <2>4, OwnersAsked DEF Lenders
    <3>4. l = 1 BY <2>4, <3>2, <3>3
    <3>5. FirstOf("compression", L) = "memory" BY <2>4, <3>4, OwnersAsked
    <3>6. PICK p \in places : FirstOf("compression", places) = Inherit["compression"][p]
                              /\ \A m \in places : p <= m
      BY <2>3, <2>7, <2>8, <2>9, FirstIsFirst
    <3>7. p = 1 BY <2>7, <2>8, <2>9, <3>6
    <3>8. FirstOf("compression", places) = "memory" BY <3>6, <3>7, OwnersAsked
    <3> QED BY <1>6, <1>10, <1>11, <1>15, <2>2, <3>1, <3>5, <3>8
  <2>10. CASE "memory" \in (DOMAIN M) \ DOMAIN C
    <3>1. Lm # {} /\ M["memory"] = ByRole(FirstOf("memory", Lm), {})
      BY <1>1, <1>2, <1>4, <2>5, <2>10, MergedIs
    <3>2. M["memory"] # Off BY <3>1 DEF ByRole, Off
    <3>3. 1 \in L BY <2>1, <2>10, <3>2, OwnersAsked DEF Lenders
    <3>4. l \in 1..5 BY <2>1, <2>4, OwnersAsked DEF Lenders
    <3>5. l = 1 BY <2>4, <3>3, <3>4
    <3>6. FirstOf("compression", L) = "memory" BY <2>4, <3>5, OwnersAsked
    <3>7. Lm \subseteq DOMAIN Inherit["memory"] /\ Lm \subseteq 1..4
      BY <2>5, OwnersAsked DEF Lenders
    <3>8. PICK k \in Lm : FirstOf("memory", Lm) = Inherit["memory"][k] /\ \A m \in Lm : k <= m
      BY <2>3, <3>1, <3>7, FirstIsFirst
    <3>9. k + 1 \in places BY <2>6, <3>7
    <3>10. PICK p \in places : FirstOf("compression", places) = Inherit["compression"][p]
                               /\ \A m \in places : p <= m
      <4>1. places # {} BY <3>9
      <4> QED BY SMTT(30), <2>3, <2>8, <4>1, FirstIsFirst
    <3>11. p # 1 /\ p \in 1..5 BY <2>7, <2>8, <2>10
    <3>12. PICK m \in 1..4 : p = m + 1
      <4>1. p - 1 \in 1..4 /\ p = (p - 1) + 1 BY <3>11
      <4> QED BY <4>1
    <3>13. m \in Lm BY <2>6, <3>12
    <3>14. k <= m BY <3>8, <3>13
    <3>15. m + 1 <= k + 1 BY <3>9, <3>10, <3>12
    <3>16. m = k BY <3>7, <3>12, <3>14, <3>15
    <3>17. Inherit["memory"][m] = Inherit["compression"][m + 1]
      <4>1. m = 1 \/ m = 2 \/ m = 3 \/ m = 4 BY <3>12
      <4> QED BY <4>1, OwnersAsked
    <3>18. PICK q : q = FirstOf("memory", Lm) OBVIOUS
    <3>19. q = FirstOf("compression", places) BY <3>8, <3>10, <3>12, <3>16, <3>17, <3>18
    <3>20. q \in DOMAIN M
      <4>1. q \in DOMAIN C BY <2>5, <3>8, <3>18 DEF Lenders
      <4> QED BY <1>7, <4>1
    <3>21. "memory" \in own BY <1>3, <1>4, <2>10 DEF Bound, Includes
    <3>22. /\ P["memory"].from = P[q].from /\ P["memory"].fallback = P[q].fallback
           /\ P["memory"].timeout =
                IF OwnTimeout("memory") > 0 THEN OwnTimeout("memory") ELSE P[q].timeout
      BY <1>11, <2>10, <3>1, <3>18, <3>20, <3>21
    <3>23. /\ P[role].from = P["memory"].from /\ P[role].fallback = P["memory"].fallback
           /\ P[role].timeout =
                IF OwnTimeout(role) > 0 THEN OwnTimeout(role) ELSE P["memory"].timeout
      BY <1>6, <1>10, <1>11, <1>15, <2>2, <2>10, <3>6
    <3>24. OwnTimeout(role) > 0 \/ ~(OwnTimeout("memory") > 0)
      BY <1>4, <1>15 DEF OwnTimeout, SettingsOK
    <3>25. owner = P[q] BY <1>15, <3>19
    <3>26. CASE OwnTimeout(role) > 0 BY <3>22, <3>23, <3>25, <3>26
    <3>27. CASE ~(OwnTimeout(role) > 0) BY <3>22, <3>23, <3>24, <3>25, <3>27
    <3> QED BY <3>26, <3>27
  <2>11. CASE "memory" \notin DOMAIN M
    <3>1. Lm = {} BY <1>1, <1>2, <1>4, <2>3, <2>5, <2>11, MergedIs
    <3>2. l \in 1..5 /\ Inherit["compression"][l] \in DOMAIN M
      BY <2>1, <2>4, OwnersAsked DEF Lenders
    <3>3. l # 1 BY <2>11, <3>2, OwnersAsked
    <3>4. PICK n \in 1..4 : l = n + 1
      <4>1. l - 1 \in 1..4 /\ l = (l - 1) + 1 BY <3>2, <3>3
      <4> QED BY <4>1
    <3>5. PICK c : c = Inherit["memory"][n] OBVIOUS
    <3>6. c = Inherit["compression"][l]
      <4>1. n = 1 \/ n = 2 \/ n = 3 \/ n = 4 BY <3>4
      <4> QED BY <3>4, <3>5, <4>1, OwnersAsked
    <3>7. c \in Needed BY <2>3, <3>4, <3>5, OwnersAsked, CandidatesAreRoles
    <3>8. c \notin DOMAIN C
      <4>1. n \notin Lm BY <3>1
      <4> QED BY <1>8, <2>5, <3>4, <3>5, <3>7, <4>1, OwnersAsked DEF Lenders
    <3>9. c \in Borrowers /\ c # "compression" /\ c # "memory"
      BY <1>1, <1>2, <1>4, <2>11, <3>2, <3>6, <3>7, <3>8, MergedIs DEF Needed
    <3>10. c = "structured_fast" BY <3>7, <3>9 DEF Borrowers, Needed
    <3>11. Lenders("structured_fast", C) # {}
      BY <1>1, <1>2, <1>4, <3>2, <3>6, <3>8, <3>10, MergedIs
    <3>12. "small" \in DOMAIN C /\ C["small"] # Off BY <3>11, OwnersAsked DEF Lenders
    <3>13. 3 \in Lm BY <2>5, <3>12, OwnersAsked DEF Lenders
    <3> QED BY <3>1, <3>13
  <2> QED BY <2>9, <2>10, <2>11
<1> QED BY <1>14, <1>15

-----------------------------------------------------------------------------
\* Nothing of the configuration moves.

\* What only the settings decide stays while they do.
LEMMA TermsStay ==
  ASSUME settings' = settings, NEW role, NEW name, NEW own, NEW p, NEW spare
  PROVE  /\ OwnTimeout(role)' = OwnTimeout(role)
         /\ ModelOf(name)' = ModelOf(name)
         /\ Inherited(role, p, spare, own)' = Inherited(role, p, spare, own)
<1>1. \A r : OwnTimeout(r)' = OwnTimeout(r) BY DEF OwnTimeout
<1>2. EnvModel(name)' = EnvModel(name)
  <2>1. PICK t : t = OwnTimeout(name) OBVIOUS
  <2>2. OwnTimeout(name)' = t BY <1>1, <2>1
  <2> QED BY <2>1, <2>2 DEF EnvModel
<1>3. ModelOf(name)' = ModelOf(name) BY <1>2 DEF ModelOf
<1>4. Inherited(role, p, spare, own)' = Inherited(role, p, spare, own)
  <2>1. PICK t : t = OwnTimeout(role) OBVIOUS
  <2>2. OwnTimeout(role)' = t BY <1>1, <2>1
  <2> QED BY <2>1, <2>2 DEF Inherited
<1> QED BY <1>1, <1>3, <1>4

\* A role's model stays while the settings do.
LEMMA ModelForStays ==
  ASSUME settings' = settings, NEW role, NEW binding, NEW own, NEW below
  PROVE  ModelFor(role, binding, own, below)' = ModelFor(role, binding, own, below)
<1>1. PICK p : p = IF binding.name \in DOMAIN below THEN below[binding.name] ELSE Refused
  OBVIOUS
<1>2. /\ ModelOf(binding.name)' = ModelOf(binding.name)
      /\ Inherited(role, p, binding.fallback, own)' = Inherited(role, p, binding.fallback, own)
  BY TermsStay
<1> QED BY <1>1, <1>2 DEF ModelFor

\* A visit stays while the settings do.
LEMMA VisitStays ==
  ASSUME settings' = settings, NEW R, NEW own, NEW below
  PROVE  Visit(R, own, below)' = Visit(R, own, below)
<1>1. \A role \in DOMAIN R :
        ModelFor(role, R[role], own, below)' = ModelFor(role, R[role], own, below)
  BY ModelForStays
<1> QED BY <1>1 DEF Visit

\* Resolving stays while the settings do.
LEMMA ResolveStays ==
  ASSUME settings' = settings, NEW R, NEW own
  PROVE  Resolve(R, own)' = Resolve(R, own)
<1>1. PICK a1 : a1 = Visit(R, own, Level0(R)) OBVIOUS
<1>2. PICK a2 : a2 = Visit(R, own, a1) OBVIOUS
<1>3. PICK a3 : a3 = Visit(R, own, a2) OBVIOUS
<1>4. PICK a4 : a4 = Visit(R, own, a3) OBVIOUS
<1>5. PICK a5 : a5 = Visit(R, own, a4) OBVIOUS
<1>6. PICK a6 : a6 = Visit(R, own, a5) OBVIOUS
<1>7. PICK a7 : a7 = Visit(R, own, a6) OBVIOUS
<1>8. Resolve(R, own) = a7
  BY <1>1, <1>2, <1>3, <1>4, <1>5, <1>6, <1>7, SevenLevels
  DEF Level1, Level2, Level3, Level4, Level5, Level6, Level7
<1>9. Level1(R, own)' = a1 BY <1>1, VisitStays DEF Level1
<1>10. Level2(R, own)' = a2 BY <1>2, <1>9, VisitStays DEF Level2
<1>11. Level3(R, own)' = a3 BY <1>3, <1>10, VisitStays DEF Level3
<1>12. Level4(R, own)' = a4 BY <1>4, <1>11, VisitStays DEF Level4
<1>13. Level5(R, own)' = a5 BY <1>5, <1>12, VisitStays DEF Level5
<1>14. Level6(R, own)' = a6 BY <1>6, <1>13, VisitStays DEF Level6
<1>15. Level7(R, own)' = a7 BY <1>7, <1>14, VisitStays DEF Level7
<1>16. Resolve(R, own)' = Level7(R, own)'
  BY DEF Resolve, Level0, Level1, Level2, Level3, Level4, Level5, Level6, Level7
<1> QED BY <1>8, <1>15, <1>16

-----------------------------------------------------------------------------
\* the models are those of the file, of the role's owner, and enough
ByFile(P) ==
  \A role \in DOMAIN file :
    \/ P[role] = Off /\ file[role] = Off
    \/ \E r, q \in Chain(role) :
         /\ file[r].by = "model"
         /\ P[role] = With(FileModel(file[r].name), file[q].fallback)
         /\ file[role].fallback # {} => file[q].fallback = file[role].fallback

Owned(role, P, places) ==
  /\ P[role].from = P[FirstOf(role, places)].from
  /\ P[role].fallback = P[FirstOf(role, places)].fallback
  /\ P[role].timeout = IF OwnTimeout(role) > 0 THEN OwnTimeout(role)
                       ELSE P[FirstOf(role, places)].timeout

Owners(role) ==
  {n \in DOMAIN Inherit[role] : InFile(Inherit[role][n]) \/ InVariables(Inherit[role][n])}

Right(P) ==
  /\ ByFile(P)
  /\ \A role \in DOMAIN P :
       ~InFile(role) /\ ~InVariables(role) /\ P[role] # Off => Owned(role, P, Owners(role))
  /\ \A role \in Needed :
       /\ role \in DOMAIN P /\ P[role] # Off
       /\ Able(role, P[role], role = "main")
       /\ HasSecret(P[role])
       /\ \A name \in P[role].fallback : Stands(role, name)

\* the reasons a start may be refused for
Unable ==
  \E role, r \in Roles :
    /\ ~InFile(role) /\ InFile(r)
    /\ \E name \in Suggested(file[r]) : ~Able(role, FileModel(name), FALSE)

Reasons ==
  \/ \E role \in Roles : Identity(role) = "part"
  \/ ~Resolves(Resolve(file, {}))
  \/ DOMAIN file # {} /\ ~secrets
  \/ Unable
  \/ ~(Needed \subseteq DOMAIN file) /\ \E role \in {"main", "structured", "small"} : ~InVariables(role)

\* The roles are read once, and what was published is the configuration as it is.
RolesInv ==
  /\ file \in Files /\ settings \in Settings /\ secrets \in BOOLEAN
  /\ started \in {"no", "yes", "refused"}
  /\ ConfigResolves

\* Nothing is published initially.
LEMMA InitRoles == RolesInit => RolesInv
BY DEF RolesInit, RolesInv, ConfigResolves, FileIsObeyed, BorrowedOnce, ModelsAreThere,
       CompleteStarts

\* what a start publishes
LEMMA PublishedIsRight ==
  ASSUME file \in Files, settings \in Settings, secrets \in BOOLEAN, Loads,
         \A role \in Needed : role \in DOMAIN Load /\ HasSecret(Load[role]),
         NEW P, P = Load
  PROVE  Right(P)
<1>1. PICK M : M = Merged(file) OBVIOUS
<1>2. PICK own : own = Roles \ DOMAIN file OBVIOUS
<1>3. /\ SettingsOK /\ Bound(file) /\ Bound(M) /\ Includes(M)
      /\ \A r \in DOMAIN file : r \notin own
  BY <1>1, <1>2, Configuration
<1>4. Resolves(Load) /\ Resolves(Resolve(file, {})) BY DEF Loads
<1>5. /\ Leveled(M, P) /\ \A r \in DOMAIN M : P[r] # Refused
      /\ \A r \in Needed \cap DOMAIN M : P[r] \in Profiles /\ Apt(r, P[r])
  <2>1. Leveled(M, P) /\ \A r \in DOMAIN M : P[r] # Refused /\ Visit(M, own, P)[r] = P[r]
    BY <1>1, <1>2, <1>4, LoadIs
  <2>2. \A r \in Needed \cap DOMAIN M : P[r] \in Profiles /\ Apt(r, P[r])
    BY <1>1, <1>2, <1>4, LoadIs
  <2> QED BY <2>1, <2>2
<1>6. DOMAIN P = DOMAIN M BY <1>5 DEF Leveled
<1>7. ByFile(P)
  <2>1. FileIsClosed BY <1>3, <1>4, FileInherits
  <2>2. P = Level7(M, own) BY <1>1, <1>2, SevenLevels DEF Load
  <2>3. Obeyed(P) BY <1>3, <2>1, <2>2, LevelsObey
  <2>4. \A role \in DOMAIN file : P[role] # Refused BY <1>3, <1>5 DEF Includes
  <2> QED BY <2>3, <2>4 DEF Obeyed, ByFile
<1>8. ASSUME NEW role \in DOMAIN P, ~InFile(role), ~InVariables(role), P[role] # Off
      PROVE  Owned(role, P, Owners(role))
  <2>1. PICK places : places = Owners(role) OBVIOUS
  <2>2. PICK owner : owner = P[FirstOf(role, places)] OBVIOUS
  <2>3. /\ P[role].from = owner.from /\ P[role].fallback = owner.fallback
        /\ P[role].timeout = IF OwnTimeout(role) > 0 THEN OwnTimeout(role) ELSE owner.timeout
    BY <1>4, <1>8, <2>1, <2>2, BorrowedFromOwner DEF Owners
  <2> QED BY <2>1, <2>2, <2>3 DEF Owned
<1>9. ASSUME NEW role \in Needed
      PROVE  /\ role \in DOMAIN P /\ P[role] # Off
             /\ Able(role, P[role], role = "main")
             /\ HasSecret(P[role])
             /\ \A name \in P[role].fallback : Stands(role, name)
  <2>1. role \in DOMAIN P /\ HasSecret(P[role]) BY <1>9
  <2>2. P[role] \in Profiles /\ Apt(role, P[role]) BY <1>5, <1>6, <1>9, <2>1
  <2>3. role = "main" => "streaming" \in Required[role] BY DEF Required
  <2>4. Able(role, P[role], role = "main") BY <2>2, <2>3 DEF Able, Apt
  <2>5. ASSUME NEW name \in P[role].fallback PROVE Stands(role, name)
    BY <2>2 DEF Apt, Stands, Able, FileModel
  <2> QED BY <2>1, <2>2, <2>4, <2>5, NoProfile
<1> QED BY <1>7, <1>8, <1>9 DEF Right

\* why a start is refused
LEMMA RefusedForAReason ==
  ASSUME file \in Files, settings \in Settings, secrets \in BOOLEAN,
         ~(Loads /\ \A role \in Needed : role \in DOMAIN Load /\ HasSecret(Load[role]))
  PROVE  Reasons
<1> SUFFICES ASSUME \A role \in Roles : Identity(role) # "part",
                    Resolves(Resolve(file, {})),
                    DOMAIN file = {} \/ secrets,
                    \A role, r \in Roles :
                      ~InFile(role) /\ InFile(r) =>
                        \A name \in Suggested(file[r]) : Able(role, FileModel(name), FALSE),
                    \/ Needed \subseteq DOMAIN file
                    \/ \A role \in {"main", "structured", "small"} : InVariables(role)
             PROVE  FALSE
  BY DEF Reasons, Unable
<1>1. DOMAIN file \subseteq Roles BY FileIsBound DEF Bound
<1>2. FileIsAble BY <1>1 DEF FileIsAble, InFile, Able
<1>3. Resolves(Load) BY <1>2, MergedResolves
<1>4. ~Incomplete(file) BY DEF Incomplete
<1>5. Loads BY <1>3, <1>4 DEF Loads
<1>6. PICK M : M = Merged(file) OBVIOUS
<1>7. PICK P : P = Load OBVIOUS
<1>8. PICK own : own = Roles \ DOMAIN file OBVIOUS
<1>9. Leveled(M, P) /\ \A r \in Needed \cap DOMAIN M : P[r] \in Profiles
  BY <1>3, <1>6, <1>7, <1>8, LoadIs
<1>10. DOMAIN P = DOMAIN M BY <1>9 DEF Leveled
<1>11. ASSUME NEW role \in Needed PROVE role \in DOMAIN P /\ HasSecret(P[role])
  <2>1. role \in DOMAIN P BY <1>6, <1>10, <1>11, NeededAreBound
  <2>2. CASE secrets BY <2>1, <2>2 DEF HasSecret
  <2>3. CASE DOMAIN file = {}
    <3>1. FromEnv(P) BY <1>7, <2>3, EnvHasItsSecrets
    <3>2. P[role] \in Profiles BY <1>9, <1>10, <1>11, <2>1
    <3> QED BY <2>1, <3>1, <3>2 DEF FromEnv, HasSecret
  <2> QED BY <2>2, <2>3
<1> QED BY <1>5, <1>7, <1>11

\* ConfigResolves, in the named parts of its proof.
LEMMA ConfigMeans ==
  ConfigResolves <=> /\ started = "yes" => Right(published)
                     /\ started = "refused" => Reasons
<1>1. FileIsObeyed <=> (started = "yes" => ByFile(published))
  BY DEF FileIsObeyed, ByFile, With
<1>2. BorrowedOnce <=>
        (started = "yes" => \A role \in DOMAIN published :
           ~InFile(role) /\ ~InVariables(role) /\ published[role] # Off =>
             Owned(role, published, Owners(role)))
  BY DEF BorrowedOnce, Owned, Owners
<1>3. ModelsAreThere <=>
        (started = "yes" => \A role \in Needed :
           /\ role \in DOMAIN published /\ published[role] # Off
           /\ Able(role, published[role], role = "main")
           /\ HasSecret(published[role])
           /\ \A name \in published[role].fallback : Stands(role, name))
  BY DEF ModelsAreThere, Gets
<1>4. CompleteStarts <=> (started = "refused" => Reasons)
  BY DEF CompleteStarts, Reasons, Unable
<1> QED BY <1>1, <1>2, <1>3, <1>4 DEF ConfigResolves, Right

\* A right configuration stays right while nothing it rests on changes.
LEMMA RightStays ==
  ASSUME file' = file, settings' = settings, secrets' = secrets, NEW P, Right(P)
  PROVE  Right(P)'
<1>1. ByFile(P)'
  <2>1. PICK f : f = file OBVIOUS
  <2>2. PICK chain : chain = [role \in DOMAIN f |-> Chain(role)] OBVIOUS
  <2>3. \A role \in DOMAIN f : Chain(role) = chain[role] /\ Chain(role)' = chain[role]
    BY <2>1, <2>2 DEF Chain
  <2>4. \A role \in DOMAIN f :
          \/ P[role] = Off /\ f[role] = Off
          \/ \E r, q \in chain[role] :
               /\ f[r].by = "model"
               /\ P[role] = With(FileModel(f[r].name), f[q].fallback)
               /\ f[role].fallback # {} => f[q].fallback = f[role].fallback
    BY <2>1, <2>3 DEF Right, ByFile
  <2>5. file' = f BY <2>1
  <2> QED BY <2>3, <2>4, <2>5 DEF ByFile
<1>2. ASSUME NEW role \in DOMAIN P, ~InFile(role)', ~InVariables(role)', P[role] # Off
      PROVE  Owned(role, P, Owners(role))'
  <2>1. \A r : (InFile(r)' <=> InFile(r)) /\ (InVariables(r)' <=> InVariables(r))
    BY DEF InFile, InVariables, Identity
  <2>2. PICK places : places = Owners(role) OBVIOUS
  <2>3. Owners(role)' = places BY <2>1, <2>2 DEF Owners
  <2>4. Owned(role, P, places) BY <1>2, <2>1, <2>2 DEF Right
  <2>5. OwnTimeout(role)' = OwnTimeout(role) BY TermsStay
  <2>6. Owned(role, P, places)' BY <2>4, <2>5 DEF Owned
  <2> QED BY <2>3, <2>6 DEF Owned
<1>3. ASSUME NEW role \in Needed
      PROVE  /\ role \in DOMAIN P /\ P[role] # Off
             /\ Able(role, P[role], role = "main")
             /\ HasSecret(P[role])'
             /\ \A name \in P[role].fallback : Stands(role, name)'
  BY <1>3 DEF Right, HasSecret
<1> QED BY <1>1, <1>2, <1>3 DEF Right

\* A reason to refuse stays one while nothing it rests on changes.
LEMMA ReasonsStay ==
  ASSUME file' = file, settings' = settings, secrets' = secrets, Reasons
  PROVE  Reasons'
<1>1. PICK f : f = file OBVIOUS
<1>2. Resolve(file, {})' = Resolve(file, {})
  <2>1. Resolve(f, {})' = Resolve(f, {}) BY ResolveStays
  <2> QED BY <1>1, <2>1
<1>3. (~Resolves(Resolve(file, {})))' <=> ~Resolves(Resolve(file, {}))
  BY <1>2 DEF Resolves
<1>4. Unable' <=> Unable BY DEF Unable, InFile
<1> QED BY <1>3, <1>4 DEF Reasons, Identity, InVariables

\* Loading publishes a right configuration or is refused for a reason.
LEMMA NextRoles == RolesInv /\ [RolesNext]_rolesVars => RolesInv'
<1> SUFFICES ASSUME RolesInv, [RolesNext]_rolesVars PROVE RolesInv'
  OBVIOUS
<1>1. file' = file /\ settings' = settings /\ secrets' = secrets
  BY DEF RolesNext, Initialize, rolesVars
<1>2. file \in Files /\ settings \in Settings /\ secrets \in BOOLEAN
      /\ started \in {"no", "yes", "refused"}
  BY DEF RolesInv
<1>3. /\ started = "yes" => Right(published)
      /\ started = "refused" => Reasons
  BY ConfigMeans DEF RolesInv
<1>4. /\ started' \in {"no", "yes", "refused"}
      /\ started' = "yes" => Right(published')
      /\ started' = "refused" => Reasons
  <2>1. CASE Initialize /\ Loads /\ \A role \in Needed : role \in DOMAIN Load /\ HasSecret(Load[role])
    <3>1. started' = "yes" /\ published' = Load BY <2>1 DEF Initialize
    <3>2. PICK P : P = Load OBVIOUS
    <3>3. Right(P) BY <1>2, <2>1, <3>2, PublishedIsRight
    <3> QED BY <3>1, <3>2, <3>3
  <2>2. CASE Initialize /\ ~(Loads /\ \A role \in Needed : role \in DOMAIN Load /\ HasSecret(Load[role]))
    <3>1. started' = "refused" BY <2>2 DEF Initialize
    <3>2. Reasons BY <1>2, <2>2, RefusedForAReason
    <3> QED BY <3>1, <3>2
  <2>3. CASE UNCHANGED rolesVars BY <1>2, <1>3, <2>3 DEF rolesVars
  <2> QED BY <2>1, <2>2, <2>3 DEF RolesNext
<1>5. PICK P : P = published' OBVIOUS
<1>6. started' = "yes" => Right(P)'
  <2> SUFFICES ASSUME started' = "yes" PROVE Right(P)'
    OBVIOUS
  <2>1. Right(P) BY <1>4, <1>5
  <2> QED BY <1>1, <2>1, RightStays
<1>7. started' = "refused" => Reasons'
  BY <1>1, <1>4, ReasonsStay
<1>8. Right(P)' => Right(published)'
  BY <1>5 DEF Right, ByFile, Owned
<1>9. ConfigResolves'
  <2>1. (ConfigResolves <=> /\ started = "yes" => Right(published)
                            /\ started = "refused" => Reasons)'
    BY ConfigMeans, PTL
  <2> QED BY <1>6, <1>7, <1>8, <2>1
<1> QED BY <1>1, <1>2, <1>4, <1>9 DEF RolesInv

\* Every role the file names has the model its chain ends in, and the fallbacks it names or
\* those of its chain; a borrowed model comes with its fallbacks from the first owner among
\* the candidates, in however many steps, within the borrower's own time; after a start every
\* needed role has a model, and each of its fallbacks can do its work; and a complete
\* configuration starts (resolve, EnvConfigRepository.configuration, initialize).
THEOREM RolesResolve == RolesInit /\ [][RolesNext]_rolesVars => []ConfigResolves
<1>1. RolesInv => ConfigResolves BY DEF RolesInv
<1> QED BY <1>1, InitRoles, NextRoles, PTL
=============================================================================
