--------------------------- MODULE MemoryContract ---------------------------
(***************************************************************************)
(* What the memory service promises about the long-term memories of a      *)
(* user, whoever writes them and wherever a process ends.  A memory is one *)
(* versioned register: a committed change makes its version grow; a change *)
(* by hand is later than every one before it; a reflection job writes at   *)
(* most once, and only where neither a deletion nor a change by hand has   *)
(* come after the evidence it reflects on.                                 *)
(***************************************************************************)
EXTENDS Naturals

CONSTANTS Jobs,       \* reflection jobs
          Memories,   \* ids of memories
          Nobody      \* the author of what no job wrote

VARIABLES memory,     \* what the last committed change left
          evidence,   \* when a job's evidence was captured, 0 before
          written     \* jobs whose change was committed

contractVars == <<memory, evidence, written>>

Unwritten == [version |-> 0, deleted |-> FALSE, changed |-> 0, by |-> Nobody]

Init ==
  /\ memory = [m \in Memories |-> Unwritten]
  /\ evidence = [j \in Jobs |-> 0]
  /\ written = {}

\* evidence is captured once, after every change by hand that is already committed
Capture(j) ==
  /\ evidence[j] = 0
  /\ evidence' = [evidence EXCEPT ![j] = evidence'[j]]
  /\ \A m \in Memories : evidence'[j] > memory[m].changed
  /\ UNCHANGED <<memory, written>>

\* one memory changes and its version grows
Change(m) ==
  /\ memory' = [memory EXCEPT ![m] = memory'[m]]
  /\ memory'[m].version > memory[m].version
  /\ UNCHANGED evidence

\* the user creates, edits, deletes or revives a memory
ByHand(m) ==
  /\ Change(m)
  /\ memory'[m].by = Nobody
  /\ \A n \in Memories : memory'[m].changed > memory[n].changed
  /\ UNCHANGED written

\* a job creates or edits a memory
ByJob(j, m) ==
  /\ j \notin written
  /\ ~memory[m].deleted /\ evidence[j] > memory[m].changed
  /\ Change(m)
  /\ memory'[m].by = j
  /\ ~memory'[m].deleted /\ memory'[m].changed = memory[m].changed
  /\ written' = written \cup {j}

Next ==
  \/ \E j \in Jobs : Capture(j)
  \/ \E m \in Memories : ByHand(m) \/ \E j \in Jobs : ByJob(j, m)

Spec == Init /\ [][Next]_contractVars
=============================================================================
