----------------------- MODULE MemoryReflection_proofs -----------------------
(***************************************************************************)
(* Proofs about MemoryReflection, for any number of jobs, memories and     *)
(* texts, and any number of mutations, exceptions and ends of the process. *)
(***************************************************************************)
EXTENDS MemoryReflection, TLAPS

USE DEF jobVars, memoryVars, historyVars, boundVars

-----------------------------------------------------------------------------
(* Types                                                                   *)

TextsOrNone == Texts \cup {"absent"}

ProposalRecords ==
  [op : {"noop", "create", "update"}, target : Memories \cup {NoJob}, base : Nat,
   text : TextsOrNone]

WorkerRecords ==
  [pc : {"down", "absent", "idle", "taken", "proposed", "locked", "stored", "succeeded",
         "skipped", "finished", "failing"},
   job : Jobs \cup {NoJob}, proposal : ProposalRecords]

ManualRecords ==
  [pc : {"none", "locked", "stored"}, op : {"none", "write", "delete"},
   target : Memories \cup {NoJob}, text : TextsOrNone, guard : GuardRows]

\* TypeOK with the types of the holders' records: from its proposal to its commit the
\* worker has a memory and a text, and a request has a memory from its start.
TypeInv ==
  /\ TypeOK
  /\ worker \in WorkerRecords
  /\ worker.pc \in {"down", "absent", "idle"} => worker.job = NoJob
  /\ worker.pc \in {"proposed", "locked", "stored"} =>
       worker.proposal.target \in Memories /\ worker.proposal.text \in Texts
  /\ manual \in ManualRecords
  /\ manual.pc # "none" => manual.target \in Memories /\ manual.op # "none"
  /\ seen \subseteq Memories
  /\ answered \in [Memories -> Nat]

\* The guard row a mutation works with has the type of a row, whether it was read or made.
LEMMA GuardType ==
  ASSUME TypeInv, NEW m \in Memories
  PROVE  Guard(m) \in GuardRows
<1>1. guard[m] \in GuardRows /\ item[m] \in Items
  BY DEF TypeInv, TypeOK
<1>2. NoRow \in GuardRows
  BY DEF NoRow, GuardRows
<1> QED BY <1>1, <1>2 DEF Guard, GuardRows, Items

\* Nothing is captured or written yet.
LEMMA InitTypeInv == Init => TypeInv
<1> SUFFICES ASSUME Init PROVE TypeInv
  OBVIOUS
<1>1. NoRow \in GuardRows /\ NoItem \in Items /\ Noop \in ProposalRecords
  BY DEF NoRow, NoItem, Noop, GuardRows, Items, ProposalRecords, TextsOrNone
<1>2. worker \in WorkerRecords /\ worker.pc = "idle" /\ worker.job = NoJob
  BY <1>1 DEF Init, Rest, WorkerRecords
<1>3. manual \in ManualRecords /\ manual.pc = "none"
  BY <1>1 DEF Init, NoRequest, ManualRecords, TextsOrNone
<1> QED BY <1>1, <1>2, <1>3 DEF Init, TypeInv, TypeOK

\* A mutation by hand begins.
LEMMA ManualBeginType ==
  ASSUME TypeInv, NEW op \in {"write", "delete"}, NEW m \in Memories,
         NEW t \in TextsOrNone, ManualBegin(op, m, t)
  PROVE  TypeInv'
<1>1. ManualGuard(op, Guard(m), clock + 1) \in GuardRows
  <2>1. Guard(m) \in GuardRows BY GuardType
  <2>2. clock \in Nat BY DEF TypeInv, TypeOK
  <2>3. /\ Guard(m).version + 1 \in Nat
        /\ clock + 1 \in Nat
        /\ (op = "delete") \in BOOLEAN
    BY <2>1, <2>2 DEF GuardRows
  <2> QED BY <2>1, <2>3, Zenon DEF ManualGuard, GuardRows
<1>2. manual' \in ManualRecords /\ manual'.pc = "locked" /\ manual'.target = m /\ manual'.op = op
  BY <1>1 DEF ManualBegin, ManualRecords
<1> QED BY <1>2 DEF ManualBegin, TypeInv, TypeOK

\* Every step keeps the types.
LEMMA NextTypeInv == TypeInv /\ [Next]_vars => TypeInv'
<1> SUFFICES ASSUME TypeInv, [Next]_vars PROVE TypeInv'
  OBVIOUS
<1> USE MemoryAssumption
<1>1. ASSUME NEW j \in Jobs, Capture(j) PROVE TypeInv'
  BY <1>1 DEF Capture, TypeInv, TypeOK
<1>2. ASSUME NEW j \in Jobs, Register(j) PROVE TypeInv'
  BY <1>2 DEF Register, TypeInv, TypeOK
<1>3. ASSUME NEW m \in Memories, NEW t \in Texts, CreateManual(m, t) \/ UpdateManual(m, t)
      PROVE TypeInv'
  BY <1>3, ManualBeginType DEF CreateManual, UpdateManual, TextsOrNone
<1>4. ASSUME NEW m \in Memories, DeleteManual(m) PROVE TypeInv'
  BY <1>4, ManualBeginType DEF DeleteManual, TextsOrNone
<1>5. CASE ManualStore
  <2>1. manual.target \in Memories BY <1>5 DEF ManualStore, TypeInv
  <2>2. item' \in [Memories -> Items]
    <3>1. NoItem \in Items BY DEF NoItem, Items
    <3>2. [version |-> manual.guard.version, by |-> NoJob, text |-> manual.text] \in Items
      BY DEF TypeInv, ManualRecords, GuardRows, Items, TextsOrNone
    <3> QED BY <1>5, <2>1, <3>1, <3>2 DEF ManualStore, TypeInv, TypeOK
  <2>3. manual' \in ManualRecords /\ manual'.pc = "stored" /\ manual'.target = manual.target
        /\ manual'.op = manual.op
    BY <1>5 DEF ManualStore, TypeInv, ManualRecords
  <2>4. seen' \subseteq Memories
    BY <1>5, <2>1 DEF ManualStore, TypeInv
  <2> QED BY <1>5, <2>1, <2>2, <2>3, <2>4 DEF ManualStore, TypeInv, TypeOK
<1>6. CASE ManualCommit
  <2>1. manual.guard \in GuardRows /\ manual.guard.manualAt \in Nat
    BY DEF TypeInv, ManualRecords, GuardRows
  <2>2. manual' \in ManualRecords /\ manual'.pc = "none"
    <3>1. NoRow \in GuardRows BY DEF NoRow, GuardRows
    <3> QED BY <1>6, <3>1 DEF ManualCommit, NoRequest, ManualRecords, TextsOrNone
  <2> QED BY <1>6, <2>1, <2>2 DEF ManualCommit, TypeInv, TypeOK
<1>7. CASE ManualFails
  <2>1. manual' \in ManualRecords /\ manual'.pc = "none"
    <3>1. NoRow \in GuardRows BY DEF NoRow, GuardRows
    <3> QED BY <1>7, <3>1 DEF ManualFails, NoRequest, ManualRecords, TextsOrNone
  <2> QED BY <1>7, <2>1 DEF ManualFails, TypeInv, TypeOK
<1>8. CASE Cleanup
  BY <1>8 DEF Cleanup, Terminal, TypeInv, TypeOK
<1> DEFINE RestAt(pc) == worker' \in WorkerRecords /\ worker'.pc = pc /\ worker'.job = NoJob
<1>9. Noop \in ProposalRecords
  BY DEF Noop, ProposalRecords, TextsOrNone
<1>10. CASE Take
  <2>1. PICK j \in Jobs : /\ job' = [job EXCEPT ![j] = "running"]
                          /\ worker' = [Rest("taken") EXCEPT !.job = j]
    BY <1>10 DEF Take
  <2>2. worker' \in WorkerRecords /\ worker'.pc = "taken" /\ worker'.job = j
    BY <2>1, <1>9 DEF Rest, WorkerRecords
  <2> QED BY <1>10, <2>1, <2>2 DEF Take, TypeInv, TypeOK
<1>11. CASE Extract
  <2>1. PICK p \in Proposals :
          worker' = [worker EXCEPT !.proposal = p,
                                   !.pc = IF p = Noop THEN "skipped" ELSE "proposed"]
    BY <1>11 DEF Extract
  <2>2. p = Noop \/ (p \in ProposalRecords /\ p.target \in Memories /\ p.text \in Texts)
    <3>1. CASE p \in [op : {"create"}, target : {worker.job}, base : {0}, text : Texts]
      <4>1. worker.job \in Jobs BY <1>11 DEF Extract, TypeInv, TypeOK
      <4> QED BY <3>1, <4>1 DEF ProposalRecords, Memories, TextsOrNone
    <3>2. ASSUME NEW m \in Memories,
                 p \in [op : {"update"}, target : {m}, base : {item[m].version}, text : Texts]
          PROVE  p \in ProposalRecords /\ p.target \in Memories /\ p.text \in Texts
      <4>1. item[m].version \in Nat BY DEF TypeInv, TypeOK, Items
      <4> QED BY <3>2, <4>1 DEF ProposalRecords, TextsOrNone
    <3> QED BY <3>1, <3>2 DEF Proposals
  <2>3. worker' \in WorkerRecords /\ worker'.job = worker.job /\ worker'.proposal = p
        /\ worker'.pc = (IF p = Noop THEN "skipped" ELSE "proposed")
    BY <2>1, <2>2, <1>9 DEF TypeInv, WorkerRecords
  <2> QED BY <1>11, <2>2, <2>3 DEF Extract, TypeInv, TypeOK
<1> DEFINE Moves == /\ worker' \in WorkerRecords /\ worker'.job = worker.job
                    /\ worker'.proposal = worker.proposal
<1>12. CASE Decide
  <2>1. /\ Moves /\ worker'.pc \in {"succeeded", "skipped", "locked"}
        /\ worker'.pc = "locked" => lock' = "worker"
        /\ worker'.pc # "locked" => lock' = lock
    BY <1>12 DEF Decide, TypeInv, WorkerRecords
  <2>2. guard' \in [Memories -> GuardRows]
    <3>1. worker.proposal.target \in Memories BY <1>12 DEF Decide, TypeInv
    <3>2. worker.job \in Jobs BY <1>12 DEF Decide, TypeInv, TypeOK
    <3>3. ASSUME NEW g \in GuardRows PROVE Confirmed(g, worker.proposal.target, worker.job) \in GuardRows
      <4>1. item[worker.proposal.target].version \in Nat BY <3>1 DEF TypeInv, TypeOK, Items
      <4> QED BY <3>2, <4>1 DEF Confirmed, GuardRows
    <3>4. Confirmed(Guard(worker.proposal.target), worker.proposal.target, worker.job) \in GuardRows
      BY <3>1, <3>3, GuardType
    <3> QED BY <1>12, <3>1, <3>4 DEF Decide, TypeInv, TypeOK
  <2> QED BY <1>12, <2>1, <2>2 DEF Decide, TypeInv, TypeOK
<1>13. CASE AutomaticStore
  <2>1. worker.proposal.target \in Memories /\ worker.proposal.text \in Texts /\ worker.job \in Jobs
    BY <1>13 DEF AutomaticStore, TypeInv, TypeOK
  <2>2. item' \in [Memories -> Items]
    <3>1. Guard(worker.proposal.target).version + 1 \in Nat BY <2>1, GuardType DEF GuardRows
    <3>2. [version |-> Guard(worker.proposal.target).version + 1, by |-> worker.job,
           text |-> worker.proposal.text] \in Items
      BY <2>1, <3>1 DEF Items
    <3> QED BY <1>13, <2>1, <3>2 DEF AutomaticStore, TypeInv, TypeOK
  <2>3. Moves /\ worker'.pc = "stored"
    BY <1>13 DEF AutomaticStore, TypeInv, WorkerRecords
  <2> QED BY <1>13, <2>1, <2>2, <2>3 DEF AutomaticStore, TypeInv, TypeOK
<1>14. CASE AutomaticCommit
  <2>1. worker.proposal.target \in Memories /\ worker.job \in Jobs
    BY <1>14 DEF AutomaticCommit, TypeInv, TypeOK
  <2>2. guard' \in [Memories -> GuardRows]
    <3>1. item[worker.proposal.target].version \in Nat BY <2>1 DEF TypeInv, TypeOK, Items
    <3>2. AutomaticGuard(guard[worker.proposal.target], worker.job) \in GuardRows
      <4>1. guard[worker.proposal.target] \in GuardRows BY <2>1 DEF TypeInv, TypeOK
      <4> QED BY <2>1, <3>1, <4>1 DEF AutomaticGuard, GuardRows
    <3> QED BY <1>14, <2>1, <3>2 DEF AutomaticCommit, TypeInv, TypeOK
  <2>3. Moves /\ worker'.pc = "succeeded"
    BY <1>14 DEF AutomaticCommit, TypeInv, WorkerRecords
  <2> QED BY <1>14, <2>1, <2>2, <2>3 DEF AutomaticCommit, TypeInv, TypeOK
<1>15. CASE Finish
  <2>1. Moves /\ worker'.pc = "finished"
    BY <1>15 DEF Finish, TypeInv, WorkerRecords
  <2> QED BY <1>15, <2>1 DEF Finish, Recorded, Terminal, TypeInv, TypeOK
<1>16. CASE Done
  <2>1. RestAt("idle") BY <1>16, <1>9 DEF Done, Rest, WorkerRecords
  <2> QED BY <1>16, <2>1 DEF Done, TypeInv, TypeOK
<1>17. CASE WorkerFails
  <2>1. Moves /\ worker'.pc = "failing"
    BY <1>17 DEF WorkerFails, TypeInv, WorkerRecords
  <2> QED BY <1>17, <2>1 DEF WorkerFails, Released, TypeInv, TypeOK
<1>18. CASE Fail
  <2>1. RestAt("idle") BY <1>18, <1>9 DEF Fail, Rest, WorkerRecords
  <2> QED BY <1>18, <2>1 DEF Fail, Recorded, Terminal, TypeInv, TypeOK
<1>19. CASE LoseJob
  <2>1. RestAt("idle") BY <1>19, <1>9 DEF LoseJob, Rest, WorkerRecords
  <2> QED BY <1>19, <2>1 DEF LoseJob, TypeInv, TypeOK
<1>20. CASE Halt
  <2>1. RestAt("down") BY <1>20, <1>9 DEF Halt, Rest, WorkerRecords
  <2>2. manual' \in ManualRecords /\ manual'.pc = "none"
    <3>1. NoRow \in GuardRows BY DEF NoRow, GuardRows
    <3> QED BY <1>20, <3>1 DEF Halt, NoRequest, ManualRecords, TextsOrNone
  <2> QED BY <1>20, <2>1, <2>2 DEF Halt, TypeInv, TypeOK
<1>21. CASE Restart
  <2>1. RestAt("idle") BY <1>21, <1>9 DEF Restart, Rest, WorkerRecords
  <2> QED BY <1>21, <2>1 DEF Restart, Interrupted, Terminal, TypeInv, TypeOK
<1>22. CASE StartFails
  <2>1. RestAt("absent") BY <1>22, <1>9 DEF StartFails, Rest, WorkerRecords
  <2> QED BY <1>22, <2>1 DEF StartFails, TypeInv, TypeOK
<1>23. CASE UNCHANGED vars
  BY <1>23 DEF vars, TypeInv, TypeOK
<1> QED
  BY <1>1, <1>2, <1>3, <1>4, <1>5, <1>6, <1>7, <1>8, <1>10, <1>11, <1>12, <1>13, <1>14,
     <1>15, <1>16, <1>17, <1>18, <1>19, <1>20, <1>21, <1>22, <1>23
  DEF Next, RequestStep, WorkerStep

\* Every reachable state has its types, and the user's lock is held exactly by the worker
\* or the request that is between taking it and its commit.
THEOREM MemoryTypeCorrect == Spec => []TypeOK
<1>1. TypeInv => TypeOK BY DEF TypeInv
<1> QED BY <1>1, InitTypeInv, NextTypeInv, PTL DEF Spec

-----------------------------------------------------------------------------
(* The two stores                                                          *)

\* a transaction has written the item of m and not yet its guard row
Between(m) ==
  \/ manual.pc = "stored" /\ manual.target = m
  \/ worker.pc = "stored" /\ worker.proposal.target = m

\* what StoresAgree says of a memory nobody is mutating
Together(m) ==
  /\ guard[m].row => (Present(m) <=> ~guard[m].deleted)
  /\ Present(m) => /\ guard[m].row
                   /\ item[m].version = guard[m].version
                   /\ item[m].by = guard[m].by

\* StoresAgree is not inductive: it says nothing while a transaction is between its two
\* writes.  Then the item is the one whose row the transaction is about to commit.
StoreInv ==
  /\ \A m \in Memories : item[m].version <= Guard(m).version + 1
  /\ \A m \in Memories : m \in torn \/ Between(m) \/ Together(m)
  /\ manual.pc # "none" =>
       /\ manual.guard.row = TRUE /\ manual.guard.by = NoJob
       /\ manual.guard.deleted <=> manual.op = "delete"
       /\ manual.guard.version > 0
  /\ manual.pc = "locked" => manual.guard.version = Guard(manual.target).version + 1
  /\ manual.pc = "stored" =>
       /\ manual.op = "delete" => item[manual.target] = NoItem
       /\ manual.op = "write" => /\ item[manual.target].version = manual.guard.version
                                 /\ item[manual.target].by = NoJob
  /\ worker.pc = "stored" => item[worker.proposal.target].by = worker.job

\* The row a mutation works with, before and after a step.
LEMMA GuardFields ==
  ASSUME NEW m \in Memories
  PROVE  /\ guard[m].row => Guard(m) = guard[m]
         /\ ~guard[m].row => /\ Guard(m).version = item[m].version
                             /\ Guard(m).by = item[m].by
                             /\ Guard(m).manualAt = 0 /\ Guard(m).row = TRUE
BY DEF Guard, NoRow

\* The same after a step.
LEMMA NextGuardFields ==
  ASSUME NEW m \in Memories
  PROVE  /\ guard'[m].row => Guard(m)' = guard'[m]
         /\ ~guard'[m].row => Guard(m)'.version = item'[m].version
BY DEF Guard, NoRow

\* That row depends on the memory's guard and item only.
LEMMA SameGuard ==
  ASSUME NEW m \in Memories, guard'[m] = guard[m], item'[m] = item[m]
  PROVE  Guard(m)' = Guard(m)
BY DEF Guard

\* A step that leaves the stores and the request alone, outside the worker's transaction.
LEMMA StoreFrame ==
  ASSUME StoreInv, UNCHANGED <<guard, item, manual, torn>>,
         worker.pc # "stored", worker'.pc # "stored"
  PROVE  StoreInv'
BY DEF StoreInv, Between, Together, Present, Guard

\* An item with a version, or one written by a job, is there.
LEMMA WrittenIsPresent ==
  ASSUME NEW m \in Memories, item[m].version # 0 \/ item[m].by # NoJob
  PROVE  Present(m)
BY DEF Present, NoItem

\* Store and guard start out together.
LEMMA InitStoreInv == Init => StoreInv
BY DEF Init, StoreInv, Between, Together, Present, Guard, NoItem, NoRow, NoRequest, Rest

\* A manual change that takes the lock keeps the store invariant.
LEMMA ManualBeginStore ==
  ASSUME TypeInv, StoreInv, NEW op \in {"write", "delete"}, NEW m \in Memories,
         NEW t \in TextsOrNone, ManualBegin(op, m, t)
  PROVE  StoreInv'
<1>1. /\ manual'.pc = "locked" /\ manual'.target = m /\ manual'.op = op
      /\ manual'.guard = ManualGuard(op, Guard(m), clock + 1)
  BY DEF ManualBegin
<1>2. /\ Guard(m) \in GuardRows /\ Guard(m).row = TRUE
  <2>1. guard[m] \in GuardRows BY DEF TypeInv, TypeOK
  <2>2. guard[m].row \in BOOLEAN BY <2>1 DEF GuardRows
  <2>3. CASE guard[m].row BY <2>3, <2>2, GuardType DEF Guard
  <2>4. CASE ~guard[m].row BY <2>4, GuardType DEF Guard, NoRow
  <2> QED BY <2>3, <2>4
<1>3. /\ manual'.guard.version = Guard(m).version + 1
      /\ manual'.guard.row = TRUE /\ manual'.guard.by = NoJob
      /\ manual'.guard.deleted = (op = "delete")
  BY <1>1, <1>2, Zenon DEF ManualGuard, GuardRows
<1>4. manual'.guard.version > 0
  BY <1>2, <1>3 DEF GuardRows
<1>5. Guard(m)' = Guard(m)
  BY DEF ManualBegin, Guard
<1>6. \A n \in Memories : item'[n].version <= Guard(n)'.version + 1
  BY DEF ManualBegin, StoreInv, Guard
<1>7. \A n \in Memories : n \in torn' \/ Between(n)' \/ Together(n)'
  BY <1>1 DEF ManualBegin, StoreInv, Between, Together, Present
<1>8. worker'.pc = "stored" => item'[worker'.proposal.target].by = worker'.job
  BY DEF ManualBegin, StoreInv
<1>9. manual'.guard.deleted <=> manual'.op = "delete"
  BY <1>1, <1>3
<1> QED BY <1>1, <1>3, <1>4, <1>5, <1>6, <1>7, <1>8, <1>9 DEF StoreInv

\* Store and guard row differ only while a mutation holds the lock between its two writes.
LEMMA NextStoreInv == TypeInv /\ StoreInv /\ [Next]_vars => StoreInv'
<1> SUFFICES ASSUME TypeInv, StoreInv, [Next]_vars PROVE StoreInv'
  OBVIOUS
<1> USE MemoryAssumption
<1>1. ASSUME NEW j \in Jobs, Capture(j) \/ Register(j) PROVE StoreInv'
  BY <1>1 DEF Capture, Register, StoreInv, Between, Together, Present, Guard
<1>2. ASSUME NEW m \in Memories, NEW t \in Texts, CreateManual(m, t) \/ UpdateManual(m, t)
      PROVE StoreInv'
  BY <1>2, ManualBeginStore DEF CreateManual, UpdateManual, TextsOrNone
<1>3. ASSUME NEW m \in Memories, DeleteManual(m) PROVE StoreInv'
  BY <1>3, ManualBeginStore DEF DeleteManual, TextsOrNone
<1>4. CASE ManualStore
  <2>1. PICK m \in Memories : m = manual.target /\ manual.op \in {"write", "delete"}
    BY <1>4 DEF ManualStore, TypeInv, ManualRecords
  <2>2. /\ manual'.pc = "stored" /\ manual'.target = m /\ manual'.op = manual.op
        /\ manual'.guard = manual.guard
    BY <1>4, <2>1 DEF ManualStore, TypeInv, ManualRecords
  <2>3. \A n \in Memories \ {m} : item'[n] = item[n]
    BY <1>4, <2>1 DEF ManualStore, TypeInv, TypeOK
  <2>4. /\ manual.op = "delete" => item'[m] = NoItem
        /\ manual.op = "write" => item'[m] = [version |-> manual.guard.version, by |-> NoJob,
                                              text |-> manual.text]
    BY <1>4, <2>1 DEF ManualStore, TypeInv, TypeOK
  <2>5. guard' = guard /\ worker' = worker /\ torn' = torn
    BY <1>4 DEF ManualStore
  <2>6. item'[m].version <= Guard(m)'.version + 1
    <3>1. Guard(m).version \in Nat BY <2>1, GuardType DEF GuardRows
    <3>2. CASE guard[m].row
      <4>1. Guard(m)' = Guard(m) BY <2>1, <2>3, <2>5, <3>2, GuardFields, NextGuardFields
      <4> QED BY <1>4, <2>1, <2>4, <3>1, <4>1 DEF ManualStore, StoreInv, NoItem
    <3>3. CASE ~guard[m].row
      <4>1. Guard(m)'.version = item'[m].version BY <2>1, <2>5, <3>3, NextGuardFields
      <4>2. item'[m].version \in Nat
        BY <2>1, <2>4 DEF TypeInv, ManualRecords, GuardRows, NoItem
      <4> QED BY <4>1, <4>2
    <3> QED BY <3>2, <3>3
  <2>7. \A n \in Memories : item'[n].version <= Guard(n)'.version + 1
    BY <2>3, <2>5, <2>6, SameGuard DEF StoreInv
  <2>8. \A n \in Memories : n \in torn' \/ Between(n)' \/ Together(n)'
    BY <2>1, <2>2, <2>3, <2>5 DEF StoreInv, Between, Together, Present
  <2>9. worker.pc # "stored"
    BY <1>4 DEF ManualStore, TypeInv, TypeOK
  <2> QED BY <1>4, <2>1, <2>2, <2>4, <2>5, <2>7, <2>8, <2>9 DEF StoreInv, ManualStore
<1>5. CASE ManualCommit
  <2>1. PICK m \in Memories : m = manual.target /\ manual.op \in {"write", "delete"}
    BY <1>5 DEF ManualCommit, TypeInv, ManualRecords
  <2>2. /\ guard' = [guard EXCEPT ![m] = manual.guard] /\ item' = item /\ worker' = worker
        /\ torn' = torn \ {m} /\ manual'.pc = "none"
    BY <1>5, <2>1 DEF ManualCommit, NoRequest
  <2>3. guard'[m] = manual.guard /\ \A n \in Memories \ {m} : guard'[n] = guard[n]
    BY <2>1, <2>2 DEF TypeInv, TypeOK
  <2>4. worker.pc # "stored"
    BY <1>5 DEF ManualCommit, TypeInv, TypeOK
  <2>5. Together(m)' /\ item'[m].version <= Guard(m)'.version + 1
    <3>1. manual.guard.version \in Nat
      BY DEF TypeInv, ManualRecords, GuardRows
    <3>2. CASE manual.op = "delete"
      BY <1>5, <2>1, <2>2, <2>3, <3>1, <3>2 DEF ManualCommit, StoreInv, Together, Present, Guard, NoItem
    <3>3. CASE manual.op = "write"
      <4>1. Present(m)
        BY <1>5, <2>1, <3>1, <3>3, WrittenIsPresent DEF ManualCommit, StoreInv
      <4>2. Present(m)' BY <2>2, <4>1 DEF Present
      <4>3. ~guard'[m].deleted /\ guard'[m].row
        BY <1>5, <2>3, <3>3 DEF ManualCommit, StoreInv
      <4>4. item'[m].version = guard'[m].version /\ item'[m].by = guard'[m].by
        BY <1>5, <2>1, <2>2, <2>3, <3>3 DEF ManualCommit, StoreInv
      <4>5. Guard(m)' = guard'[m] BY <4>3, NextGuardFields
      <4> QED BY <2>3, <3>1, <4>2, <4>3, <4>4, <4>5 DEF Together
    <3> QED BY <2>1, <3>2, <3>3
  <2>6. \A n \in Memories : item'[n].version <= Guard(n)'.version + 1
    BY <2>2, <2>3, <2>5, SameGuard DEF StoreInv
  <2>7. \A n \in Memories \ {m} : n \in torn' \/ Between(n)' \/ Together(n)'
    BY <2>1, <2>2, <2>3 DEF StoreInv, Between, Together, Present
  <2> QED BY <2>2, <2>4, <2>5, <2>6, <2>7 DEF StoreInv
<1>6. CASE ManualFails
  <2>1. guard' = guard /\ item' = item /\ worker' = worker /\ manual'.pc = "none"
    BY <1>6 DEF ManualFails, NoRequest
  <2>2. \A n \in Memories : n \in torn' \/ Between(n)' \/ Together(n)'
    BY <1>6, <2>1 DEF ManualFails, StoreInv, Between, Together, Present
  <2>3. \A n \in Memories : item'[n].version <= Guard(n)'.version + 1
    BY <2>1 DEF StoreInv, Guard
  <2> QED BY <2>1, <2>2, <2>3 DEF StoreInv
<1>7. CASE Cleanup \/ Take \/ Extract \/ Finish \/ Done \/ Fail \/ LoseJob \/ Restart \/ StartFails
  <2>1. UNCHANGED <<guard, item, manual, torn>> /\ worker.pc # "stored"
    BY <1>7 DEF Cleanup, Take, Extract, Finish, Done, Fail, LoseJob, Restart, StartFails
  <2>2. worker'.pc # "stored"
    <3>1. CASE Cleanup BY <2>1, <3>1 DEF Cleanup
    <3>2. CASE Take BY <3>2 DEF Take, Rest
    <3>3. CASE Extract BY <3>3 DEF Extract, TypeInv, WorkerRecords
    <3>4. CASE Finish BY <3>4 DEF Finish, TypeInv, WorkerRecords
    <3>5. CASE Done \/ Fail \/ LoseJob \/ Restart \/ StartFails
      BY <3>5 DEF Done, Fail, LoseJob, Restart, StartFails, Rest
    <3> QED BY <1>7, <3>1, <3>2, <3>3, <3>4, <3>5
  <2> QED BY <2>1, <2>2, StoreFrame
<1>8. CASE Decide
  <2>0. PICK j \in Jobs : j = worker.job /\ j # NoJob
    BY <1>8 DEF Decide, TypeInv, TypeOK
  <2>1. PICK m \in Memories : m = worker.proposal.target
    BY <1>8 DEF Decide, TypeInv
  <2>2. worker'.pc # "stored" /\ manual.pc = "none" /\ worker.pc # "stored"
        /\ UNCHANGED <<item, manual, torn>>
    BY <1>8 DEF Decide, TypeInv, TypeOK, WorkerRecords
  <2>3. CASE guard' = guard
    BY <2>2, <2>3, StoreFrame
  <2>4. CASE guard' # guard
    <3>1. /\ Guard(m).by = j \/ item[m].by = j
          /\ guard' = [guard EXCEPT ![m] = Confirmed(Guard(m), m, j)]
      BY <1>8, <2>0, <2>1, <2>4 DEF Decide
    <3>2. guard'[m] = Confirmed(Guard(m), m, j) /\ \A n \in Memories \ {m} : guard'[n] = guard[n]
      BY <2>1, <3>1 DEF TypeInv, TypeOK
    <3>3. Guard(m) \in GuardRows /\ item[m] \in Items
      BY <2>1, GuardType DEF TypeInv, TypeOK
    <3>4. Guard(m).row = TRUE
      <4>1. guard[m].row \in BOOLEAN BY <2>1 DEF TypeInv, TypeOK, GuardRows
      <4>2. CASE guard[m].row BY <4>1, <4>2 DEF Guard
      <4>3. CASE ~guard[m].row BY <4>3, GuardFields
      <4> QED BY <4>2, <4>3
    <3>5. guard'[m].row = TRUE
      BY <3>2, <3>3, <3>4 DEF Confirmed, GuardRows
    <3>6. item'[m].version <= Guard(m)'.version + 1
      <4>1. Guard(m)' = guard'[m] BY <3>5, NextGuardFields
      <4>2. item[m].version \in Nat /\ Guard(m).version \in Nat
            /\ item[m].version <= Guard(m).version + 1
        BY <2>1, <3>3 DEF StoreInv, GuardRows, Items
      <4>3. guard'[m].version >= Guard(m).version /\ guard'[m].version \in Nat
        BY <3>2, <3>3, <4>2 DEF Confirmed, GuardRows
      <4> QED BY <2>2, <4>1, <4>2, <4>3
    <3>7. \A n \in Memories : item'[n].version <= Guard(n)'.version + 1
      BY <2>2, <3>2, <3>6, SameGuard DEF StoreInv
    <3>8. m \in torn
      <4> SUFFICES ASSUME m \notin torn PROVE FALSE
        OBVIOUS
      <4>1. Together(m) BY <2>1, <2>2 DEF StoreInv, Between
      <4>2. CASE guard[m].row
        <5>1. Guard(m) = guard[m] BY <4>2 DEF Guard
        <5>2. guard[m].by = j
          BY <2>1, <3>1, <4>1, <5>1, WrittenIsPresent DEF Together
        <5>3. guard'[m] = guard[m] BY <3>2, <5>1, <5>2 DEF Confirmed
        <5>4. guard' = guard
          <6>1. guard \in [Memories -> GuardRows] BY DEF TypeInv, TypeOK
          <6> QED BY <3>1, <3>2, <5>3, <6>1
        <5> QED BY <2>4, <5>4
      <4>3. CASE ~guard[m].row
        <5>1. Guard(m).by = item[m].by BY <4>3, GuardFields
        <5>2. Present(m) BY <2>1, <3>1, <5>1, WrittenIsPresent
        <5> QED BY <4>1, <4>3, <5>2 DEF Together
      <4> QED BY <4>2, <4>3
    <3>9. \A n \in Memories : n \in torn' \/ Between(n)' \/ Together(n)'
      BY <2>2, <3>2, <3>8 DEF StoreInv, Between, Together, Present
    <3> QED BY <2>2, <3>7, <3>9 DEF StoreInv
  <2> QED BY <2>3, <2>4
<1>9. CASE AutomaticStore
  <2>1. PICK m \in Memories : m = worker.proposal.target /\ manual.pc = "none"
    BY <1>9 DEF AutomaticStore, TypeInv, TypeOK
  <2>2. /\ worker'.pc = "stored" /\ worker'.job = worker.job
        /\ worker'.proposal = worker.proposal
    BY <1>9 DEF AutomaticStore, TypeInv, WorkerRecords
  <2>3. /\ \A n \in Memories \ {m} : item'[n] = item[n]
        /\ item'[m].version = Guard(m).version + 1 /\ item'[m].by = worker.job
        /\ UNCHANGED <<guard, manual, torn>>
    BY <1>9, <2>1 DEF AutomaticStore, TypeInv, TypeOK
  <2>4. item'[m].version <= Guard(m)'.version + 1
    <3>1. Guard(m).version \in Nat BY <2>1, GuardType DEF GuardRows
    <3>2. CASE guard[m].row
      <4>1. guard'[m] = guard[m] BY <2>3
      <4>2. Guard(m)' = Guard(m) BY <3>2, <4>1, GuardFields, NextGuardFields
      <4> QED BY <2>3, <3>1, <4>2
    <3>3. CASE ~guard[m].row
      <4>1. Guard(m)'.version = item'[m].version BY <2>3, <3>3, NextGuardFields
      <4> QED BY <2>3, <3>1, <4>1
    <3> QED BY <3>2, <3>3
  <2>5. \A n \in Memories : item'[n].version <= Guard(n)'.version + 1
    BY <2>3, <2>4, SameGuard DEF StoreInv
  <2>6. \A n \in Memories : n \in torn' \/ Between(n)' \/ Together(n)'
    BY <1>9, <2>2, <2>3 DEF AutomaticStore, StoreInv, Between, Together, Present
  <2> QED BY <2>1, <2>2, <2>3, <2>5, <2>6 DEF StoreInv
<1>10. CASE AutomaticCommit
  <2>1. PICK m \in Memories : /\ m = worker.proposal.target /\ manual.pc = "none"
                               /\ worker.job \in Jobs /\ worker.job # NoJob
    BY <1>10 DEF AutomaticCommit, TypeInv, TypeOK
  <2>2. /\ worker'.pc = "succeeded" /\ UNCHANGED <<item, manual>> /\ torn' = torn \ {m}
    BY <1>10, <2>1 DEF AutomaticCommit, TypeInv, WorkerRecords
  <2>3. /\ guard'[m] = AutomaticGuard(guard[m], worker.job)
        /\ \A n \in Memories \ {m} : guard'[n] = guard[n]
    BY <1>10, <2>1 DEF AutomaticCommit, TypeInv, TypeOK
  <2>4. /\ guard'[m].row = TRUE /\ guard'[m].deleted = FALSE
        /\ guard'[m].version = item[m].version /\ guard'[m].by = worker.job
    <3>1. guard[m] \in GuardRows BY <2>1 DEF TypeInv, TypeOK
    <3> QED BY <2>1, <2>3, <3>1 DEF AutomaticGuard, GuardRows
  <2>5. item[m].by = worker.job /\ Present(m)
    BY <1>10, <2>1, WrittenIsPresent DEF AutomaticCommit, StoreInv
  <2>6. Together(m)'
    BY <2>2, <2>4, <2>5 DEF Together, Present
  <2>7. item'[m].version <= Guard(m)'.version + 1
    <3>1. item[m].version \in Nat BY <2>1 DEF TypeInv, TypeOK, Items
    <3> QED BY <2>2, <2>4, <3>1, NextGuardFields
  <2>8. \A n \in Memories : item'[n].version <= Guard(n)'.version + 1
    BY <2>2, <2>3, <2>7, SameGuard DEF StoreInv
  <2>9. \A n \in Memories \ {m} : n \in torn' \/ Between(n)' \/ Together(n)'
    BY <2>1, <2>2, <2>3 DEF StoreInv, Between, Together, Present
  <2> QED BY <2>1, <2>2, <2>6, <2>8, <2>9 DEF StoreInv
<1>11. CASE WorkerFails
  <2>1. UNCHANGED <<guard, item, manual>> /\ worker'.pc = "failing"
    BY <1>11 DEF WorkerFails, TypeInv, WorkerRecords
  <2>2. \A n \in Memories : n \in torn' \/ Between(n)' \/ Together(n)'
    BY <1>11, <2>1 DEF WorkerFails, StoreInv, Between, Together, Present
  <2> QED BY <2>1, <2>2 DEF StoreInv, Guard
<1>12. CASE Halt
  <2>1. UNCHANGED <<guard, item>> /\ worker'.pc = "down" /\ manual'.pc = "none"
    BY <1>12 DEF Halt, Rest, NoRequest
  <2>2. \A n \in Memories : n \in torn' \/ Between(n)' \/ Together(n)'
    BY <1>12, <2>1 DEF Halt, StoreInv, Between, Together, Present
  <2> QED BY <2>1, <2>2 DEF StoreInv, Guard
<1>13. CASE UNCHANGED vars
  BY <1>13 DEF vars, StoreInv, Between, Together, Present, Guard
<1> QED
  BY <1>1, <1>2, <1>3, <1>4, <1>5, <1>6, <1>7, <1>8, <1>9, <1>10, <1>11, <1>12, <1>13
  DEF Next, RequestStep, WorkerStep

\* The store and the guard rows agree on every memory nobody is mutating, unless the last
\* mutation of it lost its transaction after it had written the item.
THEOREM StoresStayTogether == Spec => []StoresAgree
<1>1. TypeInv /\ StoreInv => StoresAgree
  BY DEF TypeInv, TypeOK, StoreInv, StoresAgree, Between, Together
<1> QED BY <1>1, InitTypeInv, NextTypeInv, InitStoreInv, NextStoreInv, PTL DEF Spec

-----------------------------------------------------------------------------
(* Mutations by hand win                                                   *)

\* ManualWins compares times of two different events, so it needs that no capture and no
\* mutation by hand share one, that the guard row remembers the last answered mutation,
\* and that the check under the lock still holds when the item is written.
TimeInv ==
  /\ \A m \in Memories : /\ answered[m] = guard[m].manualAt
                         /\ guard[m].manualAt <= clock
                         /\ ~guard[m].row => guard[m].manualAt = 0
  /\ \A j \in Jobs : /\ captured[j] <= clock
                     /\ job[j] # "unborn" => captured[j] > 0
                     /\ worker.job = j => job[j] # "unborn"
                     /\ \A m \in Memories : captured[j] > 0 => guard[m].manualAt # captured[j]
                     /\ manual.pc # "none" => manual.guard.manualAt # captured[j]
  /\ manual.pc # "none" => manual.guard.manualAt > 0 /\ manual.guard.manualAt <= clock
  /\ worker.pc = "locked" =>
       guard[worker.proposal.target].manualAt < captured[worker.job]
  /\ ManualWins

\* No manual change has happened.
LEMMA InitTimeInv == Init => TimeInv
BY MemoryAssumption DEF Init, TimeInv, ManualWins, NoItem, NoRow, NoRequest, Rest

\* A step that leaves times, rows and items alone and whose job, if it has one, is taken
\* from the table.
LEMMA TimeFrame ==
  ASSUME TimeInv, UNCHANGED <<guard, item, manual, answered, captured, clock>>,
         \A j \in Jobs : job'[j] = "unborn" <=> job[j] = "unborn",
         \A j \in Jobs : worker'.job = j => job[j] # "unborn",
         worker'.pc # "locked"
  PROVE  TimeInv'
BY DEF TimeInv, ManualWins

\* A manual change that begins is later than everything captured before.
LEMMA ManualBeginTime ==
  ASSUME TypeInv, TimeInv, NEW op \in {"write", "delete"}, NEW m \in Memories,
         NEW t \in TextsOrNone, ManualBegin(op, m, t)
  PROVE  TimeInv'
<1>1. Guard(m) \in GuardRows /\ clock \in Nat
  BY GuardType DEF TypeInv, TypeOK
<1>2. manual'.guard.manualAt = clock + 1
  <2>1. manual'.guard = ManualGuard(op, Guard(m), clock + 1) BY DEF ManualBegin
  <2> QED BY <1>1, <2>1, Zenon DEF ManualGuard, GuardRows
<1>3. \A j \in Jobs : captured[j] \in Nat
  BY DEF TypeInv, TypeOK
<1>4. \A n \in Memories : guard[n].manualAt \in Nat
  BY DEF TypeInv, TypeOK, GuardRows
<1>5. UNCHANGED <<guard, item, answered, captured, job, worker>> /\ clock' = clock + 1
  BY DEF ManualBegin
<1> QED BY <1>1, <1>2, <1>3, <1>4, <1>5 DEF TimeInv, ManualWins

\* An automatic change carries the time of its capture through every step.
LEMMA NextTimeInv == TypeInv /\ StoreInv /\ TimeInv /\ [Next]_vars => TimeInv'
<1> SUFFICES ASSUME TypeInv, StoreInv, TimeInv, [Next]_vars PROVE TimeInv'
  OBVIOUS
<1> USE MemoryAssumption
<1>0. /\ clock \in Nat /\ \A j \in Jobs : captured[j] \in Nat
      /\ \A m \in Memories : guard[m].manualAt \in Nat /\ answered[m] \in Nat
  BY DEF TypeInv, TypeOK, GuardRows
<1>1. ASSUME NEW k \in Jobs, Capture(k) PROVE TimeInv'
  <2>1. /\ captured'[k] = clock + 1 /\ \A j \in Jobs \ {k} : captured'[j] = captured[j]
        /\ job'[k] = "captured" /\ \A j \in Jobs \ {k} : job'[j] = job[j]
        /\ clock' = clock + 1 /\ UNCHANGED <<guard, item, manual, worker, answered>>
        /\ job[k] = "unborn"
    BY <1>1 DEF Capture, TypeInv, TypeOK
  <2>2. worker.job # k BY <2>1 DEF TimeInv
  <2>3. worker.pc = "locked" => worker.job \in Jobs BY DEF TypeInv, TypeOK
  <2>4. manual.pc # "none" => manual.guard.manualAt \in Nat
    BY DEF TypeInv, ManualRecords, GuardRows
  <2>5. ManualWins'
    BY <1>0, <2>1 DEF TimeInv, ManualWins
  <2>6. \A j \in Jobs : /\ captured'[j] <= clock'
                        /\ job'[j] # "unborn" => captured'[j] > 0
                        /\ worker'.job = j => job'[j] # "unborn"
                        /\ \A m \in Memories : captured'[j] > 0 => guard'[m].manualAt # captured'[j]
                        /\ manual'.pc # "none" => manual'.guard.manualAt # captured'[j]
    <3> TAKE j \in Jobs
    <3>1. CASE j = k BY <1>0, <2>1, <2>4, <3>1 DEF TimeInv
    <3>2. CASE j # k BY <1>0, <2>1, <3>2 DEF TimeInv
    <3> QED BY <3>1, <3>2
  <2> QED BY <1>0, <2>1, <2>2, <2>3, <2>4, <2>5, <2>6 DEF TimeInv
<1>2. ASSUME NEW k \in Jobs, Register(k) PROVE TimeInv'
  BY <1>2 DEF Register, TimeInv, ManualWins, TypeInv, TypeOK
<1>3. ASSUME NEW m \in Memories, NEW t \in Texts, CreateManual(m, t) \/ UpdateManual(m, t)
      PROVE TimeInv'
  BY <1>3, ManualBeginTime DEF CreateManual, UpdateManual, TextsOrNone
<1>4. ASSUME NEW m \in Memories, DeleteManual(m) PROVE TimeInv'
  BY <1>4, ManualBeginTime DEF DeleteManual, TextsOrNone
<1>5. CASE ManualStore
  <2>1. PICK m \in Memories : m = manual.target /\ manual.op \in {"write", "delete"}
    BY <1>5 DEF ManualStore, TypeInv, ManualRecords
  <2>2. /\ \A n \in Memories \ {m} : item'[n] = item[n]
        /\ item'[m].by = NoJob
        /\ UNCHANGED <<guard, worker, answered, captured, clock, job>>
    BY <1>5, <2>1 DEF ManualStore, TypeInv, TypeOK, NoItem
  <2>3. manual'.guard = manual.guard /\ manual.pc # "none"
    BY <1>5 DEF ManualStore, TypeInv, ManualRecords
  <2>4. ManualWins'
    BY <2>2 DEF TimeInv, ManualWins
  <2> QED BY <2>2, <2>3, <2>4 DEF TimeInv
<1>6. CASE ManualCommit
  <2>1. PICK m \in Memories : m = manual.target /\ manual.op \in {"write", "delete"}
    BY <1>6 DEF ManualCommit, TypeInv, ManualRecords
  <2>2. /\ guard'[m] = manual.guard /\ \A n \in Memories \ {m} : guard'[n] = guard[n]
        /\ answered'[m] = manual.guard.manualAt
        /\ \A n \in Memories \ {m} : answered'[n] = answered[n]
        /\ UNCHANGED <<item, worker, captured, clock, job>> /\ manual'.pc = "none"
    BY <1>6, <2>1 DEF ManualCommit, TypeInv, TypeOK, NoRequest
  <2>3. item[m].by = NoJob
    BY <1>6, <2>1 DEF ManualCommit, StoreInv, NoItem
  <2>4. ManualWins'
    BY <2>2, <2>3 DEF TimeInv, ManualWins
  <2>5. worker.pc # "locked"
    BY <1>6 DEF ManualCommit, TypeInv, TypeOK
  <2>6. manual.pc # "none" /\ manual.guard.row = TRUE
    BY <1>6 DEF ManualCommit, StoreInv
  <2>7. \A n \in Memories : /\ answered'[n] = guard'[n].manualAt
                            /\ guard'[n].manualAt <= clock
                            /\ ~guard'[n].row => guard'[n].manualAt = 0
                            /\ \A j \in Jobs : captured[j] > 0 => guard'[n].manualAt # captured[j]
    <3> TAKE n \in Memories
    <3>1. CASE n = m BY <2>2, <2>6, <3>1 DEF TimeInv
    <3>2. CASE n # m BY <2>2, <3>2 DEF TimeInv
    <3> QED BY <3>1, <3>2
  <2> QED BY <2>2, <2>4, <2>5, <2>7 DEF TimeInv
<1>7. CASE ManualFails
  BY <1>7 DEF ManualFails, NoRequest, TimeInv, ManualWins
<1>8. CASE Cleanup
  BY <1>8 DEF Cleanup, Terminal, TimeInv, ManualWins, TypeInv, TypeOK
<1>9. CASE Take
  <2>1. PICK k \in Jobs : /\ job[k] = "pending" /\ job' = [job EXCEPT ![k] = "running"]
                          /\ worker' = [Rest("taken") EXCEPT !.job = k]
    BY <1>9 DEF Take
  <2>2. worker'.pc = "taken" /\ worker'.job = k BY <2>1 DEF Rest
  <2>3. \A j \in Jobs : job'[j] = "unborn" <=> job[j] = "unborn"
    BY <2>1 DEF TypeInv, TypeOK
  <2> QED BY <1>9, <2>1, <2>2, <2>3, TimeFrame DEF Take
<1>10. CASE Extract
  <2>1. worker'.job = worker.job /\ worker'.pc # "locked"
    BY <1>10 DEF Extract, TypeInv, WorkerRecords
  <2>2. \A j \in Jobs : worker'.job = j => job[j] # "unborn"
    BY <2>1 DEF TimeInv
  <2> QED BY <1>10, <2>1, <2>2, TimeFrame DEF Extract
<1>11. CASE Decide
  <2>0. PICK j \in Jobs : j = worker.job
    BY <1>11 DEF Decide, TypeInv, TypeOK
  <2>1. PICK m \in Memories : m = worker.proposal.target
    BY <1>11 DEF Decide, TypeInv
  <2>2. /\ UNCHANGED <<item, manual, answered, captured, clock, job>>
        /\ worker'.job = worker.job /\ worker'.proposal = worker.proposal
    BY <1>11 DEF Decide, TypeInv, WorkerRecords
  <2>3. Guard(m) \in GuardRows /\ Guard(m).manualAt = guard[m].manualAt
    <3>1. Guard(m) \in GuardRows BY <2>1, GuardType
    <3>2. Guard(m).manualAt = guard[m].manualAt
      BY <2>1, GuardFields DEF TimeInv
    <3> QED BY <3>1, <3>2
  <2>4. \A n \in Memories : /\ guard'[n].manualAt = guard[n].manualAt
                            /\ ~guard'[n].row => guard[n].manualAt = 0
    <3>1. CASE guard' = guard BY <3>1 DEF TimeInv
    <3>2. CASE guard' = [guard EXCEPT ![m] = Confirmed(Guard(m), m, j)]
      <4>1. guard'[m] = Confirmed(Guard(m), m, j) /\ \A n \in Memories \ {m} : guard'[n] = guard[n]
        BY <2>1, <3>2 DEF TypeInv, TypeOK
      <4>2. guard'[m].manualAt = Guard(m).manualAt /\ guard'[m].row = Guard(m).row
        BY <2>3, <4>1 DEF Confirmed, GuardRows
      <4>3. ~Guard(m).row => guard[m].manualAt = 0
        BY <2>1, GuardFields DEF TimeInv
      <4> QED BY <2>3, <4>1, <4>2, <4>3 DEF TimeInv
    <3> QED BY <1>11, <2>0, <2>1, <3>1, <3>2 DEF Decide
  <2>5. worker'.pc = "locked" => guard[m].manualAt < captured[j]
    <3> SUFFICES ASSUME worker'.pc = "locked" PROVE guard[m].manualAt < captured[j]
      OBVIOUS
    <3>1. ~Outdated(j, worker.proposal, Guard(m))
      BY <1>11, <2>0, <2>1 DEF Decide, TypeInv, WorkerRecords
    <3>2. ~(Guard(m).manualAt > captured[j])
      BY <3>1 DEF Outdated
    <3>3. captured[j] > 0 BY <2>0 DEF TimeInv
    <3>4. guard[m].manualAt # captured[j] BY <3>3 DEF TimeInv
    <3> QED BY <1>0, <2>3, <3>2, <3>4
  <2>6. ManualWins'
    BY <2>2 DEF TimeInv, ManualWins
  <2> QED BY <2>0, <2>1, <2>2, <2>4, <2>5, <2>6 DEF TimeInv
<1>12. CASE AutomaticStore
  <2>1. PICK m \in Memories : m = worker.proposal.target
    BY <1>12 DEF AutomaticStore, TypeInv
  <2>2. /\ \A n \in Memories \ {m} : item'[n] = item[n]
        /\ item'[m].by = worker.job
        /\ UNCHANGED <<guard, manual, answered, captured, clock, job>>
    BY <1>12, <2>1 DEF AutomaticStore, TypeInv, TypeOK
  <2>3. worker'.pc = "stored" /\ worker'.job = worker.job
    BY <1>12 DEF AutomaticStore, TypeInv, WorkerRecords
  <2>4. answered[m] < captured[worker.job]
    BY <1>12, <2>1 DEF AutomaticStore, TimeInv
  <2>5. ManualWins'
    BY <2>2, <2>4 DEF TimeInv, ManualWins
  <2> QED BY <2>2, <2>3, <2>5 DEF TimeInv
<1>13. CASE AutomaticCommit
  <2>1. PICK m \in Memories : m = worker.proposal.target
    BY <1>13 DEF AutomaticCommit, TypeInv
  <2>2. /\ guard'[m] = AutomaticGuard(guard[m], worker.job)
        /\ \A n \in Memories \ {m} : guard'[n] = guard[n]
        /\ UNCHANGED <<item, manual, answered, captured, clock, job>>
    BY <1>13, <2>1 DEF AutomaticCommit, TypeInv, TypeOK
  <2>3. guard'[m].manualAt = guard[m].manualAt /\ guard'[m].row = TRUE
    <3>1. guard[m] \in GuardRows BY <2>1 DEF TypeInv, TypeOK
    <3> QED BY <2>2, <3>1 DEF AutomaticGuard, GuardRows
  <2>4. worker'.pc = "succeeded" /\ worker'.job = worker.job
    BY <1>13 DEF AutomaticCommit, TypeInv, WorkerRecords
  <2>5. ManualWins'
    BY <2>2 DEF TimeInv, ManualWins
  <2>6. \A n \in Memories : /\ guard'[n].manualAt = guard[n].manualAt
                            /\ ~guard'[n].row => guard[n].manualAt = 0
    BY <2>2, <2>3 DEF TimeInv
  <2> QED BY <2>2, <2>4, <2>5, <2>6 DEF TimeInv
<1>14. CASE Finish \/ WorkerFails
  <2>1. /\ worker'.job = worker.job /\ worker'.pc # "locked"
        /\ UNCHANGED <<guard, item, manual, answered, captured, clock>>
    BY <1>14 DEF Finish, WorkerFails, TypeInv, WorkerRecords
  <2>2. \A j \in Jobs : job'[j] = "unborn" <=> job[j] = "unborn"
    <3>1. CASE WorkerFails BY <3>1 DEF WorkerFails
    <3>2. CASE Finish BY <3>2 DEF Finish, Recorded, TypeInv, TypeOK
    <3> QED BY <1>14, <3>1, <3>2
  <2>3. \A j \in Jobs : worker'.job = j => job[j] # "unborn"
    BY <2>1 DEF TimeInv
  <2> QED BY <2>1, <2>2, <2>3, TimeFrame
<1>15. CASE Done \/ Fail \/ LoseJob \/ Restart \/ StartFails
  <2>1. /\ worker'.job = NoJob /\ worker'.pc # "locked"
        /\ UNCHANGED <<guard, item, manual, answered, captured, clock>>
    BY <1>15 DEF Done, Fail, LoseJob, Restart, StartFails, Rest
  <2>2. \A j \in Jobs : job'[j] = "unborn" <=> job[j] = "unborn"
    <3>1. CASE Done \/ LoseJob \/ StartFails BY <3>1 DEF Done, LoseJob, StartFails
    <3>2. CASE Fail BY <3>2 DEF Fail, Recorded, TypeInv, TypeOK
    <3>3. CASE Restart BY <3>3 DEF Restart, Interrupted, TypeInv, TypeOK
    <3> QED BY <1>15, <3>1, <3>2, <3>3
  <2> QED BY <2>1, <2>2, TimeFrame
<1>16. CASE Halt
  BY <1>16 DEF Halt, Rest, NoRequest, TimeInv, ManualWins, TypeInv, TypeOK
<1>17. CASE UNCHANGED vars
  BY <1>17 DEF vars, TimeInv, ManualWins
<1> QED
  BY <1>1, <1>2, <1>3, <1>4, <1>5, <1>6, <1>7, <1>8, <1>9, <1>10, <1>11, <1>12, <1>13,
     <1>14, <1>15, <1>16, <1>17
  DEF Next, RequestStep, WorkerStep

\* No job's write stands on a memory the user changed or deleted, with an answer, after the
\* job's evidence was captured.
THEOREM HandWins == Spec => []ManualWins
<1>1. TimeInv => ManualWins BY DEF TimeInv
<1> QED BY <1>1, InitTypeInv, NextTypeInv, InitStoreInv, NextStoreInv, InitTimeInv,
           NextTimeInv, PTL DEF Spec

-----------------------------------------------------------------------------
(* The job table                                                           *)

\* What the worker knows of its job's row and of its write, step by step.
JobInv ==
  /\ JobsTellWhatHappened
  /\ \A j \in Jobs : job[j] \in {"unborn", "captured", "dropped", "pending"} => j \notin applied
  /\ worker.pc \in {"taken", "proposed", "locked", "stored", "skipped"} =>
       job[worker.job] = "running" /\ worker.job \notin applied
  /\ worker.pc = "succeeded" => job[worker.job] = "running" /\ worker.job \in applied
  /\ worker.pc = "finished" => job[worker.job] # "running"

\* No job has been claimed.
LEMMA InitJobInv == Init => JobInv
BY DEF Init, JobInv, JobsTellWhatHappened, Rest

\* A step of requests.
LEMMA JobFrame ==
  ASSUME JobInv, UNCHANGED <<job, worker, applied, excused>>
  PROVE  JobInv'
BY DEF JobInv, JobsTellWhatHappened

\* A job's row says what happened to its mutations.
LEMMA NextJobInv == TypeInv /\ JobInv /\ [Next]_vars => JobInv'
<1> SUFFICES ASSUME TypeInv, JobInv, [Next]_vars PROVE JobInv'
  OBVIOUS
<1> USE MemoryAssumption
<1>1. ASSUME NEW k \in Jobs, Capture(k) \/ Register(k) PROVE JobInv'
  <2>1. /\ job[k] \in {"unborn", "captured"}
        /\ job'[k] \in {"captured", "pending", "dropped"}
        /\ \A j \in Jobs \ {k} : job'[j] = job[j]
        /\ UNCHANGED <<worker, applied, excused>>
    BY <1>1 DEF Capture, Register, TypeInv, TypeOK
  <2>2. worker.job = k =>
          worker.pc \notin {"taken", "proposed", "locked", "stored", "succeeded", "skipped"}
    BY <2>1 DEF JobInv
  <2>3. worker.pc \notin {"down", "absent", "idle"} => worker.job \in Jobs
    BY DEF TypeInv, TypeOK
  <2> QED BY <2>1, <2>2, <2>3 DEF JobInv, JobsTellWhatHappened
<1>2. ASSUME NEW m \in Memories,
             \/ \E t \in Texts : CreateManual(m, t) \/ UpdateManual(m, t)
             \/ DeleteManual(m)
      PROVE JobInv'
  BY <1>2, JobFrame DEF CreateManual, UpdateManual, DeleteManual, ManualBegin
<1>3. CASE ManualStore \/ ManualCommit \/ ManualFails
  BY <1>3, JobFrame DEF ManualStore, ManualCommit, ManualFails
<1>4. CASE Cleanup
  BY <1>4 DEF Cleanup, Terminal, JobInv, JobsTellWhatHappened, TypeInv, TypeOK
<1>5. CASE Take
  <2>1. PICK k \in Jobs : /\ job[k] = "pending" /\ job' = [job EXCEPT ![k] = "running"]
                          /\ worker' = [Rest("taken") EXCEPT !.job = k]
    BY <1>5 DEF Take
  <2>2. worker'.pc = "taken" /\ worker'.job = k /\ worker.pc = "idle" /\ worker.job = NoJob
    BY <1>5, <2>1 DEF Take, Rest, TypeInv
  <2>3. job'[k] = "running" /\ \A j \in Jobs \ {k} : job'[j] = job[j]
    BY <2>1 DEF TypeInv, TypeOK
  <2>4. UNCHANGED <<applied, excused>> BY <1>5 DEF Take
  <2> QED BY <2>1, <2>2, <2>3, <2>4 DEF JobInv, JobsTellWhatHappened
<1>6. CASE Extract
  <2>1. /\ worker.pc = "taken" /\ worker'.pc \in {"skipped", "proposed"}
        /\ worker'.job = worker.job /\ UNCHANGED <<job, applied, excused>>
    BY <1>6 DEF Extract, TypeInv, WorkerRecords
  <2> QED BY <2>1 DEF JobInv, JobsTellWhatHappened
<1>7. CASE Decide
  <2>1. /\ worker.pc = "proposed" /\ worker'.pc \in {"succeeded", "skipped", "locked"}
        /\ worker'.job = worker.job /\ UNCHANGED <<job, excused>> /\ worker.job \in Jobs
        /\ applied' = (IF worker'.pc = "succeeded" THEN applied \cup {worker.job} ELSE applied)
    BY <1>7 DEF Decide, TypeInv, TypeOK, WorkerRecords
  <2> QED BY <2>1 DEF JobInv, JobsTellWhatHappened
<1>8. CASE AutomaticStore
  <2>1. /\ worker.pc = "locked" /\ worker'.pc = "stored"
        /\ worker'.job = worker.job /\ UNCHANGED <<job, applied, excused>>
    BY <1>8 DEF AutomaticStore, TypeInv, WorkerRecords
  <2> QED BY <2>1 DEF JobInv, JobsTellWhatHappened
<1>9. CASE AutomaticCommit
  <2>1. /\ worker.pc = "stored" /\ worker'.pc = "succeeded"
        /\ worker'.job = worker.job /\ UNCHANGED <<job, excused>>
        /\ applied' = applied \cup {worker.job} /\ worker.job \in Jobs
    BY <1>9 DEF AutomaticCommit, TypeInv, TypeOK, WorkerRecords
  <2> QED BY <2>1 DEF JobInv, JobsTellWhatHappened
<1>10. CASE Finish
  <2>1. /\ worker.pc \in {"succeeded", "skipped"} /\ worker'.pc = "finished"
        /\ worker'.job = worker.job /\ worker.job \in Jobs /\ UNCHANGED <<applied, excused>>
    BY <1>10 DEF Finish, TypeInv, TypeOK, WorkerRecords
  <2>2. /\ job'[worker.job] = worker.pc
        /\ \A j \in Jobs \ {worker.job} : job'[j] = job[j]
    BY <1>10, <2>1 DEF Finish, Recorded, JobInv, TypeInv, TypeOK
  <2> QED BY <2>1, <2>2 DEF JobInv, JobsTellWhatHappened
<1>11. CASE Done
  <2>1. /\ worker.pc = "finished" /\ worker'.pc = "idle" /\ worker'.job = NoJob
        /\ UNCHANGED <<job, applied, excused>>
    BY <1>11 DEF Done, Rest
  <2> QED BY <2>1 DEF JobInv, JobsTellWhatHappened
<1>12. CASE WorkerFails
  <2>1. /\ worker'.pc = "failing" /\ worker'.job = worker.job
        /\ worker.pc \notin {"down", "absent"} /\ UNCHANGED <<job, applied, excused>>
    BY <1>12 DEF WorkerFails, TypeInv, WorkerRecords
  <2> QED BY <2>1 DEF JobInv, JobsTellWhatHappened
<1>13. CASE Fail
  <2>1. /\ worker.pc = "failing" /\ worker'.pc = "idle" /\ worker'.job = NoJob
        /\ worker.job \in Jobs /\ UNCHANGED <<applied, excused>>
    BY <1>13 DEF Fail, Rest, TypeInv, TypeOK
  <2>2. /\ job'[worker.job] = (IF job[worker.job] = "running" THEN "failed" ELSE job[worker.job])
        /\ \A j \in Jobs \ {worker.job} : job'[j] = job[j]
    BY <1>13, <2>1 DEF Fail, Recorded, TypeInv, TypeOK
  <2> QED BY <2>1, <2>2 DEF JobInv, JobsTellWhatHappened
<1>14. CASE LoseJob
  <2>1. /\ worker.pc \in {"taken", "failing"} /\ worker'.pc = "idle" /\ worker'.job = NoJob
        /\ excused' = excused \cup {worker.job} /\ UNCHANGED <<job, applied>>
    BY <1>14 DEF LoseJob, Rest
  <2> QED BY <2>1 DEF JobInv, JobsTellWhatHappened
<1>15. CASE Halt
  <2>1. /\ worker'.pc = "down" /\ UNCHANGED applied
        /\ \A j \in Jobs : job'[j] = IF job[j] = "captured" THEN "dropped" ELSE job[j]
    BY <1>15 DEF Halt, Rest
  <2> QED BY <2>1 DEF JobInv, JobsTellWhatHappened
<1>16. CASE Restart
  <2>1. /\ worker'.pc = "idle" /\ UNCHANGED applied
        /\ \A j \in Jobs : job'[j] = IF job[j] = "running" THEN "failed" ELSE job[j]
    BY <1>16 DEF Restart, Interrupted, Rest
  <2> QED BY <2>1 DEF JobInv, JobsTellWhatHappened
<1>17. CASE StartFails
  <2>1. worker'.pc = "absent" /\ UNCHANGED <<job, applied>>
    BY <1>17 DEF StartFails, Rest
  <2> QED BY <2>1 DEF JobInv, JobsTellWhatHappened
<1>18. CASE UNCHANGED vars
  BY <1>18, JobFrame DEF vars
<1> QED
  BY <1>1, <1>2, <1>3, <1>4, <1>5, <1>6, <1>7, <1>8, <1>9, <1>10, <1>11, <1>12, <1>13,
     <1>14, <1>15, <1>16, <1>17, <1>18
  DEF Next, RequestStep, WorkerStep

\* A running job is the worker's or lost with its reason known, succeeded means committed
\* and skipped means that nothing was written.
THEOREM JobTableIsTrue == Spec => []JobsTellWhatHappened
<1>1. JobInv => JobsTellWhatHappened BY DEF JobInv
<1> QED BY <1>1, InitTypeInv, NextTypeInv, InitJobInv, NextJobInv, PTL DEF Spec

-----------------------------------------------------------------------------
(* The contract of a memory                                                *)

\* What the guard rows and the holders of the lock know of each other: a row that is not there
\* tells nothing, and what is about to be committed is newer than what is.
RowsInv ==
  /\ \A m \in Memories : ~guard[m].row => guard[m] = NoRow
  /\ \A j \in Jobs : job[j] = "unborn" => captured[j] = 0
  /\ manual.pc # "none" =>
       /\ manual.guard.version > guard[manual.target].version
       /\ \A m \in Memories : guard[m].manualAt < manual.guard.manualAt
  /\ worker.pc \in {"locked", "stored"} => ~guard[worker.proposal.target].deleted
  /\ worker.pc = "stored" =>
       item[worker.proposal.target].version > guard[worker.proposal.target].version

\* a job that has written nothing yet
Fresh(j) ==
  \/ job[j] \in {"unborn", "captured", "dropped", "pending"}
  \/ worker.job = j /\ worker.pc \in {"taken", "proposed", "locked"}

FreshInv ==
  \A j \in Jobs : Fresh(j) => \A m \in Memories : item[m].by # j /\ guard[m].by # j

\* A step that commits nothing and after which the worker holds no lock.
LEMMA RowsFrame ==
  ASSUME RowsInv, UNCHANGED <<guard, captured>>,
         \A j \in Jobs : job'[j] = "unborn" => job[j] = "unborn",
         manual' = manual \/ manual'.pc = "none", worker'.pc \notin {"locked", "stored"}
  PROVE  RowsInv'
BY DEF RowsInv

\* A row that exists is the one worked with, and one made from the item is no older.
LEMMA GuardIsNewer ==
  ASSUME TypeInv, RowsInv, NEW m \in Memories
  PROVE  /\ Guard(m) \in GuardRows /\ Guard(m).row = TRUE
         /\ Guard(m).version >= guard[m].version /\ Guard(m).deleted = guard[m].deleted
         /\ Guard(m).manualAt = guard[m].manualAt
<1>1. guard[m] \in GuardRows /\ item[m] \in Items BY DEF TypeInv, TypeOK
<1>2. Guard(m) \in GuardRows BY GuardType
<1>3. CASE guard[m].row
  <2>1. Guard(m) = guard[m] BY <1>3, GuardFields
  <2>2. guard[m].row \in BOOLEAN /\ guard[m].version \in Nat BY <1>1 DEF GuardRows
  <2> QED BY <1>2, <1>3, <2>1, <2>2
<1>4. CASE ~guard[m].row
  <2>1. guard[m] = NoRow BY <1>4 DEF RowsInv
  <2>2. Guard(m) = [NoRow EXCEPT !.version = item[m].version, !.by = item[m].by, !.row = TRUE]
    BY <1>4 DEF Guard
  <2>3. /\ Guard(m).version = item[m].version /\ Guard(m).row = TRUE
        /\ Guard(m).deleted = FALSE /\ Guard(m).manualAt = 0
    BY <2>2 DEF NoRow
  <2>4. guard[m].version = 0 /\ guard[m].deleted = FALSE /\ guard[m].manualAt = 0
    BY <2>1 DEF NoRow
  <2>5. item[m].version \in Nat BY <1>1 DEF Items
  <2>6. Guard(m).version >= guard[m].version BY <2>3, <2>4, <2>5
  <2>7. Guard(m).deleted = guard[m].deleted /\ Guard(m).manualAt = guard[m].manualAt
    BY <2>3, <2>4
  <2> QED BY <1>2, <2>3, <2>6, <2>7
<1> QED BY <1>3, <1>4

\* A change by hand that takes the lock is newer than every committed one.
LEMMA ManualBeginRows ==
  ASSUME TypeInv, TimeInv, RowsInv, NEW op \in {"write", "delete"}, NEW m \in Memories,
         NEW t \in TextsOrNone, ManualBegin(op, m, t)
  PROVE  RowsInv'
<1>1. /\ Guard(m) \in GuardRows /\ Guard(m).version >= guard[m].version
      /\ Guard(m).version \in Nat /\ guard[m].version \in Nat
  BY GuardIsNewer DEF TypeInv, TypeOK, GuardRows
<1>2. manual'.target = m /\ manual'.guard = ManualGuard(op, Guard(m), clock + 1)
  BY DEF ManualBegin
<1>3. manual'.guard.version = Guard(m).version + 1 /\ manual'.guard.manualAt = clock + 1
  BY <1>1, <1>2, Zenon DEF ManualGuard, GuardRows
<1>4. \A n \in Memories : guard[n].manualAt <= clock /\ guard[n].manualAt \in Nat
  BY DEF TimeInv, TypeInv, TypeOK, GuardRows
<1>5. clock \in Nat /\ worker.pc \notin {"locked", "stored"}
  BY DEF ManualBegin, TypeInv, TypeOK
<1>6. UNCHANGED <<guard, captured, job, worker>> BY DEF ManualBegin
<1>7. manual'.guard.version > guard'[manual'.target].version BY <1>1, <1>2, <1>3, <1>6
<1>8. \A n \in Memories : guard'[n].manualAt < manual'.guard.manualAt
  BY <1>3, <1>4, <1>5, <1>6
<1> QED BY <1>5, <1>6, <1>7, <1>8 DEF RowsInv

\* Every step keeps it.
LEMMA NextRowsInv == TypeInv /\ StoreInv /\ TimeInv /\ RowsInv /\ [Next]_vars => RowsInv'
<1> SUFFICES ASSUME TypeInv, StoreInv, TimeInv, RowsInv, [Next]_vars PROVE RowsInv'
  OBVIOUS
<1>1. ASSUME NEW k \in Jobs, Capture(k) \/ Register(k) PROVE RowsInv'
  <2>1. /\ UNCHANGED <<guard, item, manual, worker>>
        /\ \A j \in Jobs : job'[j] = "unborn" => job[j] = "unborn" /\ captured'[j] = captured[j]
    BY <1>1 DEF Capture, Register, TypeInv, TypeOK
  <2> QED BY <2>1 DEF RowsInv
<1>2. ASSUME NEW m \in Memories, NEW t \in Texts, CreateManual(m, t) \/ UpdateManual(m, t)
      PROVE RowsInv'
  BY <1>2, ManualBeginRows DEF CreateManual, UpdateManual, TextsOrNone
<1>3. ASSUME NEW m \in Memories, DeleteManual(m) PROVE RowsInv'
  BY <1>3, ManualBeginRows DEF DeleteManual, TextsOrNone
<1>4. CASE ManualStore
  <2>1. /\ UNCHANGED <<guard, captured, job, worker>> /\ worker.pc \notin {"locked", "stored"}
        /\ manual.pc # "none" /\ manual'.guard = manual.guard /\ manual'.target = manual.target
    BY <1>4 DEF ManualStore, TypeInv, TypeOK, ManualRecords
  <2> QED BY <2>1 DEF RowsInv
<1>5. CASE ManualCommit
  <2>1. /\ UNCHANGED <<captured, job, worker>> /\ worker.pc \notin {"locked", "stored"}
        /\ manual'.pc = "none" /\ manual.guard.row = TRUE
        /\ guard' = [guard EXCEPT ![manual.target] = manual.guard]
    BY <1>5 DEF ManualCommit, NoRequest, TypeInv, TypeOK, StoreInv
  <2>2. \A m \in Memories : ~guard'[m].row => guard'[m] = guard[m] /\ ~guard[m].row
    BY <2>1 DEF TypeInv, TypeOK
  <2> QED BY <2>1, <2>2 DEF RowsInv
<1>6. CASE ManualFails
  <2>1. /\ UNCHANGED <<guard, item, captured, job, worker>> /\ manual'.pc = "none"
    BY <1>6 DEF ManualFails, NoRequest
  <2> QED BY <2>1 DEF RowsInv
<1>7. CASE Cleanup \/ Finish \/ Done \/ Fail
  <2>1. /\ UNCHANGED <<guard, captured, manual>> /\ worker'.pc \notin {"locked", "stored"}
    BY <1>7 DEF Cleanup, Finish, Done, Fail, Rest, TypeInv, WorkerRecords
  <2>2. \A j \in Jobs : job'[j] = "unborn" => job[j] = "unborn"
    BY <1>7 DEF Cleanup, Finish, Done, Fail, Recorded, TypeInv, TypeOK
  <2> QED BY <2>1, <2>2, RowsFrame
<1>8. CASE Take \/ Extract
  <2>1. /\ UNCHANGED <<guard, captured, manual>> /\ worker'.pc \notin {"locked", "stored"}
    BY <1>8 DEF Take, Extract, Rest, TypeInv, WorkerRecords
  <2>2. \A j \in Jobs : job'[j] = "unborn" => job[j] = "unborn"
    BY <1>8 DEF Take, Extract, TypeInv, TypeOK
  <2> QED BY <2>1, <2>2, RowsFrame
<1>9. CASE Decide
  <2>1. PICK m \in Memories : m = worker.proposal.target BY <1>9 DEF Decide, TypeInv
  <2>2. UNCHANGED <<captured, job, manual, item>> /\ manual.pc = "none"
    BY <1>9 DEF Decide, TypeInv, TypeOK
  <2>3. CASE Guard(m).by = worker.job \/ item[m].by = worker.job
    <3>1. /\ guard' = [guard EXCEPT ![m] = Confirmed(Guard(m), m, worker.job)]
          /\ worker'.pc = "succeeded"
      BY <1>9, <2>1, <2>3 DEF Decide, TypeInv, WorkerRecords
    <3>2. Confirmed(Guard(m), m, worker.job).row = TRUE
      BY GuardIsNewer DEF Confirmed, GuardRows
    <3>3. \A n \in Memories : ~guard'[n].row => guard'[n] = guard[n] /\ ~guard[n].row
      BY <3>1, <3>2 DEF TypeInv, TypeOK
    <3> QED BY <2>2, <3>1, <3>3 DEF RowsInv
  <2>4. CASE ~(Guard(m).by = worker.job \/ item[m].by = worker.job)
    <3>1. /\ UNCHANGED guard /\ worker'.proposal = worker.proposal
          /\ worker'.pc \in {"skipped", "locked"}
          /\ worker'.pc = "locked" => ~Outdated(worker.job, worker.proposal, Guard(m))
      BY <1>9, <2>1, <2>4 DEF Decide, TypeInv, WorkerRecords
    <3>2. worker'.pc = "locked" => ~guard[m].deleted BY <3>1, GuardIsNewer DEF Outdated
    <3> QED BY <2>1, <2>2, <3>1, <3>2 DEF RowsInv
  <2> QED BY <2>3, <2>4
<1>10. CASE AutomaticStore
  <2>1. PICK m \in Memories : m = worker.proposal.target BY <1>10 DEF AutomaticStore, TypeInv
  <2>2. /\ UNCHANGED <<captured, job, manual, guard>> /\ worker.pc = "locked"
        /\ worker'.pc = "stored" /\ worker'.proposal = worker.proposal
    BY <1>10 DEF AutomaticStore, TypeInv, WorkerRecords
  <2>3. item'[m].version = Guard(m).version + 1
    BY <1>10, <2>1 DEF AutomaticStore, TypeInv, TypeOK
  <2>4. Guard(m).version >= guard[m].version /\ Guard(m).version \in Nat /\ guard[m].version \in Nat
    BY GuardIsNewer DEF TypeInv, TypeOK, GuardRows
  <2>5. manual.pc = "none" BY <2>2 DEF TypeInv, TypeOK
  <2> QED BY <2>1, <2>2, <2>3, <2>4, <2>5 DEF RowsInv
<1>11. CASE AutomaticCommit
  <2>1. PICK m \in Memories : m = worker.proposal.target BY <1>11 DEF AutomaticCommit, TypeInv
  <2>2. /\ UNCHANGED <<captured, job, manual, item>> /\ manual.pc = "none"
        /\ worker'.pc = "succeeded"
        /\ guard' = [guard EXCEPT ![m] = AutomaticGuard(guard[m], worker.job)]
    BY <1>11, <2>1 DEF AutomaticCommit, TypeInv, TypeOK, WorkerRecords
  <2>3. guard'[m].row = TRUE
    BY <2>2 DEF AutomaticGuard, TypeInv, TypeOK, GuardRows
  <2>4. \A n \in Memories : ~guard'[n].row => guard'[n] = guard[n] /\ ~guard[n].row
    BY <2>2, <2>3 DEF TypeInv, TypeOK
  <2> QED BY <2>2, <2>4 DEF RowsInv
<1>12. CASE WorkerFails \/ LoseJob \/ StartFails
  <2>1. /\ UNCHANGED <<guard, captured, manual, job>> /\ worker'.pc \notin {"locked", "stored"}
    BY <1>12 DEF WorkerFails, LoseJob, StartFails, Rest, TypeInv, WorkerRecords
  <2> QED BY <2>1, RowsFrame
<1>13. CASE Halt
  <2>1. /\ UNCHANGED <<guard, captured>> /\ worker'.pc \notin {"locked", "stored"}
        /\ manual'.pc = "none"
        /\ \A j \in Jobs : job'[j] = "unborn" => job[j] = "unborn"
    BY <1>13 DEF Halt, Rest, NoRequest
  <2> QED BY <2>1, RowsFrame
<1>14. CASE Restart
  <2>1. /\ UNCHANGED <<guard, captured, manual>> /\ worker'.pc \notin {"locked", "stored"}
        /\ \A j \in Jobs : job'[j] = "unborn" => job[j] = "unborn"
    BY <1>14 DEF Restart, Rest, Interrupted
  <2> QED BY <2>1, RowsFrame
<1>15. CASE UNCHANGED vars
  BY <1>15 DEF vars, RowsInv
<1> QED
  BY <1>1, <1>2, <1>3, <1>4, <1>5, <1>6, <1>7, <1>8, <1>9, <1>10, <1>11, <1>12, <1>13,
     <1>14, <1>15
  DEF Next, RequestStep, WorkerStep

\* No job becomes fresh, and what a step writes names no fresh job.
LEMMA FreshFrame ==
  ASSUME FreshInv,
         \A j \in Jobs : Fresh(j)' => Fresh(j),
         \A m \in Memories, j \in Jobs :
           /\ item'[m].by = j => item[m].by = j
           /\ guard'[m].by = j => guard[m].by = j
  PROVE  FreshInv'
<1>1. ASSUME NEW j \in Jobs, Fresh(j)', NEW m \in Memories
      PROVE  item'[m].by # j /\ guard'[m].by # j
  BY <1>1 DEF FreshInv
<1> QED BY <1>1 DEF FreshInv

\* The worker finds no write of a fresh job.
LEMMA FreshHasNoWrite ==
  ASSUME FreshInv, NEW j \in Jobs, Fresh(j), NEW m \in Memories
  PROVE  ~(Guard(m).by = j \/ item[m].by = j)
<1>1. item[m].by # j /\ guard[m].by # j BY DEF FreshInv
<1>2. CASE guard[m].row
  <2>1. Guard(m) = guard[m] BY <1>2, GuardFields
  <2> QED BY <1>1, <2>1
<1>3. CASE ~guard[m].row
  <2>1. Guard(m).by = item[m].by BY <1>3, GuardFields
  <2> QED BY <1>1, <2>1
<1> QED BY <1>2, <1>3

\* Hence the branch of Decide that confirms a write is never taken, and no step writes
\* for a fresh job.
LEMMA NextFreshInv == TypeInv /\ StoreInv /\ JobInv /\ FreshInv /\ [Next]_vars => FreshInv'
<1> SUFFICES ASSUME TypeInv, StoreInv, JobInv, FreshInv, [Next]_vars PROVE FreshInv'
  OBVIOUS
<1> USE MemoryAssumption
<1>0. /\ worker.pc \in {"taken", "proposed", "locked", "stored"} => job[worker.job] = "running"
      /\ worker.pc \notin {"down", "absent", "idle"} => worker.job \in Jobs
  BY DEF JobInv, TypeInv, TypeOK
<1>1. ASSUME NEW k \in Jobs, Capture(k) \/ Register(k) PROVE FreshInv'
  <2>1. UNCHANGED <<guard, item, worker>> BY <1>1 DEF Capture, Register
  <2>2. \A j \in Jobs : Fresh(j)' => Fresh(j)
    BY <1>1, <2>1 DEF Capture, Register, Fresh, TypeInv, TypeOK
  <2> QED BY <2>1, <2>2, FreshFrame
<1>2. ASSUME NEW m \in Memories,
             \/ \E t \in Texts : CreateManual(m, t) \/ UpdateManual(m, t)
             \/ DeleteManual(m)
      PROVE FreshInv'
  BY <1>2 DEF CreateManual, UpdateManual, DeleteManual, ManualBegin, FreshInv, Fresh
<1>3. CASE ManualStore
  <2>1. UNCHANGED <<guard, job, worker>> BY <1>3 DEF ManualStore
  <2>2. \A m \in Memories : item'[m].by = item[m].by \/ item'[m].by = NoJob
    BY <1>3 DEF ManualStore, NoItem, TypeInv, TypeOK
  <2> QED BY <2>1, <2>2, FreshFrame DEF Fresh
<1>4. CASE ManualCommit
  <2>1. UNCHANGED <<item, job, worker>> /\ manual.guard.by = NoJob
    BY <1>4 DEF ManualCommit, StoreInv
  <2>2. \A m \in Memories : guard'[m].by = guard[m].by \/ guard'[m].by = NoJob
    BY <1>4, <2>1 DEF ManualCommit, TypeInv, TypeOK
  <2> QED BY <2>1, <2>2, FreshFrame DEF Fresh
<1>5. CASE ManualFails
  BY <1>5 DEF ManualFails, FreshInv, Fresh
<1>6. CASE Cleanup \/ Finish \/ Done \/ Fail \/ LoseJob \/ WorkerFails \/ StartFails \/ Restart
  <2>1. /\ UNCHANGED <<guard, item>>
        /\ worker'.pc \notin {"taken", "proposed", "locked"}
    BY <1>6 DEF Cleanup, Finish, Done, Fail, LoseJob, WorkerFails, StartFails, Restart, Rest,
                TypeInv, WorkerRecords
  <2>2. \A j \in Jobs : job'[j] = job[j] \/ job'[j] \in {"purged", "failed"} \cup Terminal
    BY <1>6 DEF Cleanup, Finish, Done, Fail, LoseJob, WorkerFails, StartFails, Restart,
                Recorded, Interrupted, Terminal, TypeInv, TypeOK
  <2>3. \A j \in Jobs : Fresh(j)' => Fresh(j) BY <2>1, <2>2 DEF Fresh, Terminal
  <2> QED BY <2>1, <2>3, FreshFrame
<1>7. CASE Take
  <2>1. PICK k \in Jobs : /\ job[k] = "pending" /\ job' = [job EXCEPT ![k] = "running"]
                          /\ worker' = [Rest("taken") EXCEPT !.job = k]
    BY <1>7 DEF Take
  <2>2. worker'.job = k BY <2>1 DEF Rest
  <2>3. \A j \in Jobs \ {k} : job'[j] = job[j] BY <2>1 DEF TypeInv, TypeOK
  <2>4. UNCHANGED <<guard, item>> BY <1>7 DEF Take
  <2>5. \A j \in Jobs : Fresh(j)' => Fresh(j) BY <2>1, <2>2, <2>3 DEF Fresh
  <2> QED BY <2>4, <2>5, FreshFrame
<1>8. CASE Extract
  <2>1. /\ worker.pc = "taken" /\ worker'.job = worker.job /\ UNCHANGED <<job, guard, item>>
    BY <1>8 DEF Extract, TypeInv, WorkerRecords
  <2>2. \A j \in Jobs : Fresh(j)' => Fresh(j) BY <2>1 DEF Fresh
  <2> QED BY <2>1, <2>2, FreshFrame
<1>9. CASE Decide
  <2>1. worker.pc = "proposed" /\ worker.job \in Jobs /\ Fresh(worker.job)
    BY <1>0, <1>9 DEF Decide, Fresh
  <2>2. PICK m \in Memories : m = worker.proposal.target BY <1>9 DEF Decide, TypeInv
  <2>3. ~(Guard(m).by = worker.job \/ item[m].by = worker.job)
    BY <2>1, FreshHasNoWrite
  <2>4. /\ UNCHANGED <<guard, item, job>> /\ worker'.job = worker.job
    BY <1>9, <2>2, <2>3 DEF Decide, TypeInv, WorkerRecords
  <2>5. \A j \in Jobs : Fresh(j)' => Fresh(j) BY <2>1, <2>4 DEF Fresh
  <2> QED BY <2>4, <2>5, FreshFrame
<1>10. CASE AutomaticStore
  <2>1. /\ worker.pc = "locked" /\ worker'.pc = "stored" /\ worker'.job = worker.job
        /\ UNCHANGED <<guard, job>>
    BY <1>10 DEF AutomaticStore, TypeInv, WorkerRecords
  <2>2. \A m \in Memories : item'[m].by = item[m].by \/ item'[m].by = worker.job
    BY <1>10 DEF AutomaticStore, TypeInv, TypeOK
  <2>3. job[worker.job] = "running" BY <1>0, <2>1
  <2>4. \A j \in Jobs : Fresh(j)' => Fresh(j) /\ j # worker.job BY <2>1, <2>3 DEF Fresh
  <2> QED BY <2>1, <2>2, <2>4 DEF FreshInv
<1>11. CASE AutomaticCommit
  <2>1. /\ worker.pc = "stored" /\ worker'.pc = "succeeded" /\ worker'.job = worker.job
        /\ UNCHANGED <<item, job>>
    BY <1>11 DEF AutomaticCommit, TypeInv, WorkerRecords
  <2>2. \A m \in Memories : guard'[m].by = guard[m].by \/ guard'[m].by = worker.job
    BY <1>11 DEF AutomaticCommit, AutomaticGuard, TypeInv, TypeOK, GuardRows
  <2>3. job[worker.job] = "running" BY <1>0, <2>1
  <2>4. \A j \in Jobs : Fresh(j)' => Fresh(j) /\ j # worker.job BY <2>1, <2>3 DEF Fresh
  <2> QED BY <2>1, <2>2, <2>4 DEF FreshInv
<1>12. CASE Halt
  <2>1. UNCHANGED <<guard, item>> /\ worker'.pc = "down" BY <1>12 DEF Halt, Rest
  <2>2. \A j \in Jobs : Fresh(j)' => Fresh(j) BY <1>12, <2>1 DEF Halt, Fresh
  <2> QED BY <2>1, <2>2, FreshFrame
<1>13. CASE UNCHANGED vars
  BY <1>13 DEF vars, FreshInv, Fresh
<1> QED
  BY <1>1, <1>2, <1>3, <1>4, <1>5, <1>6, <1>7, <1>8, <1>9, <1>10, <1>11, <1>12, <1>13
  DEF Next, RequestStep, WorkerStep

\* The committed state of a memory, and what a commit does to it.
LEMMA CommittedIs ==
  /\ \A m \in Memories :
       /\ Committed[m].version = guard[m].version /\ Committed[m].deleted = guard[m].deleted
       /\ Committed[m].changed = guard[m].manualAt /\ Committed[m].by = guard[m].by
  /\ \A m \in Memories :
       /\ Committed'[m].version = guard'[m].version /\ Committed'[m].deleted = guard'[m].deleted
       /\ Committed'[m].changed = guard'[m].manualAt /\ Committed'[m].by = guard'[m].by
BY DEF Committed

\* When one row changes, one memory does.
LEMMA OneChanges ==
  ASSUME NEW m \in Memories, \A n \in Memories \ {m} : guard'[n] = guard[n]
  PROVE  Committed' = [Committed EXCEPT ![m] = Committed'[m]]
<1>1. DOMAIN Committed = Memories /\ DOMAIN Committed' = Memories BY DEF Committed
<1>2. \A n \in Memories \ {m} : Committed'[n] = Committed[n] BY DEF Committed
<1>3. Committed' = [n \in Memories |-> Committed'[n]] BY DEF Committed
<1>4. [Committed EXCEPT ![m] = Committed'[m]]
        = [n \in Memories |-> IF n = m THEN Committed'[m] ELSE Committed[n]]
  BY <1>1
<1> QED BY <1>2, <1>3, <1>4

\* A commit by hand is a change by hand of the contract.
LEMMA CommitByHand ==
  ASSUME TypeInv, StoreInv, RowsInv, ManualCommit
  PROVE  \E m \in Memories : Contract!ByHand(m)
<1>1. PICK m \in Memories : m = manual.target BY DEF ManualCommit, TypeInv
<1>2. /\ guard'[m] = manual.guard /\ \A n \in Memories \ {m} : guard'[n] = guard[n]
      /\ UNCHANGED <<captured, applied>> /\ manual.pc # "none"
  BY <1>1 DEF ManualCommit, TypeInv, TypeOK
<1>3. Contract!Change(m)
  <2>1. Committed'[m].version > Committed[m].version BY <1>1, <1>2, CommittedIs DEF RowsInv
  <2> QED BY <1>2, <2>1, OneChanges DEF Contract!Change
<1>4. Committed'[m].by = NoJob BY <1>2, CommittedIs DEF StoreInv
<1>5. \A n \in Memories : Committed'[m].changed > Committed[n].changed
  <2>1. \A n \in Memories : guard[n].manualAt < manual.guard.manualAt /\ guard[n].manualAt \in Nat
    BY <1>2 DEF RowsInv, TypeInv, TypeOK, GuardRows
  <2>2. manual.guard.manualAt \in Nat BY DEF TypeInv, ManualRecords, GuardRows
  <2> QED BY <1>2, <2>1, <2>2, CommittedIs
<1> QED BY <1>2, <1>3, <1>4, <1>5 DEF Contract!ByHand

\* A commit by the worker is a change by its job.
LEMMA CommitByJob ==
  ASSUME TypeInv, StoreInv, TimeInv, JobInv, RowsInv, AutomaticCommit
  PROVE  \E j \in Jobs, m \in Memories : Contract!ByJob(j, m)
<1>1. PICK m \in Memories : m = worker.proposal.target BY DEF AutomaticCommit, TypeInv
<1>2. PICK j \in Jobs : j = worker.job BY DEF AutomaticCommit, TypeInv, TypeOK
<1>3. /\ guard'[m] = AutomaticGuard(guard[m], j)
      /\ \A n \in Memories \ {m} : guard'[n] = guard[n]
      /\ UNCHANGED captured /\ applied' = applied \cup {j} /\ worker.pc = "stored"
  BY <1>1, <1>2 DEF AutomaticCommit, TypeInv, TypeOK
<1>4. guard[m] \in GuardRows BY DEF TypeInv, TypeOK
<1>5. /\ guard'[m].version = item[m].version /\ guard'[m].by = j
      /\ guard'[m].deleted = FALSE /\ guard'[m].manualAt = guard[m].manualAt
  BY <1>1, <1>3, <1>4 DEF AutomaticGuard, GuardRows
<1>6. Contract!Change(m)
  <2>1. Committed'[m].version > Committed[m].version
    BY <1>1, <1>3, <1>5, CommittedIs DEF RowsInv
  <2> QED BY <1>3, <2>1, OneChanges DEF Contract!Change
<1>7. j \notin applied BY <1>2, <1>3 DEF JobInv
<1>8. captured[j] > Committed[m].changed
  <2>1. item[m].by = j BY <1>1, <1>2, <1>3 DEF StoreInv
  <2>2. answered[m] < captured[j] /\ answered[m] = guard[m].manualAt
    BY <2>1 DEF TimeInv, ManualWins
  <2>3. captured[j] \in Nat /\ guard[m].manualAt \in Nat
    BY <1>4 DEF TypeInv, TypeOK, GuardRows
  <2> QED BY <2>2, <2>3, CommittedIs
<1>9. ~Committed[m].deleted BY <1>1, <1>3, CommittedIs DEF RowsInv
<1>10. /\ Committed'[m].by = j /\ ~Committed'[m].deleted
       /\ Committed'[m].changed = Committed[m].changed
  BY <1>5, CommittedIs
<1> QED BY <1>3, <1>6, <1>7, <1>8, <1>9, <1>10 DEF Contract!ByJob

\* A capture is one of the contract.
LEMMA CaptureIsNew ==
  ASSUME TypeInv, TimeInv, RowsInv, NEW j \in Jobs, Capture(j)
  PROVE  Contract!Capture(j)
<1>1. /\ captured' = [captured EXCEPT ![j] = clock + 1] /\ captured[j] = 0
      /\ UNCHANGED <<guard, applied>>
  BY DEF Capture, RowsInv
<1>2. captured'[j] = clock + 1 /\ captured' = [captured EXCEPT ![j] = captured'[j]]
  BY <1>1 DEF TypeInv, TypeOK
<1>3. \A m \in Memories : captured'[j] > Committed[m].changed
  <2>1. \A m \in Memories : guard[m].manualAt <= clock /\ guard[m].manualAt \in Nat
    BY DEF TimeInv, TypeInv, TypeOK, GuardRows
  <2>2. clock \in Nat BY DEF TypeInv, TypeOK
  <2> QED BY <1>2, <2>1, <2>2, CommittedIs
<1>4. Committed' = Committed BY <1>1 DEF Committed
<1> QED BY <1>1, <1>2, <1>3, <1>4 DEF Contract!Capture

\* Every step is one of the contract, or changes nothing it speaks of.
LEMMA ContractStep ==
  ASSUME TypeInv, StoreInv, TimeInv, JobInv, RowsInv, FreshInv, [Next]_vars
  PROVE  [Contract!Next]_(Contract!contractVars)
<1>1. ASSUME NEW j \in Jobs, Capture(j) PROVE Contract!Next
  BY <1>1, CaptureIsNew DEF Contract!Next
<1>2. CASE ManualCommit BY <1>2, CommitByHand DEF Contract!Next
<1>3. CASE AutomaticCommit BY <1>3, CommitByJob DEF Contract!Next
<1>4. ASSUME UNCHANGED <<guard, captured, applied>> PROVE UNCHANGED Contract!contractVars
  BY <1>4 DEF Contract!contractVars, Committed
<1>5. CASE Decide
  <2>1. worker.pc = "proposed" /\ worker.job \in Jobs /\ Fresh(worker.job)
    BY <1>5 DEF Decide, Fresh, TypeInv, TypeOK
  <2>2. PICK m \in Memories : m = worker.proposal.target BY <1>5 DEF Decide, TypeInv
  <2>3. ~(Guard(m).by = worker.job \/ item[m].by = worker.job)
    BY <2>1, FreshHasNoWrite
  <2>4. UNCHANGED <<guard, captured, applied>> BY <1>5, <2>2, <2>3 DEF Decide
  <2> QED BY <1>4, <2>4
<1>6. ASSUME NEW j \in Jobs, Register(j) PROVE UNCHANGED Contract!contractVars
  BY <1>4, <1>6 DEF Register
<1>7. ASSUME NEW m \in Memories,
             \/ \E t \in Texts : CreateManual(m, t) \/ UpdateManual(m, t)
             \/ DeleteManual(m)
      PROVE UNCHANGED Contract!contractVars
  BY <1>4, <1>7 DEF CreateManual, UpdateManual, DeleteManual, ManualBegin
<1>8. CASE ManualStore \/ ManualFails
  BY <1>4, <1>8 DEF ManualStore, ManualFails
<1>9. CASE Cleanup \/ Take \/ Extract \/ AutomaticStore \/ Finish \/ Done \/ Fail
  BY <1>4, <1>9 DEF Cleanup, Take, Extract, AutomaticStore, Finish, Done, Fail
<1>10. CASE WorkerFails \/ LoseJob \/ Halt \/ Restart \/ StartFails
  BY <1>4, <1>10 DEF WorkerFails, LoseJob, Halt, Restart, StartFails
<1>11. CASE UNCHANGED vars BY <1>4, <1>11 DEF vars
<1> QED BY <1>1, <1>2, <1>3, <1>5, <1>6, <1>7, <1>8, <1>9, <1>10, <1>11
        DEF Next, RequestStep, WorkerStep

\* Rows, times and committed jobs start as the contract does.
LEMMA InitContract == Init => RowsInv /\ FreshInv /\ Contract!Init
<1> SUFFICES ASSUME Init PROVE RowsInv /\ FreshInv /\ Contract!Init
  OBVIOUS
<1>1. RowsInv BY DEF Init, RowsInv, NoRequest, Rest
<1>2. FreshInv BY MemoryAssumption DEF Init, FreshInv, NoItem, NoRow
<1>3. Committed = [m \in Memories |-> Contract!Unwritten]
  BY DEF Init, Committed, NoRow, Contract!Unwritten
<1> QED BY <1>1, <1>2, <1>3 DEF Init, Contract!Init

\* Guard rows, captures and commits are a versioned register in which a change by hand is final
\* for every job whose evidence is older, whatever the two databases, the lock, failing requests
\* and ending processes do in between.
THEOREM MemoryImplementation == Spec => ImplementsContract
<1> DEFINE AllInv == TypeInv /\ StoreInv /\ TimeInv /\ JobInv /\ RowsInv /\ FreshInv
<1>1. Init => AllInv /\ Contract!Init
  BY InitTypeInv, InitStoreInv, InitTimeInv, InitJobInv, InitContract
<1>2. AllInv /\ [Next]_vars => AllInv'
  BY NextTypeInv, NextStoreInv, NextTimeInv, NextJobInv, NextRowsInv, NextFreshInv
<1>3. AllInv /\ [Next]_vars => [Contract!Next]_(Contract!contractVars) BY ContractStep
<1> HIDE DEF AllInv
<1> QED BY <1>1, <1>2, <1>3, PTL DEF Spec, ImplementsContract, Contract!Spec
=============================================================================
