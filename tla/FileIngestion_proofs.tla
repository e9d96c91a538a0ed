------------------------ MODULE FileIngestion_proofs ------------------------
(***************************************************************************)
(* Proofs about FileIngestion, for any files, contents and requests, and   *)
(* any number of requests, exceptions and ends of the process.             *)
(***************************************************************************)
EXTENDS FileIngestion, FiniteSetTheorems, TLAPS

USE DEF partVars, historyVars, boundVars

-----------------------------------------------------------------------------
(* Rows                                                                    *)

Rows == [status : Statuses, sha : Contents \cup {0}]

Requested ==
  [op : {"none", "upload", "retry", "delete", "edit"},
   pc : {"none", "insert", "enqueue", "retry", "clear", "mark", "remove", "put", "save"},
   file : Files \cup {0}, read : Rows, content : Contents \cup {0}]

Active(f) == row[f].status \in ActiveStatuses

\* Rows and requests have their types; a request for an insert or an edit has a content.
RowsTyped ==
  /\ row \in [Files -> Rows]
  /\ request \in [Requests -> Requested]
  /\ \A r \in Requests : request[r].pc \in {"insert", "save"} => request[r].content \in Contents
  /\ \A r \in Requests : request[r].pc = "put" => request[r].content \in Contents

\* OneRowPerContent does not speak of the uploads under way: what such an upload found when
\* it looked for its content may no longer hold, but only for the reasons it excuses.
ContentInv ==
  /\ OneRowPerContent
  /\ \A r \in Requests, f \in Files :
       request[r].pc = "insert" /\ Active(f) /\ row[f].sha = request[r].content =>
         request[r].content \in raced \/ <<f, request[r].content>> \in revived

\* The file becomes active, or gets another content.
Joins(f) == Active(f)' /\ ~(Active(f) /\ row'[f].sha = row[f].sha)

\* What a step but Insert may do to the rows: one file joins the active ones of its
\* content, and when others are there it is recorded as revived.
RowsKept ==
  /\ raced \subseteq raced' /\ revived \subseteq revived'
  /\ \A f, g \in Files : Joins(f) /\ Joins(g) => f = g
  /\ \A f \in Files : Joins(f) /\ Beside(f, row'[f].sha) => <<f, row'[f].sha>> \in revived'

\* A step that touches one row and records it keeps the rows so.
LEMMA RevivedKeepsRows ==
  ASSUME NEW f, raced \subseteq raced', revived' = Revived(f),
         \A g \in Files \ {f} : row'[g] = row[g]
  PROVE  RowsKept
<1>1. revived \subseteq revived' BY DEF Revived
<1>2. \A g \in Files : Joins(g) => g = f BY DEF Joins, Active
<1>3. ASSUME Joins(f), Beside(f, row'[f].sha) PROVE <<f, row'[f].sha>> \in revived'
  <2>1. /\ row'[f].status \in ActiveStatuses
        /\ row[f].status \in ActiveStatuses => row[f].sha # row'[f].sha
    BY <1>3 DEF Joins, Active
  <2> QED BY <1>3, <2>1 DEF Revived
<1> QED BY <1>1, <1>2, <1>3 DEF RowsKept

\* A step after which no row is active that was not, with its content, keeps them too.
LEMMA NoneJoinsKeepsRows ==
  ASSUME raced \subseteq raced', revived \subseteq revived',
         \A f \in Files : Active(f)' => Active(f) /\ row'[f].sha = row[f].sha
  PROVE  RowsKept
BY DEF RowsKept, Joins

\* Such a step keeps the invariant when it starts no upload.
LEMMA KeptRowsKeepInv ==
  ASSUME ContentInv, RowsKept,
         \A r \in Requests : request'[r].pc = "insert" =>
           request[r].pc = "insert" /\ request'[r].content = request[r].content
  PROVE  ContentInv'
<1>1. ASSUME NEW f \in Files, NEW g \in Files, f # g, Active(f)', Active(g)',
             row'[f].sha = row'[g].sha
      PROVE  \/ row'[f].sha \in raced'
             \/ <<f, row'[f].sha>> \in revived' \/ <<g, row'[f].sha>> \in revived'
  <2>1. CASE Joins(f)
    <3>1. ~Joins(g) BY <1>1, <2>1 DEF RowsKept
    <3>2. Active(g) /\ row[g].sha = row'[f].sha BY <1>1, <3>1 DEF Joins
    <3>3. Beside(f, row'[f].sha) BY <1>1, <3>2 DEF Beside, Active
    <3> QED BY <1>1, <2>1, <3>3 DEF RowsKept
  <2>2. CASE Joins(g)
    <3>1. ~Joins(f) BY <1>1, <2>2 DEF RowsKept
    <3>2. Active(f) /\ row[f].sha = row'[g].sha BY <1>1, <3>1 DEF Joins
    <3>3. Beside(g, row'[g].sha) BY <1>1, <3>2 DEF Beside, Active
    <3> QED BY <1>1, <2>2, <3>3 DEF RowsKept
  <2>3. CASE ~Joins(f) /\ ~Joins(g)
    <3>1. Active(f) /\ Active(g) /\ row[f].sha = row'[f].sha /\ row[g].sha = row'[f].sha
      BY <1>1, <2>3 DEF Joins
    <3> QED BY <1>1, <3>1 DEF ContentInv, RowsKept, OneRowPerContent, Active
  <2> QED BY <2>1, <2>2, <2>3
<1>2. OneRowPerContent'
  BY <1>1 DEF OneRowPerContent, Active
<1>3. ASSUME NEW r \in Requests, NEW f \in Files, request'[r].pc = "insert", Active(f)',
             row'[f].sha = request'[r].content
      PROVE  request'[r].content \in raced' \/ <<f, request'[r].content>> \in revived'
  <2>1. request[r].pc = "insert" /\ request'[r].content = request[r].content BY <1>3
  <2>2. CASE Joins(f)
    <3>1. Beside(f, row'[f].sha) BY <1>3, <2>1 DEF Beside
    <3> QED BY <1>3, <2>2, <3>1 DEF RowsKept
  <2>3. CASE ~Joins(f)
    <3>1. Active(f) /\ row[f].sha = request[r].content BY <1>3, <2>1, <2>3 DEF Joins
    <3> QED BY <2>1, <3>1 DEF ContentInv, RowsKept
  <2> QED BY <2>2, <2>3
<1> QED BY <1>2, <1>3 DEF ContentInv

\* No file has a row and no request is under way.
LEMMA InitFileInv == Init => RowsTyped /\ ContentInv
<1> SUFFICES ASSUME Init PROVE RowsTyped /\ ContentInv
  OBVIOUS
<1>1. NoRow \in Rows BY DEF NoRow, Rows, Statuses
<1>2. NoRequest \in Requested BY <1>1 DEF NoRequest, Requested
<1>3. RowsTyped
  BY <1>1, <1>2 DEF Init, RowsTyped, NoRequest
<1>4. ContentInv
  BY DEF Init, ContentInv, OneRowPerContent, Active, ActiveStatuses, NoRow, NoRequest
<1> QED BY <1>3, <1>4

\* A request starts, and what it reads is a row.
LEMMA StartTyped ==
  ASSUME RowsTyped, NEW r \in Requests, NEW f \in Files \cup {0}, NEW c \in Contents \cup {0},
         NEW op \in {"upload", "retry", "delete", "edit"},
         NEW pc \in {"insert", "enqueue", "retry", "clear", "put"},
         pc \in {"insert", "put"} => c \in Contents,
         Start(r, op, pc, f, c)
  PROVE  /\ RowsTyped'
         /\ request'[r].pc = pc /\ request'[r].content = c
         /\ \A s \in Requests \ {r} : request'[s] = request[s]
         /\ RowsKept
<1>1. [op |-> op, pc |-> pc, file |-> f, content |-> c,
       read |-> IF f = 0 THEN NoRow ELSE row[f]] \in Requested
  <2>1. NoRow \in Rows BY DEF NoRow, Rows, Statuses
  <2>2. f # 0 => row[f] \in Rows BY DEF RowsTyped
  <2> QED BY <2>1, <2>2 DEF Requested
<1>2. /\ request'[r] = [op |-> op, pc |-> pc, file |-> f, content |-> c,
                        read |-> IF f = 0 THEN NoRow ELSE row[f]]
      /\ \A s \in Requests \ {r} : request'[s] = request[s]
      /\ request' \in [Requests -> Requested]
  BY <1>1 DEF Start, RowsTyped
<1>3. RowsKept BY NoneJoinsKeepsRows DEF Start, Active
<1> QED BY <1>2, <1>3 DEF Start, RowsTyped

\* No request, worker step, fault or restart adds a second row for a content.
LEMMA NextFileInv == RowsTyped /\ ContentInv /\ [Next]_vars => RowsTyped' /\ ContentInv'
<1> SUFFICES ASSUME RowsTyped, ContentInv, [Next]_vars PROVE RowsTyped' /\ ContentInv'
  OBVIOUS
<1> USE FileAssumption
<1>1. ASSUME NEW r \in Requests, NEW c \in Contents, Upload(r, c)
      PROVE  RowsTyped' /\ ContentInv'
  <2>1. CASE SameContent(c) = {} /\ Start(r, "upload", "insert", 0, c)
    <3>1. /\ RowsTyped' /\ RowsKept /\ request'[r].content = c
          /\ \A s \in Requests \ {r} : request'[s] = request[s]
      BY <2>1, StartTyped
    <3>2. UNCHANGED <<row, raced, revived>> BY <2>1 DEF Start
    <3>3. \A f \in Files : ~(Active(f) /\ row[f].sha = c)
      BY <2>1 DEF SameContent, Active
    <3> QED BY <3>1, <3>2, <3>3 DEF ContentInv, OneRowPerContent, Active
  <2>2. ASSUME NEW f \in Files, Start(r, "upload", "enqueue", f, c)
        PROVE  RowsTyped' /\ ContentInv'
    <3>1. /\ RowsTyped' /\ RowsKept /\ request'[r].pc = "enqueue"
          /\ \A s \in Requests \ {r} : request'[s] = request[s]
      BY <2>2, StartTyped
    <3> QED BY <3>1, KeptRowsKeepInv
  <2> QED BY <1>1, <2>1, <2>2 DEF Upload
<1>2. ASSUME NEW r \in Requests, NEW f \in Files, Retry(r, f) PROVE RowsTyped' /\ ContentInv'
  <2>1. Start(r, "retry", "retry", f, row[f].sha) /\ row[f].sha \in Contents \cup {0}
    BY <1>2 DEF Retry, RowsTyped, Rows
  <2>2. /\ RowsTyped' /\ RowsKept /\ request'[r].pc = "retry"
        /\ \A s \in Requests \ {r} : request'[s] = request[s]
    BY <2>1, StartTyped
  <2> QED BY <2>2, KeptRowsKeepInv
<1>3. ASSUME NEW r \in Requests, NEW f \in Files, Delete(r, f) PROVE RowsTyped' /\ ContentInv'
  <2>1. Start(r, "delete", "clear", f, row[f].sha) /\ row[f].sha \in Contents \cup {0}
    BY <1>3 DEF Delete, RowsTyped, Rows
  <2>2. /\ RowsTyped' /\ RowsKept /\ request'[r].pc = "clear"
        /\ \A s \in Requests \ {r} : request'[s] = request[s]
    BY <2>1, StartTyped
  <2> QED BY <2>2, KeptRowsKeepInv
<1>4. ASSUME NEW r \in Requests, NEW f \in Files, NEW c \in Contents, Edit(r, f, c)
      PROVE  RowsTyped' /\ ContentInv'
  <2>1. Start(r, "edit", "put", f, c)
    BY <1>4 DEF Edit
  <2>2. /\ RowsTyped' /\ RowsKept /\ request'[r].pc = "put"
        /\ \A s \in Requests \ {r} : request'[s] = request[s]
    BY <2>1, StartTyped
  <2> QED BY <2>2, KeptRowsKeepInv
<1>5. ASSUME NEW r \in Requests, Insert(r) PROVE RowsTyped' /\ ContentInv'
  <2> DEFINE c == request[r].content
  <2>1. PICK f \in Files :
          /\ row[f] = NoRow
          /\ row' = [row EXCEPT ![f] = [status |-> "uploaded", sha |-> c]]
          /\ request' = [request EXCEPT ![r].pc = "enqueue", ![r].file = f]
    BY <1>5 DEF Insert
  <2>2. c \in Contents /\ request[r].pc = "insert"
    BY <1>5 DEF Insert, RowsTyped
  <2>3. /\ row'[f] = [status |-> "uploaded", sha |-> c]
        /\ \A g \in Files \ {f} : row'[g] = row[g]
        /\ row' \in [Files -> Rows]
    <3>1. [status |-> "uploaded", sha |-> c] \in Rows
      BY <2>2 DEF Rows, Statuses, ActiveStatuses
    <3> QED BY <2>1, <3>1 DEF RowsTyped
  <2>4. /\ request'[r].pc = "enqueue" /\ request' \in [Requests -> Requested]
        /\ \A s \in Requests \ {r} : request'[s] = request[s]
    <3>1. PICK q \in Requested : q = request[r] BY DEF RowsTyped
    <3>2. [[q EXCEPT !.pc = "enqueue"] EXCEPT !.file = f] \in Requested
      <4>1. [q EXCEPT !.pc = "enqueue"] \in Requested BY DEF Requested
      <4> QED BY <4>1 DEF Requested
    <3>3. [[q EXCEPT !.pc = "enqueue"] EXCEPT !.file = f].pc = "enqueue"
      BY DEF Requested
    <3>4. request' = [request EXCEPT ![r] = [[q EXCEPT !.pc = "enqueue"] EXCEPT !.file = f]]
      BY <2>1, <3>1 DEF RowsTyped
    <3> QED BY <3>2, <3>3, <3>4 DEF RowsTyped
  <2>5. RowsTyped'
    BY <2>3, <2>4 DEF RowsTyped
  <2>6. /\ raced' = (IF \E s \in Requests \ {r} : request[s].pc = "insert" /\ request[s].content = c
                     THEN raced \cup {c} ELSE raced)
        /\ revived' = revived
    BY <1>5 DEF Insert
  <2>7. \A g \in Files \ {f} : Active(g) /\ row[g].sha = c => c \in raced \/ <<g, c>> \in revived
    BY <2>2 DEF ContentInv
  <2>8. OneRowPerContent'
    <3> SUFFICES ASSUME NEW g \in Files, NEW h \in Files, g # h, row'[g].sha = row'[h].sha,
                        Active(g)', Active(h)'
                 PROVE  \/ row'[g].sha \in raced'
                        \/ <<g, row'[g].sha>> \in revived' \/ <<h, row'[h].sha>> \in revived'
      BY DEF OneRowPerContent, Active
    <3>1. CASE g = f BY <2>3, <2>6, <2>7, <3>1 DEF Active
    <3>2. CASE h = f BY <2>3, <2>6, <2>7, <3>2 DEF Active
    <3>3. CASE g # f /\ h # f BY <2>3, <2>6, <3>3 DEF Active, ContentInv, OneRowPerContent
    <3> QED BY <3>1, <3>2, <3>3
  <2>9. \A s \in Requests, g \in Files :
          request'[s].pc = "insert" /\ Active(g)' /\ row'[g].sha = request'[s].content =>
            request'[s].content \in raced' \/ <<g, request'[s].content>> \in revived'
    <3> SUFFICES ASSUME NEW s \in Requests, NEW g \in Files, request'[s].pc = "insert",
                        Active(g)', row'[g].sha = request'[s].content
                 PROVE  request'[s].content \in raced' \/ <<g, request'[s].content>> \in revived'
      OBVIOUS
    <3>1. s # r /\ request'[s] = request[s] BY <2>4
    <3>2. CASE g = f BY <2>3, <2>6, <3>1, <3>2
    <3>3. CASE g # f BY <2>3, <2>6, <3>1, <3>3 DEF Active, ContentInv
    <3> QED BY <3>2, <3>3
  <2> QED BY <2>5, <2>8, <2>9 DEF ContentInv
<1> DEFINE Kept == RowsTyped' /\ RowsKept /\
                   \A s \in Requests : request'[s].pc = "insert" =>
                     request[s].pc = "insert" /\ request'[s].content = request[s].content
<1>6. ASSUME NEW r \in Requests, Enqueue(r) \/ DeleteObject(r) \/ RequestFails(r)
      PROVE  RowsTyped' /\ ContentInv'
  <2>1. NoRequest \in Requested /\ NoRequest.pc = "none"
    BY DEF NoRequest, NoRow, Requested, Rows, Statuses
  <2>2. request' = [request EXCEPT ![r] = NoRequest] /\ UNCHANGED <<row, raced, revived>>
    BY <1>6 DEF Enqueue, DeleteObject, RequestFails, Answer
  <2>3. Kept BY <2>1, <2>2, NoneJoinsKeepsRows DEF RowsTyped, Active
  <2> QED BY <2>3, KeptRowsKeepInv
<1>7. ASSUME NEW r \in Requests, DeleteVectors(r) \/ EditPut(r)
      PROVE  RowsTyped' /\ ContentInv'
  <2>1. PICK pc \in {"mark", "save"} : request' = [request EXCEPT ![r].pc = pc]
    BY <1>7 DEF DeleteVectors, EditPut, To
  <2>2. UNCHANGED <<row, raced, revived>> /\ (pc = "save" => request[r].pc = "put")
    BY <1>7, <2>1 DEF DeleteVectors, EditPut, To, RowsTyped, Requested
  <2>3. /\ request'[r].pc = pc /\ request'[r].content = request[r].content
        /\ request' \in [Requests -> Requested]
        /\ \A s \in Requests \ {r} : request'[s] = request[s]
    BY <2>1 DEF RowsTyped, Requested
  <2>4. Kept BY <2>2, <2>3, NoneJoinsKeepsRows DEF RowsTyped, Active
  <2> QED BY <2>4, KeptRowsKeepInv
<1>8. ASSUME NEW r \in Requests, RetryCommit(r) \/ MarkDeleted(r)
      PROVE  RowsTyped' /\ ContentInv'
  <2>1. PICK f \in Files \cup {0} : f = request[r].file BY DEF RowsTyped, Requested
  <2>2. PICK s \in {"uploaded", "deleted"} :
          /\ row' = [row EXCEPT ![f].status = Written(@, request[r].read.status, s)]
          /\ raced' = raced
          /\ revived' = IF s = "uploaded" THEN Revived(f) ELSE revived
    BY <1>8, <2>1 DEF RetryCommit, MarkDeleted
  <2>3. PICK pc \in {"enqueue", "remove"} : request' = [request EXCEPT ![r].pc = pc]
    BY <1>8 DEF RetryCommit, MarkDeleted, To
  <2>4. \A g \in Files : /\ row'[g].sha = row[g].sha
                         /\ row'[g].status \in Statuses
                         /\ g # f => row'[g] = row[g]
                         /\ row'[g].status \in {row[g].status, s}
    BY <2>2 DEF RowsTyped, Rows, Written, Statuses, ActiveStatuses
  <2>5. row' \in [Files -> Rows]
    BY <2>2, <2>4 DEF RowsTyped, Rows
  <2>6. /\ request'[r].pc = pc /\ request' \in [Requests -> Requested]
        /\ \A t \in Requests \ {r} : request'[t] = request[t]
    BY <2>3 DEF RowsTyped, Requested
  <2>7. RowsKept
    <3>1. CASE s = "uploaded" BY <2>2, <2>4, <3>1, RevivedKeepsRows
    <3>2. CASE s = "deleted"
      <4>1. \A g \in Files : Active(g)' => Active(g) /\ row'[g].sha = row[g].sha
        BY <2>4, <3>2 DEF Active, ActiveStatuses
      <4> QED BY <2>2, <3>2, <4>1, NoneJoinsKeepsRows
    <3> QED BY <3>1, <3>2
  <2>8. Kept BY <2>5, <2>6, <2>7 DEF RowsTyped
  <2> QED BY <2>8, KeptRowsKeepInv
<1>9. ASSUME NEW r \in Requests, EditSave(r) PROVE RowsTyped' /\ ContentInv'
  <2>1. PICK f \in Files \cup {0} : f = request[r].file BY DEF RowsTyped, Requested
  <2> DEFINE new == [status |-> Written(row[f].status, request[r].read.status, "uploaded"),
                     sha |-> Written(row[f].sha, request[r].read.sha, request[r].content)]
  <2>2. /\ row' = [row EXCEPT ![f] = new]
        /\ raced' = raced /\ revived' = Revived(f)
        /\ request' = [request EXCEPT ![r].pc = "enqueue"]
    BY <1>9, <2>1 DEF EditSave, To, AfterEdit
  <2>3. f \in Files => new \in Rows
    BY DEF RowsTyped, Requested, Rows, Written, Statuses, ActiveStatuses
  <2>4. row' \in [Files -> Rows] /\ \A g \in Files : g # f => row'[g] = row[g]
    BY <2>2, <2>3 DEF RowsTyped
  <2>5. /\ request'[r].pc = "enqueue" /\ request' \in [Requests -> Requested]
        /\ \A t \in Requests \ {r} : request'[t] = request[t]
    BY <2>2 DEF RowsTyped, Requested
  <2>6. RowsKept
    BY <2>2, <2>4, RevivedKeepsRows
  <2>7. Kept BY <2>4, <2>5, <2>6 DEF RowsTyped
  <2> QED BY <2>7, KeptRowsKeepInv
<1>10. CASE Take \/ Load \/ ClearVectors \/ AddVectors \/ WorkerFails
  <2>1. UNCHANGED <<row, request, raced, revived>>
    BY <1>10 DEF Take, Load, ClearVectors, AddVectors, WorkerFails
  <2>2. Kept BY <2>1, NoneJoinsKeepsRows DEF RowsTyped, Active
  <2> QED BY <2>2, KeptRowsKeepInv
<1>11. CASE MarkIndexing \/ Finish
  <2>1. PICK f : f = worker.file OBVIOUS
  <2>2. PICK s \in {"indexing", "ready", "failed"} :
          /\ \/ row' = [row EXCEPT ![f].status = s]
             \/ row' = [row EXCEPT ![f].status = Written(@, worker.read, s)]
          /\ UNCHANGED <<request, raced>>
          /\ revived' = Revived(f)
    BY <1>11, <2>1 DEF MarkIndexing, Finish
  <2>3. \A g \in Files : /\ row'[g].sha = row[g].sha
                         /\ row'[g].status \in Statuses
                         /\ g # f => row'[g] = row[g]
    BY <2>2 DEF RowsTyped, Rows, Written, Statuses, ActiveStatuses
  <2>4. row' \in [Files -> Rows]
    BY <2>2, <2>3 DEF RowsTyped, Rows
  <2>5. RowsKept
    BY <2>2, <2>3, RevivedKeepsRows
  <2>6. Kept BY <2>2, <2>4, <2>5 DEF RowsTyped
  <2> QED BY <2>6, KeptRowsKeepInv
<1>12. CASE Halt
  <2>1. NoRequest \in Requested /\ NoRequest.pc = "none"
    BY DEF NoRequest, NoRow, Requested, Rows, Statuses
  <2>2. request' = [r \in Requests |-> NoRequest] /\ UNCHANGED <<row, raced, revived>>
    BY <1>12 DEF Halt
  <2>3. Kept BY <2>1, <2>2, NoneJoinsKeepsRows DEF RowsTyped, Active
  <2> QED BY <2>3, KeptRowsKeepInv
<1>13. CASE Restart
  <2>1. /\ row' = [f \in Files |-> IF f \in Recovered THEN [row[f] EXCEPT !.status = "uploaded"]
                                   ELSE row[f]]
        /\ UNCHANGED <<request, raced, revived>>
    BY <1>13 DEF Restart
  <2>2. \A f \in Files : /\ row'[f] \in Rows /\ row'[f].sha = row[f].sha
                         /\ Active(f)' => Active(f)
    BY <2>1 DEF RowsTyped, Rows, Active, Statuses, ActiveStatuses, Recovered, Recoverable
  <2>3. Kept BY <2>1, <2>2, NoneJoinsKeepsRows DEF RowsTyped
  <2> QED BY <2>3, KeptRowsKeepInv
<1>14. CASE UNCHANGED vars
  BY <1>14 DEF vars, RowsTyped, ContentInv, OneRowPerContent, Active
<1> QED
  BY <1>1, <1>2, <1>3, <1>4, <1>5, <1>6, <1>7, <1>8, <1>9, <1>10, <1>11, <1>12, <1>13, <1>14
  DEF Next, RequestStep, WorkerStep

\* A content has one active row, unless its uploads overlapped or one of two files became
\* active again, or got the content in the editor, beside the other or beside an upload.
THEOREM ContentHasOneRow == Spec => []OneRowPerContent
<1>1. ContentInv => OneRowPerContent BY DEF ContentInv
<1> QED BY <1>1, InitFileInv, NextFileInv, PTL DEF Spec

-----------------------------------------------------------------------------
(* Shapes                                                                  *)

Workers ==
  [pc : {"down", "idle", "read", "indexing", "loaded", "cleared", "added", "failing"},
   file : Files \cup {0}, read : Statuses, content : Contents \cup {0}]

\* where a request is tells its operation and whether it has a file
Fits(q) ==
  /\ q.pc \in {"clear", "mark", "remove"} <=> q.op = "delete"
  /\ q.pc \in {"put", "save"} => q.op = "edit"
  /\ q.pc = "retry" => q.op = "retry"
  /\ q.pc = "insert" => q.op = "upload"
  /\ q.pc = "enqueue" => q.op \in {"upload", "retry", "edit"}
  /\ q.pc \notin {"none", "insert"} <=> q.file \in Files
  /\ q.pc = "none" => q = NoRequest

\* Types, and that a process that is down has no requests and an empty queue.
ShapeInv ==
  /\ object \in [Files -> Contents \cup {0}]
  /\ vectors \in [Files -> SUBSET (Contents \X {1, 2})]
  /\ queue \in Seq(Files)
  /\ worker \in Workers
  /\ worker.pc \in {"down", "idle"} <=> worker.file = 0
  /\ worker.pc \in {"loaded", "cleared", "added"} => worker.content \in Contents
  /\ \A r \in Requests : Fits(request[r])
  /\ ~Up => queue = <<>> /\ \A r \in Requests : request[r] = NoRequest
  /\ \A f \in Files : row[f].status = "indexing" => worker.file = f \/ ~Up \/ f \in lost

\* What joins the queue is in it.
LEMMA Queued ==
  ASSUME NEW q \in Seq(Files), NEW f \in Files
  PROVE  Append(q, f) \in Seq(Files) /\ ToSet(Append(q, f)) = ToSet(q) \cup {f}
<1>1. /\ Append(q, f) \in Seq(Files) /\ Len(q) \in Nat /\ DOMAIN q = 1..Len(q)
      /\ DOMAIN Append(q, f) = 1..(Len(q) + 1)
      /\ Append(q, f)[Len(q) + 1] = f
      /\ \A i \in 1..Len(q) : Append(q, f)[i] = q[i]
  OBVIOUS
<1>2. \A i \in 1..(Len(q) + 1) : i \in 1..Len(q) \/ i = Len(q) + 1
  BY <1>1
<1>3. \A i \in 1..Len(q) : i \in 1..(Len(q) + 1)
  BY <1>1
<1>4. Len(q) + 1 \in 1..(Len(q) + 1) BY <1>1
<1> QED BY <1>1, <1>2, <1>3, <1>4 DEF ToSet

\* What is taken from it was its head.
LEMMA Dequeued ==
  ASSUME NEW q \in Seq(Files), q # <<>>
  PROVE  /\ Head(q) \in Files /\ Tail(q) \in Seq(Files)
         /\ ToSet(q) = {Head(q)} \cup ToSet(Tail(q))
<1>1. /\ Head(q) \in Files /\ Tail(q) \in Seq(Files) /\ Len(q) \in Nat \ {0}
      /\ DOMAIN q = 1..Len(q) /\ DOMAIN Tail(q) = 1..(Len(q) - 1)
      /\ Head(q) = q[1] /\ \A i \in 1..(Len(q) - 1) : Tail(q)[i] = q[i + 1]
  OBVIOUS
<1>2. \A i \in 1..Len(q) : i = 1 \/ (i - 1 \in 1..(Len(q) - 1) /\ (i - 1) + 1 = i)
  BY <1>1
<1>3. \A i \in 1..(Len(q) - 1) : i + 1 \in 1..Len(q)
  BY <1>1
<1>4. 1 \in 1..Len(q) BY <1>1
<1>5. \A i \in 1..Len(q) : q[i] = Head(q) \/ q[i] \in ToSet(Tail(q))
  <2> TAKE i \in 1..Len(q)
  <2>1. CASE i = 1 BY <1>1, <2>1
  <2>2. CASE i - 1 \in 1..(Len(q) - 1) /\ (i - 1) + 1 = i
    <3>1. Tail(q)[i - 1] = q[i] BY <1>1, <2>2
    <3> QED BY <1>1, <2>2, <3>1 DEF ToSet
  <2> QED BY <1>2, <2>1, <2>2
<1>6. \A i \in 1..(Len(q) - 1) : Tail(q)[i] \in ToSet(q)
  BY <1>1, <1>3 DEF ToSet
<1>7. Head(q) \in ToSet(q) BY <1>1, <1>4 DEF ToSet
<1>8. \A f : f \in ToSet(q) <=> \E i \in 1..Len(q) : q[i] = f
  BY <1>1 DEF ToSet
<1>9. \A f : f \in ToSet(Tail(q)) <=> \E i \in 1..(Len(q) - 1) : Tail(q)[i] = f
  BY <1>1 DEF ToSet
<1> QED BY <1>1, <1>5, <1>6, <1>7, <1>8, <1>9

\* A request goes on.
LEMMA ToMoves ==
  ASSUME RowsTyped, NEW r \in Requests, NEW pc, To(r, pc)
  PROVE  /\ request'[r].pc = pc /\ request'[r].op = request[r].op
         /\ request'[r].file = request[r].file /\ request'[r].read = request[r].read
         /\ request'[r].content = request[r].content
         /\ \A s \in Requests \ {r} : request'[s] = request[s]
BY DEF RowsTyped, Requested, To

\* A request is answered.
LEMMA AnswerMoves ==
  ASSUME RowsTyped, NEW r \in Requests, Answer(r)
  PROVE  /\ request'[r] = NoRequest
         /\ \A s \in Requests \ {r} : request'[s] = request[s]
         /\ Fits(NoRequest) /\ NoRequest.file = 0 /\ NoRequest.pc = "none"
         /\ NoRequest.op = "none"
BY FileAssumption DEF RowsTyped, Answer, Fits, NoRequest

\* A request starts.
LEMMA StartMoves ==
  ASSUME RowsTyped, NEW r \in Requests, NEW op, NEW pc, NEW f, NEW c, Start(r, op, pc, f, c)
  PROVE  /\ request'[r].pc = pc /\ request'[r].op = op /\ request'[r].file = f
         /\ (f # 0 => request'[r].read = row[f]) /\ request[r] = NoRequest
         /\ \A s \in Requests \ {r} : request'[s] = request[s]
         /\ UNCHANGED <<row, object, vectors, queue, worker, torn, crossed, lost>> /\ Up
BY DEF RowsTyped, Start

\* The starts of requests are these.
LEMMA Starts ==
  ASSUME NEW r \in Requests,
         \/ \E c \in Contents : Upload(r, c) \/ \E f \in Files : Edit(r, f, c)
         \/ \E f \in Files : Retry(r, f) \/ Delete(r, f)
  PROVE  \E op, pc, f, c :
           /\ Start(r, op, pc, f, c)
           /\ \/ op = "upload" /\ pc = "insert" /\ f = 0
              \/ op = "upload" /\ pc = "enqueue" /\ f \in Files /\ row[f].status = "uploaded"
              \/ /\ f \in Files /\ row[f].status \notin {"none", "deleted"}
                 /\ <<op, pc>> \in {<<"retry", "retry">>, <<"edit", "put">>}
              \/ op = "delete" /\ pc = "clear" /\ f \in Files /\ row[f].status # "none"
<1>1. ASSUME NEW c \in Contents, Upload(r, c)
      PROVE  \/ Start(r, "upload", "insert", 0, c)
             \/ \E f \in Files : row[f].status = "uploaded" /\ Start(r, "upload", "enqueue", f, c)
  BY <1>1 DEF Upload
<1>2. ASSUME NEW c \in Contents, NEW f \in Files, Edit(r, f, c)
      PROVE  row[f].status \notin {"none", "deleted"} /\ Start(r, "edit", "put", f, c)
  BY <1>2 DEF Edit
<1>3. ASSUME NEW f \in Files, Retry(r, f)
      PROVE  row[f].status \notin {"none", "deleted"} /\ Start(r, "retry", "retry", f, row[f].sha)
  BY <1>3 DEF Retry, MayRetry
<1>4. ASSUME NEW f \in Files, Delete(r, f)
      PROVE  row[f].status # "none" /\ Start(r, "delete", "clear", f, row[f].sha)
  BY <1>4 DEF Delete
<1>6. CASE \E c \in Contents : Upload(r, c) BY <1>1, <1>6, Zenon
<1>7. CASE \E c \in Contents, f \in Files : Edit(r, f, c) BY <1>2, <1>7
<1>8. CASE \E f \in Files : Retry(r, f) BY <1>3, <1>8
<1>9. CASE \E f \in Files : Delete(r, f) BY <1>4, <1>9, Zenon
<1> QED BY <1>6, <1>7, <1>8, <1>9

\* What a request's step keeps of the shapes, when it leaves the worker alone.
LEMMA RequestKeepsShape ==
  ASSUME RowsTyped, ShapeInv, NEW r \in Requests, Up,
         worker' = worker, Fits(request'[r]),
         \A s \in Requests \ {r} : request'[s] = request[s],
         object' \in [Files -> Contents \cup {0}],
         vectors' \in [Files -> SUBSET (Contents \X {1, 2})],
         queue' \in Seq(Files), lost \subseteq lost',
         \A f \in Files : row'[f].status = "indexing" => row[f].status = "indexing"
  PROVE  ShapeInv'
<1>1. Up' BY DEF Up
<1>2. \A s \in Requests : Fits(request'[s]) BY DEF ShapeInv
<1>3. \A f \in Files : row'[f].status = "indexing" => worker'.file = f \/ ~Up' \/ f \in lost'
  BY DEF ShapeInv
<1> QED BY <1>1, <1>2, <1>3 DEF ShapeInv

\* A request of which something is left to do finds the process up.
LEMMA WaitsUp ==
  ASSUME ShapeInv, NEW r \in Requests, request[r].pc # "none"
  PROVE  Up /\ Fits(request[r])
BY DEF ShapeInv, NoRequest

\* Nothing is there at first.
LEMMA InitShape == Init => ShapeInv
<1> SUFFICES ASSUME Init PROVE ShapeInv
  OBVIOUS
<1>1. worker \in Workers BY DEF Init, Idle, Workers, Statuses
<1>2. \A r \in Requests : Fits(request[r])
  BY FileAssumption DEF Init, Fits, NoRequest
<1> QED
  BY <1>1, <1>2, FileAssumption
  DEF Init, ShapeInv, Idle, NoRow, Up, NoRequest

\* Every step keeps the shapes.
LEMMA NextShape == RowsTyped /\ RowsTyped' /\ ShapeInv /\ [Next]_vars => ShapeInv'
<1> SUFFICES ASSUME RowsTyped, RowsTyped', ShapeInv, [Next]_vars PROVE ShapeInv'
  OBVIOUS
<1> USE FileAssumption
<1>1. ASSUME NEW r \in Requests,
             \/ \E c \in Contents : Upload(r, c) \/ \E f \in Files : Edit(r, f, c)
             \/ \E f \in Files : Retry(r, f) \/ Delete(r, f)
      PROVE  ShapeInv'
  <2>1. PICK op, pc, f, c :
           /\ Start(r, op, pc, f, c)
           /\ \/ op = "upload" /\ pc = "insert" /\ f = 0
              \/ op = "upload" /\ pc = "enqueue" /\ f \in Files /\ row[f].status = "uploaded"
              \/ /\ f \in Files /\ row[f].status \notin {"none", "deleted"}
                 /\ <<op, pc>> \in {<<"retry", "retry">>, <<"edit", "put">>}
              \/ op = "delete" /\ pc = "clear" /\ f \in Files /\ row[f].status # "none"
    BY <1>1, Starts
  <2>2. /\ request'[r].pc = pc /\ request'[r].op = op /\ request'[r].file = f
        /\ \A s \in Requests \ {r} : request'[s] = request[s]
        /\ UNCHANGED <<row, object, vectors, queue, worker, torn, lost>> /\ Up
    BY <2>1, StartMoves
  <2>3. Fits(request'[r]) BY <2>1, <2>2 DEF Fits
  <2> QED BY <2>2, <2>3, RequestKeepsShape DEF ShapeInv
<1>2. ASSUME NEW r \in Requests, Insert(r) PROVE ShapeInv'
  <2>1. PICK f \in Files :
          /\ row' = [row EXCEPT ![f] = [status |-> "uploaded", sha |-> request[r].content]]
          /\ object' = [object EXCEPT ![f] = request[r].content]
          /\ request' = [request EXCEPT ![r].pc = "enqueue", ![r].file = f]
    BY <1>2 DEF Insert
  <2>2. request[r].pc = "insert" /\ UNCHANGED <<vectors, queue, worker, lost>>
    BY <1>2 DEF Insert
  <2>3. request[r].content \in Contents BY <2>2 DEF RowsTyped
  <2>4. /\ request'[r].pc = "enqueue" /\ request'[r].file = f
        /\ \A s \in Requests \ {r} : request'[s] = request[s]
    BY <2>1 DEF RowsTyped, Requested
  <2>5. request'[r].op = request[r].op
    BY <2>1 DEF RowsTyped, Requested
  <2>6. request[r].op = "upload"
    BY <2>2, WaitsUp DEF Fits
  <2>7. Fits(request'[r]) BY <2>4, <2>5, <2>6 DEF Fits
  <2>8. object' \in [Files -> Contents \cup {0}] BY <2>1, <2>3 DEF ShapeInv
  <2>9. \A g \in Files : row'[g].status = "indexing" => row[g].status = "indexing"
    BY <2>1 DEF RowsTyped, Rows
  <2> QED BY <2>2, <2>4, <2>7, <2>8, <2>9, WaitsUp, RequestKeepsShape DEF ShapeInv
<1>3. ASSUME NEW r \in Requests, Enqueue(r) PROVE ShapeInv'
  <2>1. request[r].pc = "enqueue" /\ queue' = Append(queue, request[r].file) /\ Answer(r)
        /\ UNCHANGED <<row, object, vectors, worker, lost>>
    BY <1>3 DEF Enqueue
  <2>2. Up /\ request[r].file \in Files BY <2>1, WaitsUp DEF Fits
  <2>3. queue' \in Seq(Files) BY <2>1, <2>2, Queued DEF ShapeInv
  <2>4. Fits(request'[r]) /\ \A s \in Requests \ {r} : request'[s] = request[s]
    BY <2>1, AnswerMoves
  <2> QED BY <2>1, <2>2, <2>3, <2>4, RequestKeepsShape DEF ShapeInv
<1>4. ASSUME NEW r \in Requests, RetryCommit(r) \/ MarkDeleted(r) PROVE ShapeInv'
  <2>1. PICK f : f = request[r].file OBVIOUS
  <2>2. PICK s \in {"uploaded", "deleted"} :
          row' = [row EXCEPT ![f].status = Written(@, request[r].read.status, s)]
    BY <1>4, <2>1 DEF RetryCommit, MarkDeleted
  <2>3. /\ request[r].pc \in {"retry", "mark"}
        /\ To(r, IF request[r].pc = "retry" THEN "enqueue" ELSE "remove")
        /\ UNCHANGED <<object, vectors, queue, worker, lost>>
    BY <1>4 DEF RetryCommit, MarkDeleted
  <2>4. Up /\ Fits(request[r]) BY <2>3, WaitsUp
  <2>5. Fits(request'[r]) /\ \A t \in Requests \ {r} : request'[t] = request[t]
    BY <2>3, <2>4, ToMoves DEF Fits
  <2>6. \A g \in Files : row'[g].status = "indexing" => row[g].status = "indexing"
    BY <2>2 DEF RowsTyped, Rows, Written
  <2> QED BY <2>3, <2>4, <2>5, <2>6, RequestKeepsShape DEF ShapeInv
<1>5. ASSUME NEW r \in Requests, DeleteVectors(r) PROVE ShapeInv'
  <2>1. request[r].pc = "clear" /\ vectors' = [vectors EXCEPT ![request[r].file] = {}]
        /\ To(r, "mark") /\ UNCHANGED <<row, object, queue, worker, lost>>
    BY <1>5 DEF DeleteVectors
  <2>2. Up /\ Fits(request[r]) BY <2>1, WaitsUp
  <2>3. Fits(request'[r]) /\ \A t \in Requests \ {r} : request'[t] = request[t]
    BY <2>1, <2>2, ToMoves DEF Fits
  <2>4. vectors' \in [Files -> SUBSET (Contents \X {1, 2})] BY <2>1 DEF ShapeInv
  <2> QED BY <2>1, <2>2, <2>3, <2>4, RequestKeepsShape DEF ShapeInv
<1>6. ASSUME NEW r \in Requests, DeleteObject(r) PROVE ShapeInv'
  <2>1. request[r].pc = "remove" /\ object' = [object EXCEPT ![request[r].file] = 0]
        /\ Answer(r) /\ UNCHANGED <<row, vectors, queue, worker, lost>>
    BY <1>6 DEF DeleteObject
  <2>2. Fits(request'[r]) /\ \A t \in Requests \ {r} : request'[t] = request[t]
    BY <2>1, AnswerMoves
  <2>3. object' \in [Files -> Contents \cup {0}] BY <2>1 DEF ShapeInv
  <2> QED BY <2>1, <2>2, <2>3, WaitsUp, RequestKeepsShape DEF ShapeInv
<1>7. ASSUME NEW r \in Requests, EditPut(r) PROVE ShapeInv'
  <2>1. /\ request[r].pc = "put" /\ To(r, "save")
        /\ object' = [object EXCEPT ![request[r].file] = request[r].content]
        /\ UNCHANGED <<row, vectors, queue, worker, lost>>
    BY <1>7 DEF EditPut
  <2>2. Up /\ Fits(request[r]) BY <2>1, WaitsUp
  <2>3. Fits(request'[r]) /\ \A t \in Requests \ {r} : request'[t] = request[t]
    BY <2>1, <2>2, ToMoves DEF Fits
  <2>4. object' \in [Files -> Contents \cup {0}] BY <2>1 DEF ShapeInv, RowsTyped
  <2> QED BY <2>1, <2>2, <2>3, <2>4, RequestKeepsShape DEF ShapeInv
<1>8. ASSUME NEW r \in Requests, EditSave(r) PROVE ShapeInv'
  <2>1. /\ request[r].pc = "save" /\ To(r, "enqueue")
        /\ UNCHANGED <<object, vectors, queue, worker, lost>>
    BY <1>8 DEF EditSave, AfterEdit
  <2>2. PICK f : f = request[r].file OBVIOUS
  <2>3. row' = [row EXCEPT ![f] =
                 [status |-> Written(row[f].status, request[r].read.status, "uploaded"),
                  sha |-> Written(row[f].sha, request[r].read.sha, request[r].content)]]
    BY <1>8, <2>2 DEF EditSave
  <2>4. Up /\ Fits(request[r]) BY <2>1, WaitsUp
  <2>5. Fits(request'[r]) /\ \A t \in Requests \ {r} : request'[t] = request[t]
    BY <2>1, <2>4, ToMoves DEF Fits
  <2>6. \A g \in Files : row'[g].status = "indexing" => row[g].status = "indexing"
    BY <2>3 DEF RowsTyped, Rows, Written
  <2> QED BY <2>1, <2>4, <2>5, <2>6, RequestKeepsShape DEF ShapeInv
<1>9. ASSUME NEW r \in Requests, RequestFails(r) PROVE ShapeInv'
  <2>1. /\ request[r].pc # "none" /\ Answer(r) /\ lost \subseteq lost'
        /\ UNCHANGED <<row, object, vectors, queue, worker>>
    BY <1>9 DEF RequestFails
  <2>2. Fits(request'[r]) /\ \A t \in Requests \ {r} : request'[t] = request[t]
    BY <2>1, AnswerMoves
  <2> QED BY <2>1, <2>2, WaitsUp, RequestKeepsShape DEF ShapeInv
<1>10. CASE Take
  <2>1. /\ worker.pc = "idle" /\ queue # <<>> /\ queue' = Tail(queue)
        /\ UNCHANGED <<row, object, vectors, request, lost>>
        /\ \/ worker' = Idle
           \/ worker' = [pc |-> "read", file |-> Head(queue), read |-> row[Head(queue)].status,
                         content |-> 0]
    BY <1>10 DEF Take
  <2>2. Head(queue) \in Files /\ queue' \in Seq(Files)
    BY <2>1, Dequeued DEF ShapeInv
  <2>3. row[Head(queue)].status \in Statuses BY <2>2 DEF RowsTyped, Rows
  <2>4. /\ worker' \in Workers /\ (worker'.pc \in {"down", "idle"} <=> worker'.file = 0)
        /\ worker'.pc \notin {"down", "loaded", "cleared", "added"}
    BY <2>1, <2>2, <2>3 DEF Workers, Idle, Statuses
  <2>5. \A f \in Files : row[f].status = "indexing" => f \in lost
    BY <2>1 DEF ShapeInv, Up
  <2> QED BY <2>1, <2>2, <2>4, <2>5 DEF ShapeInv, Up
<1>11. CASE MarkIndexing \/ Load \/ ClearVectors \/ AddVectors
  <2>1. /\ worker.pc \in {"read", "indexing", "loaded", "cleared"}
        /\ UNCHANGED <<queue, request, lost, object>>
        /\ worker'.file = worker.file /\ worker' \in Workers
        /\ worker'.pc \notin {"down", "idle"}
        /\ worker'.pc \in {"loaded", "cleared", "added"} => worker'.content \in Contents
    <3>1. worker.file \in Files BY <1>11 DEF MarkIndexing, Load, ClearVectors, AddVectors, ShapeInv, Workers
    <3>2. object[worker.file] \in Contents \cup {0} BY <3>1 DEF ShapeInv
    <3>3. CASE MarkIndexing BY <3>3 DEF MarkIndexing, ShapeInv, Workers
    <3>4. CASE Load BY <3>2, <3>4 DEF Load, ShapeInv, Workers
    <3>5. CASE ClearVectors BY <3>5 DEF ClearVectors, ShapeInv, Workers
    <3>6. CASE AddVectors BY <3>6 DEF AddVectors, ShapeInv, Workers
    <3> QED BY <1>11, <3>3, <3>4, <3>5, <3>6
  <2>2. worker.file # 0 BY <2>1 DEF ShapeInv
  <2>3. vectors' \in [Files -> SUBSET (Contents \X {1, 2})]
    <3>1. CASE UNCHANGED vectors BY <3>1 DEF ShapeInv
    <3>2. CASE ClearVectors BY <3>2 DEF ClearVectors, Cleared, ShapeInv
    <3>3. CASE AddVectors
      <4>1. worker.content \in Contents BY <3>3 DEF AddVectors, ShapeInv
      <4>2. Chunks(worker.content) \in SUBSET (Contents \X {1, 2}) BY <4>1 DEF Chunks
      <4>3. vectors' = [vectors EXCEPT ![worker.file] = @ \cup Chunks(worker.content)]
        BY <3>3 DEF AddVectors
      <4> QED BY <4>2, <4>3 DEF ShapeInv
    <3> QED BY <1>11, <3>1, <3>2, <3>3 DEF MarkIndexing, Load
  <2>4. \A f \in Files : f # worker.file => row'[f] = row[f]
    BY <1>11 DEF MarkIndexing, Load, ClearVectors, AddVectors, RowsTyped
  <2>5. \A f \in Files : row'[f].status = "indexing" => worker'.file = f \/ ~Up' \/ f \in lost'
    BY <2>1, <2>4 DEF ShapeInv, Up
  <2> QED BY <2>1, <2>2, <2>3, <2>5 DEF ShapeInv, Up
<1>12. CASE Finish
  <2>1. /\ worker.pc \in {"added", "failing"} /\ worker' = Idle
        /\ UNCHANGED <<object, vectors, queue, request, lost>>
        /\ \E outcome \in {"ready", "failed"} :
             row' = [row EXCEPT ![worker.file].status = outcome]
    BY <1>12 DEF Finish
  <2>2. worker' \in Workers /\ worker'.pc = "idle" /\ worker'.file = 0
    BY <2>1 DEF Workers, Idle, Statuses
  <2>3. \A f \in Files : row'[f].status = "indexing" => row[f].status = "indexing" /\ worker.file # f
    BY <2>1 DEF RowsTyped, Rows
  <2>4. \A f \in Files : row'[f].status = "indexing" => f \in lost
    BY <2>1, <2>3 DEF ShapeInv, Up
  <2> QED BY <2>1, <2>2, <2>4 DEF ShapeInv, Up
<1>13. CASE WorkerFails
  <2>1. /\ worker.pc \in {"read", "indexing", "loaded", "cleared", "added", "failing"}
        /\ UNCHANGED <<object, row, queue, request>>
        /\ \/ worker' = [worker EXCEPT !.pc = "failing"] /\ lost' = lost
           \/ worker' = Idle /\ lost' = lost \cup {worker.file}
        /\ \/ vectors' = vectors
           \/ /\ worker.pc = "cleared"
              /\ vectors' = [vectors EXCEPT ![worker.file] = @ \cup {<<worker.content, 1>>}]
    BY <1>13 DEF WorkerFails
  <2>2. /\ worker' \in Workers /\ (worker'.pc \in {"down", "idle"} <=> worker'.file = 0)
        /\ worker'.pc \in {"failing", "idle"}
        /\ worker'.file = worker.file \/ lost' = lost \cup {worker.file}
        /\ lost \subseteq lost'
    <3>1. worker.file # 0 BY <2>1 DEF ShapeInv
    <3>2. CASE worker' = [worker EXCEPT !.pc = "failing"] /\ lost' = lost
      BY <3>1, <3>2 DEF ShapeInv, Workers
    <3>3. CASE worker' = Idle /\ lost' = lost \cup {worker.file}
      BY <3>3 DEF Workers, Idle, Statuses
    <3> QED BY <2>1, <3>2, <3>3
  <2>3. vectors' \in [Files -> SUBSET (Contents \X {1, 2})]
    <3>1. CASE worker.pc = "cleared"
      <4>1. worker.content \in Contents BY <3>1 DEF ShapeInv
      <4> QED BY <2>1, <4>1 DEF ShapeInv
    <3>2. CASE worker.pc # "cleared"
      BY <2>1, <3>2 DEF ShapeInv
    <3> QED BY <3>1, <3>2
  <2>4. \A f \in Files : row'[f].status = "indexing" => worker'.file = f \/ f \in lost'
    BY <2>1, <2>2 DEF ShapeInv, Up
  <2> QED BY <2>1, <2>2, <2>3, <2>4 DEF ShapeInv, Up
<1>14. CASE Halt
  <2>1. /\ queue' = <<>> /\ worker' = [Idle EXCEPT !.pc = "down"]
        /\ request' = [r \in Requests |-> NoRequest]
        /\ UNCHANGED <<row, object, lost>>
        /\ \E part \in {{}, {<<worker.content, 1>>}} :
             vectors' = IF worker.pc = "cleared"
                          THEN [vectors EXCEPT ![worker.file] = @ \cup part] ELSE vectors
    BY <1>14 DEF Halt
  <2>2. worker' \in Workers /\ worker'.pc = "down" /\ worker'.file = 0
    BY <2>1 DEF Workers, Idle, Statuses
  <2>3. vectors' \in [Files -> SUBSET (Contents \X {1, 2})]
    <3>1. CASE worker.pc = "cleared"
      <4>1. worker.content \in Contents BY <3>1 DEF ShapeInv
      <4>2. PICK part \in {{}, {<<worker.content, 1>>}} :
              vectors' = [vectors EXCEPT ![worker.file] = @ \cup part]
        BY <2>1, <3>1
      <4>3. part \in SUBSET (Contents \X {1, 2}) BY <4>1
      <4> QED BY <4>2, <4>3 DEF ShapeInv
    <3>2. CASE worker.pc # "cleared"
      BY <2>1, <3>2 DEF ShapeInv
    <3> QED BY <3>1, <3>2
  <2>4. Fits(NoRequest) BY DEF Fits, NoRequest
  <2> QED BY <2>1, <2>2, <2>3, <2>4 DEF ShapeInv, Up
<1>15. CASE Restart
  <2>1. PICK s \in [1..Cardinality(Recovered) -> Recovered] : queue' = s
    BY <1>15 DEF Restart
  <2>2. /\ row' = [f \in Files |-> IF f \in Recovered THEN [row[f] EXCEPT !.status = "uploaded"]
                                   ELSE row[f]]
        /\ worker' = Idle /\ UNCHANGED <<object, vectors, request, lost>>
    BY <1>15 DEF Restart
  <2>3. Cardinality(Recovered) \in Nat
    BY FS_Subset, FS_CardinalityType DEF Recovered
  <2>4. queue' \in Seq(Files)
    <3>1. PICK n \in Nat : n = Cardinality(Recovered) BY <2>3
    <3>2. s \in [1..n -> Files] BY <2>1, <3>1 DEF Recovered
    <3> QED BY <2>1, <3>2
  <2>5. \A f \in Files : row'[f].status # "indexing"
    BY <2>2 DEF RowsTyped, Rows, Recovered, Recoverable
  <2>6. worker' \in Workers /\ worker'.pc = "idle" /\ worker'.file = 0
    BY <2>2 DEF Workers, Idle, Statuses
  <2> QED BY <2>2, <2>4, <2>5, <2>6 DEF ShapeInv, Up
<1>16. CASE UNCHANGED vars
  BY <1>16 DEF vars, ShapeInv, Up
<1> QED
  BY <1>1, <1>2, <1>3, <1>4, <1>5, <1>6, <1>7, <1>8, <1>9, <1>10, <1>11, <1>12, <1>13, <1>14,
     <1>15, <1>16
  DEF Next, RequestStep, WorkerStep

\* The parts have their types, and a row being indexed has a reason to be.
THEOREM FilesTypeCorrect == Spec => []TypeOK
<1>1. RowsTyped /\ ShapeInv => TypeOK
  BY DEF RowsTyped, ShapeInv, TypeOK, Rows, Requested, Workers
<1>2. Init => RowsTyped /\ ContentInv /\ ShapeInv
  BY InitFileInv, InitShape
<1>3. RowsTyped /\ ContentInv /\ ShapeInv /\ [Next]_vars => (RowsTyped /\ ContentInv /\ ShapeInv)'
  BY NextFileInv, NextShape
<1> QED BY <1>1, <1>2, <1>3, PTL DEF Spec

-----------------------------------------------------------------------------
(* The parts of a file                                                     *)

Has(f, pcs) == \E r \in Requests : request[r].file = f /\ request[r].pc \in pcs

\* what has read the row and will still write it or the object
Busy(f) == worker.file = f \/ Has(f, {"retry", "put", "save"})

\* the file will be indexed again
Coming(f) == f \in ToSet(queue) \/ Has(f, {"enqueue", "save"})

\* An id without a row has no work.
Unused(f) == row[f].status = "none" =>
  worker.file # f /\ f \notin ToSet(queue) /\ \A r \in Requests : request[r].file # f

\* A deletion that is past its commit, or that found the file deleted, has it deleted.
Doomed(f) == \A r \in Requests :
  /\ request[r].file = f
  /\ \/ request[r].pc = "remove"
     \/ request[r].pc \in {"clear", "mark"} /\ request[r].read.status = "deleted"
  => row[f].status = "deleted"

\* Nothing will write a deleted file again; its object is gone, or goes.
Gone(f) == row[f].status = "deleted" =>
  ~Busy(f) /\ vectors[f] = {} /\ (object[f] = 0 \/ Has(f, {"remove"}))

Emptied(f) == Has(f, {"mark"}) => vectors[f] = {}

\* What the worker holds is stored, or the file will be indexed again; its chunks are
\* those of what it holds, unless a deletion took them.
Indexes(f) == worker.file = f =>
  /\ worker.pc \in {"loaded", "cleared", "added"} => object[f] = worker.content \/ Coming(f)
  /\ worker.pc = "cleared" => vectors[f] = {}
  /\ worker.pc = "added" => vectors[f] = Chunks(worker.content) \/ Has(f, {"mark"})

\* A ready file is found by its chunks, or something is on its way to mend it.
Found(f) == row[f].status = "ready" =>
  worker.file = f \/ vectors[f] = Chunks(object[f]) \/ Coming(f) \/ Has(f, {"mark"})

Held(f) == Doomed(f) /\ Gone(f) /\ Emptied(f) /\ Indexes(f) /\ Found(f)

PartInv(f) == Unused(f) /\ (f \notin torn => Held(f))

\* A step that is not about the file.
Elsewhere(f) ==
  /\ row'[f] = row[f] /\ object'[f] = object[f] /\ vectors'[f] = vectors[f]
  /\ worker.file = f \/ worker'.file = f => worker' = worker
  /\ \A r \in Requests : request[r].file = f \/ request'[r].file = f => request'[r] = request[r]
  /\ f \in ToSet(queue') <=> f \in ToSet(queue)
  /\ f \in torn => f \in torn'

\* A step that is not about the file keeps what its parts have to do with each other.
LEMMA ElsewhereKeeps ==
  ASSUME NEW f \in Files, Elsewhere(f), PartInv(f)
  PROVE  PartInv(f)'
<1>1. \A pcs : Has(f, pcs)' <=> Has(f, pcs)
  BY DEF Elsewhere, Has
<1>2. Busy(f)' <=> Busy(f) BY <1>1 DEF Elsewhere, Busy
<1>3. Coming(f)' <=> Coming(f) BY <1>1 DEF Elsewhere, Coming
<1>4. Unused(f)' BY DEF Elsewhere, PartInv, Unused
<1>5. ASSUME f \notin torn' PROVE Held(f)'
  <2>1. Held(f) BY <1>5 DEF PartInv, Elsewhere
  <2>2. Doomed(f)' BY <2>1 DEF Held, Doomed, Elsewhere
  <2>3. Gone(f)' BY <2>1, <1>1, <1>2 DEF Held, Gone, Elsewhere
  <2>4. Emptied(f)' BY <2>1, <1>1 DEF Held, Emptied, Elsewhere
  <2>5. Indexes(f)' BY <2>1, <1>1, <1>3 DEF Held, Indexes, Elsewhere
  <2>6. Found(f)' BY <2>1, <1>1, <1>3 DEF Held, Found, Elsewhere
  <2> QED BY <2>2, <2>3, <2>4, <2>5, <2>6 DEF Held
<1> QED BY <1>4, <1>5 DEF PartInv

\* Where a request is tells its operation.
LEMMA OnIsHas ==
  ASSUME ShapeInv, NEW f \in Files
  PROVE  /\ Writing(f) <=> Busy(f)
         /\ Deleting(f) <=> Has(f, {"clear", "mark", "remove"})
         /\ On(f, {"delete"}, {"mark"}) <=> Has(f, {"mark"})
         /\ On(f, {"upload", "retry", "edit"}, {"enqueue"}) <=> Has(f, {"enqueue"})
         /\ On(f, {"delete", "edit"}, {"mark", "remove", "save"})
              <=> Has(f, {"mark", "remove", "save"})
<1>1. \A r \in Requests : Fits(request[r]) BY DEF ShapeInv
<1>2. Writing(f) <=> Busy(f) BY <1>1 DEF Writing, Busy, Has, On, Fits
<1>3. Deleting(f) <=> Has(f, {"clear", "mark", "remove"}) BY <1>1 DEF Deleting, Has, On, Fits
<1>4. On(f, {"delete"}, {"mark"}) <=> Has(f, {"mark"}) BY <1>1 DEF Has, On, Fits
<1>5. On(f, {"upload", "retry", "edit"}, {"enqueue"}) <=> Has(f, {"enqueue"})
  BY <1>1 DEF Has, On, Fits
<1>6. On(f, {"delete", "edit"}, {"mark", "remove", "save"})
        <=> Has(f, {"mark", "remove", "save"})
  BY <1>1 DEF Has, On, Fits
<1> QED BY <1>2, <1>3, <1>4, <1>5, <1>6

\* A file has what the moving request has, or what another has.
OthersHave(r, f, pcs) == \E s \in Requests \ {r} : request[s].file = f /\ request[s].pc \in pcs

\* What a file has at any operation, by what the one moving request has.
LEMMA HasMoves ==
  ASSUME NEW r \in Requests, \A s \in Requests \ {r} : request'[s] = request[s],
         NEW f \in Files
  PROVE  \A pcs :
           /\ Has(f, pcs) <=> \/ request[r].file = f /\ request[r].pc \in pcs
                              \/ OthersHave(r, f, pcs)
           /\ Has(f, pcs)' <=> \/ request'[r].file = f /\ request'[r].pc \in pcs
                               \/ OthersHave(r, f, pcs)
<1> TAKE pcs
<1>1. Has(f, pcs) <=> \/ request[r].file = f /\ request[r].pc \in pcs
                      \/ OthersHave(r, f, pcs)
  BY DEF Has, OthersHave
<1>2. Has(f, pcs)' <=> \/ request'[r].file = f /\ request'[r].pc \in pcs
                       \/ OthersHave(r, f, pcs)
  BY DEF Has, OthersHave
<1> QED BY <1>1, <1>2

PartsInv == \A f \in Files : PartInv(f)

\* A step about one file concerns only that file.
LEMMA OneFile ==
  ASSUME PartsInv, NEW f, \A g \in Files \ {f} : Elsewhere(g), f \in Files => PartInv(f)'
  PROVE  PartsInv'
<1> SUFFICES ASSUME NEW g \in Files PROVE PartInv(g)'
  BY DEF PartsInv
<1>1. CASE g = f BY <1>1
<1>2. CASE g # f BY <1>2, ElsewhereKeeps DEF PartsInv
<1> QED BY <1>1, <1>2

\* A request on a file says nothing about the others.
LEMMA RequestElsewhere ==
  ASSUME NEW r \in Requests, \A s \in Requests \ {r} : request'[s] = request[s], NEW f,
         request[r].file \in {f, 0}, request'[r].file \in {f, 0}, worker' = worker,
         torn \subseteq torn',
         \A g \in Files \ {f} : /\ row'[g] = row[g] /\ object'[g] = object[g]
                                /\ vectors'[g] = vectors[g]
                                /\ g \in ToSet(queue') <=> g \in ToSet(queue)
  PROVE  \A g \in Files \ {f} : Elsewhere(g)
BY FileAssumption DEF Elsewhere

\* A file with work has a row, and one that something will still write is not deleted.
LEMMA WorkHasRow ==
  ASSUME NEW f \in Files, PartInv(f), NEW r \in Requests, request[r].file = f
  PROVE  /\ row[f].status # "none"
         /\ f \notin torn /\ request[r].pc \in {"retry", "put", "save"} =>
              row[f].status # "deleted"
BY DEF PartInv, Unused, Held, Gone, Busy, Has

\* The start of a request leaves the parts of its file as they are.
LEMMA StartParts ==
  ASSUME RowsTyped, ShapeInv, PartsInv, NEW r \in Requests,
         \/ \E c \in Contents : Upload(r, c) \/ \E f \in Files : Edit(r, f, c)
         \/ \E f \in Files : Retry(r, f) \/ Delete(r, f)
  PROVE  PartsInv'
<1>1. PICK op, pc, f, c :
         /\ Start(r, op, pc, f, c)
         /\ \/ op = "upload" /\ pc = "insert" /\ f = 0
            \/ op = "upload" /\ pc = "enqueue" /\ f \in Files /\ row[f].status = "uploaded"
            \/ /\ f \in Files /\ row[f].status \notin {"none", "deleted"}
               /\ <<op, pc>> \in {<<"retry", "retry">>, <<"edit", "put">>}
            \/ op = "delete" /\ pc = "clear" /\ f \in Files /\ row[f].status # "none"
  BY Starts
<1>2. /\ request'[r].pc = pc /\ request'[r].op = op /\ request'[r].file = f
      /\ (f # 0 => request'[r].read = row[f]) /\ request[r] = NoRequest
      /\ \A s \in Requests \ {r} : request'[s] = request[s]
      /\ UNCHANGED <<row, object, vectors, queue, worker, torn, lost>> /\ Up
  BY <1>1, StartMoves
<1>3. \A g \in Files \ {f} : Elsewhere(g)
  <2>1. request[r].file \in {f, 0} /\ request'[r].file \in {f, 0} BY <1>2 DEF NoRequest
  <2>2. /\ row' = row /\ object' = object /\ vectors' = vectors /\ queue' = queue
        /\ worker' = worker /\ torn \subseteq torn'
    BY <1>2
  <2> QED BY <1>2, <2>1, <2>2, RequestElsewhere
<1>4. ASSUME f \in Files PROVE PartInv(f)'
  <2>1. /\ pc = "clear" \/ row[f].status # "deleted"
        /\ row[f].status # "none" /\ pc \in {"clear", "enqueue", "retry", "put"}
    BY <1>1, <1>4, FileAssumption
  <2>2. \A pcs : Has(f, pcs)' <=> pc \in pcs \/ Has(f, pcs)
    BY <1>2, <1>4, HasMoves, FileAssumption DEF NoRequest
  <2>3. Unused(f)' BY <1>2, <2>1 DEF Unused
  <2>4. ASSUME f \notin torn' PROVE Held(f)'
    <3>1. Held(f) BY <1>2, <1>4, <2>4 DEF PartsInv, PartInv
    <3>2. Doomed(f)'
      BY <1>2, <1>4, <2>1, <3>1, FileAssumption DEF Held, Doomed
    <3>3. Gone(f)'
      BY <1>2, <2>1, <2>2, <3>1 DEF Held, Gone, Busy
    <3>4. Emptied(f)' BY <1>2, <2>1, <2>2, <3>1 DEF Held, Emptied
    <3>5. Indexes(f)' BY <1>2, <2>2, <3>1 DEF Held, Indexes, Coming
    <3>6. Found(f)' BY <1>2, <2>2, <3>1 DEF Held, Found, Coming
    <3> QED BY <3>2, <3>3, <3>4, <3>5, <3>6 DEF Held
  <2> QED BY <2>3, <2>4 DEF PartInv
<1> QED BY <1>3, <1>4, OneFile

\* A new row has all its parts.
LEMMA InsertParts ==
  ASSUME RowsTyped, ShapeInv, PartsInv, NEW r \in Requests, Insert(r)
  PROVE  PartsInv'
<1>1. PICK f \in Files :
        /\ row[f] = NoRow
        /\ row' = [row EXCEPT ![f] = [status |-> "uploaded", sha |-> request[r].content]]
        /\ object' = [object EXCEPT ![f] = request[r].content]
        /\ request' = [request EXCEPT ![r].pc = "enqueue", ![r].file = f]
  BY DEF Insert
<1>2. request[r].pc = "insert" /\ UNCHANGED <<vectors, queue, worker, torn>>
  BY DEF Insert
<1>3. /\ request'[r].pc = "enqueue" /\ request'[r].file = f
      /\ \A s \in Requests \ {r} : request'[s] = request[s]
  BY <1>1 DEF RowsTyped, Requested
<1>4. request[r].file = 0
  BY <1>2, WaitsUp DEF Fits, RowsTyped, Requested
<1>5. /\ row'[f].status = "uploaded"
      /\ \A g \in Files \ {f} : row'[g] = row[g] /\ object'[g] = object[g]
  BY <1>1 DEF RowsTyped, ShapeInv
<1>6. \A g \in Files \ {f} : Elsewhere(g)
  BY <1>2, <1>3, <1>4, <1>5, RequestElsewhere
<1>7. /\ worker.file # f /\ f \notin ToSet(queue) /\ \A s \in Requests : request[s].file # f
  BY <1>1 DEF PartsInv, PartInv, Unused, NoRow
<1>8. PartInv(f)'
  <2>1. Has(f, {"mark"})' = FALSE BY <1>3, <1>7, HasMoves DEF OthersHave
  <2>2. Doomed(f)' BY <1>3, <1>7 DEF Doomed
  <2> QED
    BY <1>2, <1>5, <1>7, <2>1, <2>2
    DEF PartInv, Unused, Held, Gone, Emptied, Indexes, Found
<1> QED BY <1>6, <1>8, OneFile

\* What a request's own step does to its file, when another step will still mend it: the
\* row stays as it is, or is to be indexed.
LEMMA MendingParts ==
  ASSUME ShapeInv, PartsInv, NEW r \in Requests, NEW f \in Files, request[r].file = f,
         \A s \in Requests \ {r} : request'[s] = request[s],
         request'[r].file \in {f, 0}, request[r].pc \notin {"mark", "remove"},
         request'[r].pc \notin {"clear", "mark", "remove"},
         worker' = worker, torn' = torn, vectors' = vectors,
         \A g \in Files \ {f} : /\ row'[g] = row[g] /\ object'[g] = object[g]
                                /\ g \in ToSet(queue') <=> g \in ToSet(queue),
         Coming(f)',
         \/ row'[f].status = row[f].status /\ object' = object
            /\ request'[r].pc \notin {"retry", "put", "save"}
         \/ request[r].pc \in {"retry", "put", "save"} /\ row'[f].status \in {row[f].status, "uploaded"}
  PROVE  PartsInv'
<1>1. \A g \in Files \ {f} : Elsewhere(g)
  BY RequestElsewhere
<1>2. row[f].status # "none" BY WorkHasRow DEF PartsInv
<1>3. Unused(f)' BY <1>2 DEF Unused
<1>4. ASSUME f \notin torn' PROVE Held(f)'
  <2>1. Held(f) BY <1>4 DEF PartsInv, PartInv
  <2>2. /\ Has(f, {"mark"})' <=> Has(f, {"mark"})
        /\ Has(f, {"remove"})' <=> Has(f, {"remove"})
    BY HasMoves
  <2>3. CASE row'[f].status = row[f].status /\ object' = object
             /\ request'[r].pc \notin {"retry", "put", "save"}
    <3>1. Busy(f)' => Busy(f) BY <2>3, HasMoves DEF Busy
    <3>2. Doomed(f)' BY <2>1, <2>3 DEF Held, Doomed
    <3> QED
      BY <2>1, <2>2, <2>3, <3>1, <3>2 DEF Held, Gone, Emptied, Indexes, Found
  <2>4. CASE request[r].pc \in {"retry", "put", "save"}
             /\ row'[f].status \in {row[f].status, "uploaded"}
    <3>1. row[f].status # "deleted" /\ row'[f].status # "deleted"
      BY <1>4, <2>4, WorkHasRow DEF PartsInv
    <3>2. Doomed(f)' BY <2>1, <3>1 DEF Held, Doomed
    <3> QED BY <2>1, <2>2, <3>1, <3>2 DEF Held, Gone, Emptied, Indexes, Found
  <2> QED BY <2>3, <2>4
<1> QED BY <1>1, <1>3, <1>4, OneFile DEF PartInv

\* An upload, a retry and an edit leave their file to be indexed.
LEMMA MendingSteps ==
  ASSUME RowsTyped, ShapeInv, PartsInv, NEW r \in Requests,
         Enqueue(r) \/ RetryCommit(r) \/ EditPut(r) \/ EditSave(r)
  PROVE  PartsInv'
<1>1. PICK f : f = request[r].file OBVIOUS
<1>2. f \in Files /\ request[r].pc \in {"enqueue", "retry", "put", "save"}
  BY <1>1, WaitsUp DEF Fits, Enqueue, RetryCommit, EditPut, EditSave
<1>3. CASE Enqueue(r)
  <2>1. /\ request[r].pc = "enqueue" /\ queue' = Append(queue, f) /\ Answer(r)
        /\ row' = row /\ object' = object /\ vectors' = vectors /\ worker' = worker /\ torn' = torn
    BY <1>1, <1>3 DEF Enqueue
  <2>2. ToSet(queue') = ToSet(queue) \cup {f} BY <1>2, <2>1, Queued DEF ShapeInv
  <2>3. /\ request'[r].file = 0 /\ request'[r].pc = "none"
        /\ \A s \in Requests \ {r} : request'[s] = request[s]
    BY <2>1, AnswerMoves
  <2>4. Coming(f)' BY <2>2 DEF Coming
  <2> QED BY <1>1, <1>2, <2>1, <2>2, <2>3, <2>4, MendingParts
<1>4. CASE RetryCommit(r)
  <2>1. /\ row' = [row EXCEPT ![f].status = Written(@, request[r].read.status, "uploaded")]
        /\ request[r].pc = "retry" /\ To(r, "enqueue")
        /\ object' = object /\ vectors' = vectors /\ worker' = worker /\ torn' = torn /\ queue' = queue
    BY <1>1, <1>4 DEF RetryCommit
  <2>2. /\ row'[f].status \in {row[f].status, "uploaded"}
        /\ \A g \in Files \ {f} : row'[g] = row[g]
    BY <1>2, <2>1 DEF RowsTyped, Rows, Written
  <2>3. /\ request'[r].file = f /\ request'[r].pc = "enqueue"
        /\ \A s \in Requests \ {r} : request'[s] = request[s]
    BY <1>1, <2>1, ToMoves
  <2>4. Coming(f)' BY <2>3 DEF Coming, Has
  <2> QED BY <1>1, <1>2, <2>1, <2>2, <2>3, <2>4, MendingParts
<1>5. CASE EditPut(r)
  <2>1. /\ object' = [object EXCEPT ![f] = request[r].content]
        /\ request[r].pc = "put" /\ To(r, "save")
        /\ row' = row /\ vectors' = vectors /\ worker' = worker /\ torn' = torn /\ queue' = queue
    BY <1>1, <1>5 DEF EditPut
  <2>2. \A g \in Files \ {f} : object'[g] = object[g]
    BY <2>1 DEF ShapeInv
  <2>3. /\ request'[r].file = f /\ request'[r].pc = "save"
        /\ \A s \in Requests \ {r} : request'[s] = request[s]
    BY <1>1, <2>1, ToMoves
  <2>4. Coming(f)' BY <2>3 DEF Coming, Has
  <2> QED BY <1>1, <1>2, <2>1, <2>2, <2>3, <2>4, MendingParts
<1>6. CASE EditSave(r)
  <2>1. /\ row' = [row EXCEPT ![f] =
             [status |-> Written(row[f].status, request[r].read.status, "uploaded"),
              sha |-> Written(row[f].sha, request[r].read.sha, request[r].content)]]
        /\ request[r].pc = "save" /\ To(r, "enqueue")
        /\ object' = object /\ vectors' = vectors /\ worker' = worker /\ torn' = torn /\ queue' = queue
    BY <1>1, <1>6 DEF EditSave, AfterEdit
  <2>2. /\ row'[f].status \in {row[f].status, "uploaded"}
        /\ \A g \in Files \ {f} : row'[g] = row[g]
    BY <1>2, <2>1 DEF RowsTyped, Rows, Written
  <2>3. /\ request'[r].file = f /\ request'[r].pc = "enqueue"
        /\ \A s \in Requests \ {r} : request'[s] = request[s]
    BY <1>1, <2>1, ToMoves
  <2>4. Coming(f)' BY <2>3 DEF Coming, Has
  <2> QED BY <1>1, <1>2, <2>1, <2>2, <2>3, <2>4, MendingParts
<1> QED BY <1>3, <1>4, <1>5, <1>6

\* A deletion takes the chunks, then the row, then the object.
LEMMA DeletionSteps ==
  ASSUME RowsTyped, ShapeInv, PartsInv, NEW r \in Requests,
         DeleteVectors(r) \/ MarkDeleted(r) \/ DeleteObject(r)
  PROVE  PartsInv'
<1>1. PICK f : f = request[r].file OBVIOUS
<1>2. /\ f \in Files /\ Fits(request[r])
      /\ worker' = worker /\ queue' = queue /\ torn \subseteq torn'
  BY <1>1, WaitsUp DEF Fits, DeleteVectors, MarkDeleted, DeleteObject
<1>3. row[f].status # "none" /\ PartInv(f) BY <1>1, <1>2, WorkHasRow DEF PartsInv
<1>4. CASE DeleteVectors(r)
  <2>1. /\ request[r].pc = "clear" /\ vectors' = [vectors EXCEPT ![f] = {}] /\ To(r, "mark")
        /\ row' = row /\ object' = object /\ torn' = torn
    BY <1>1, <1>4 DEF DeleteVectors
  <2>2. /\ request'[r].pc = "mark" /\ request'[r].file = f /\ request'[r].read = request[r].read
        /\ \A s \in Requests \ {r} : request'[s] = request[s]
    BY <1>1, <2>1, ToMoves
  <2>3. vectors'[f] = {} /\ \A g \in Files \ {f} : vectors'[g] = vectors[g]
    BY <1>2, <2>1 DEF ShapeInv
  <2>4. \A g \in Files \ {f} : Elsewhere(g)
    BY <1>1, <1>2, <2>1, <2>2, <2>3, RequestElsewhere
  <2>5. /\ Has(f, {"mark"})'
        /\ Has(f, {"remove"})' <=> Has(f, {"remove"})
        /\ Busy(f)' => Busy(f)
        /\ Coming(f)' <=> Coming(f)
    BY <1>1, <1>2, <2>1, <2>2, HasMoves DEF Busy, Coming
  <2>6. ASSUME f \notin torn' PROVE Held(f)'
    <3>1. Held(f) BY <1>3, <2>1, <2>6 DEF PartInv
    <3>2. Doomed(f)' BY <1>1, <2>1, <2>2, <3>1 DEF Held, Doomed
    <3> QED
      BY <1>2, <2>1, <2>3, <2>5, <3>1, <3>2 DEF Held, Gone, Emptied, Indexes, Found
  <2> QED BY <1>3, <2>1, <2>4, <2>6, OneFile DEF PartInv, Unused
<1>5. CASE MarkDeleted(r)
  <2>1. /\ row' = [row EXCEPT ![f].status = Written(@, request[r].read.status, "deleted")]
        /\ request[r].pc = "mark" /\ To(r, "remove") /\ object' = object /\ vectors' = vectors
        /\ torn' = IF Busy(f) THEN torn \cup {f} ELSE torn
    BY <1>1, <1>2, <1>5, OnIsHas DEF MarkDeleted
  <2>2. /\ request'[r].pc = "remove" /\ request'[r].file = f
        /\ \A s \in Requests \ {r} : request'[s] = request[s]
    BY <1>1, <2>1, ToMoves
  <2>3. /\ row'[f].status = Written(row[f].status, request[r].read.status, "deleted")
        /\ \A g \in Files \ {f} : row'[g] = row[g]
    BY <1>2, <2>1 DEF RowsTyped, Rows
  <2>4. \A g \in Files \ {f} : Elsewhere(g)
    BY <1>1, <1>2, <2>1, <2>2, <2>3, RequestElsewhere
  <2>5. /\ Has(f, {"remove"})' /\ Has(f, {"mark"})
        /\ Busy(f)' => Busy(f)
    BY <1>1, <1>2, <2>1, <2>2, HasMoves DEF Busy
  <2>6. row'[f].status # "none" BY <1>3, <2>3 DEF Written
  <2>7. ASSUME f \notin torn' PROVE Held(f)'
    <3>1. Held(f) /\ ~Busy(f) BY <1>3, <2>1, <2>7 DEF PartInv
    <3>2. row'[f].status = "deleted"
      BY <1>1, <2>1, <2>3, <3>1 DEF Held, Doomed, Written
    <3>3. vectors'[f] = {} /\ ~Busy(f)' /\ worker'.file # f
      BY <1>2, <2>1, <2>5, <3>1 DEF Held, Emptied, Busy
    <3> QED
      BY <2>5, <3>2, <3>3 DEF Held, Doomed, Gone, Emptied, Indexes, Found
  <2> QED BY <2>4, <2>6, <2>7, OneFile DEF PartInv, Unused
<1>6. CASE DeleteObject(r)
  <2>1. /\ request[r].pc = "remove" /\ object' = [object EXCEPT ![f] = 0] /\ Answer(r)
        /\ row' = row /\ vectors' = vectors /\ torn' = torn
    BY <1>1, <1>6 DEF DeleteObject
  <2>2. /\ request'[r].file = 0 /\ request'[r].pc = "none"
        /\ \A s \in Requests \ {r} : request'[s] = request[s]
    BY <2>1, AnswerMoves
  <2>3. object'[f] = 0 /\ \A g \in Files \ {f} : object'[g] = object[g]
    BY <1>2, <2>1 DEF ShapeInv
  <2>4. \A g \in Files \ {f} : Elsewhere(g)
    BY <1>1, <1>2, <2>1, <2>2, <2>3, RequestElsewhere
  <2>5. Busy(f)' => Busy(f)
    BY <1>1, <1>2, <2>1, <2>2, HasMoves DEF Busy
  <2>6. ASSUME f \notin torn' PROVE Held(f)'
    <3>1. Held(f) BY <1>3, <2>1, <2>6 DEF PartInv
    <3>2. row[f].status = "deleted" BY <1>1, <2>1, <3>1 DEF Held, Doomed
    <3>3. vectors[f] = {} /\ ~Busy(f) /\ worker.file # f
      BY <3>1, <3>2 DEF Held, Gone, Busy
    <3> QED
      BY <1>2, <2>1, <2>3, <2>5, <3>2, <3>3 DEF Held, Doomed, Gone, Emptied, Indexes, Found
  <2> QED BY <1>3, <2>1, <2>4, <2>6, OneFile DEF PartInv, Unused
<1> QED BY <1>4, <1>5, <1>6

\* A request that fails before its writes leaves its file as it was.
LEMMA FailureParts ==
  ASSUME RowsTyped, ShapeInv, PartsInv, NEW r \in Requests, RequestFails(r)
  PROVE  PartsInv'
<1>1. PICK f : f = request[r].file OBVIOUS
<1>2. /\ request[r].pc # "none" /\ Answer(r)
      /\ torn' = IF request[r].pc \in {"mark", "remove", "save", "enqueue"}
                   THEN torn \cup {f} ELSE torn
      /\ row' = row /\ object' = object /\ vectors' = vectors /\ queue' = queue
      /\ worker' = worker
  BY <1>1 DEF RequestFails
<1>3. /\ request'[r].file = 0 /\ request'[r].pc = "none"
      /\ \A s \in Requests \ {r} : request'[s] = request[s]
  BY <1>2, AnswerMoves
<1>4. \A g \in Files \ {f} : Elsewhere(g)
  BY <1>1, <1>2, <1>3, RequestElsewhere
<1>5. ASSUME f \in Files PROVE PartInv(f)'
  <2>1. row[f].status # "none" /\ PartInv(f) BY <1>1, <1>5, WorkHasRow DEF PartsInv
  <2>2. ASSUME f \notin torn' PROVE Held(f)'
    <3>1. Held(f) /\ request[r].pc \notin {"mark", "remove", "save", "enqueue", "none"}
      BY <1>2, <2>1, <2>2 DEF PartInv
    <3>2. /\ Busy(f)' => Busy(f)
          /\ Coming(f)' <=> Coming(f)
          /\ Has(f, {"mark"})' <=> Has(f, {"mark"})
          /\ Has(f, {"remove"})' <=> Has(f, {"remove"})
      BY <1>2, <1>3, <1>5, <3>1, HasMoves DEF Busy, Coming
    <3>3. Doomed(f)' BY <1>2, <1>3, <3>1 DEF Held, Doomed
    <3> QED BY <1>2, <3>1, <3>2, <3>3 DEF Held, Gone, Emptied, Indexes, Found
  <2> QED BY <1>2, <2>1, <2>2 DEF PartInv, Unused
<1> QED BY <1>4, <1>5, OneFile

\* The worker does nothing to the files it does not work on.
LEMMA WorkerElsewhere ==
  ASSUME NEW f, request' = request, worker.file \in {f, 0}, worker'.file \in {f, 0},
         torn \ {f} \subseteq torn',
         \A g \in Files \ {f} : /\ row'[g] = row[g] /\ object'[g] = object[g]
                                /\ vectors'[g] = vectors[g]
                                /\ g \in ToSet(queue') <=> g \in ToSet(queue)
  PROVE  \A g \in Files \ {f} : Elsewhere(g)
BY FileAssumption DEF Elsewhere

\* The worker takes the next file, unless it is deleted.
LEMMA TakeParts ==
  ASSUME RowsTyped, ShapeInv, PartsInv, Take
  PROVE  PartsInv'
<1>1. /\ worker.pc = "idle" /\ queue # <<>> /\ queue' = Tail(queue)
      /\ row' = row /\ object' = object /\ vectors' = vectors /\ request' = request
      /\ torn' = torn
      /\ worker' = IF row[Head(queue)].status = "deleted" THEN Idle
                   ELSE [pc |-> "read", file |-> Head(queue), read |-> row[Head(queue)].status,
                         content |-> 0]
  BY DEF Take, Skipped
<1>2. PICK f : f = Head(queue) OBVIOUS
<1>3. f \in Files /\ ToSet(queue) = {f} \cup ToSet(queue')
  BY <1>1, <1>2, Dequeued DEF ShapeInv
<1>4. worker.file = 0 /\ worker'.file \in {f, 0} /\ (worker'.file = f => worker'.pc = "read")
  BY <1>1, <1>2, <1>3, FileAssumption DEF ShapeInv, Idle
<1>5. \A g \in Files \ {f} : Elsewhere(g)
  BY <1>1, <1>3, <1>4, WorkerElsewhere
<1>6. PartInv(f) BY <1>3 DEF PartsInv
<1>7. row[f].status # "none" BY <1>3, <1>6 DEF PartInv, Unused
<1>8. \A pcs : Has(f, pcs)' <=> Has(f, pcs) BY <1>1 DEF Has
<1>9. ASSUME f \notin torn' PROVE Held(f)'
  <2>1. Held(f) BY <1>1, <1>6, <1>9 DEF PartInv
  <2>2. Doomed(f)' BY <1>1, <2>1 DEF Held, Doomed
  <2>3. CASE row[f].status = "deleted"
    <3>1. worker'.file = 0 BY <1>1, <1>2, <2>3 DEF Idle
    <3> QED
      BY <1>1, <1>3, <1>8, <2>1, <2>2, <2>3, <3>1, FileAssumption
      DEF Held, Gone, Busy, Emptied, Indexes, Found
  <2>4. CASE row[f].status # "deleted"
    <3>1. worker'.file = f /\ worker'.pc = "read" BY <1>1, <1>2, <2>4
    <3> QED
      BY <1>1, <1>8, <2>1, <2>2, <2>4, <3>1 DEF Held, Gone, Emptied, Indexes, Found
  <2> QED BY <2>3, <2>4
<1> QED BY <1>1, <1>5, <1>7, <1>9, OneFile DEF PartInv, Unused

\* From the row it read to the outcome, the worker keeps the parts of its file in step.
LEMMA WorkerParts ==
  ASSUME RowsTyped, ShapeInv, PartsInv,
         MarkIndexing \/ Load \/ ClearVectors \/ AddVectors \/ Finish \/ WorkerFails
  PROVE  PartsInv'
<1>1. PICK f : f = worker.file OBVIOUS
<1>2. /\ worker.pc \in {"read", "indexing", "loaded", "cleared", "added", "failing"}
      /\ request' = request /\ queue' = queue /\ object' = object
  BY DEF MarkIndexing, Load, ClearVectors, AddVectors, Finish, WorkerFails
<1>3. /\ f \in Files
      /\ \/ worker' = Idle
         \/ /\ worker'.file = f
            /\ worker'.content = worker.content \/ worker'.pc = "loaded"
  BY <1>1, <1>2
  DEF ShapeInv, Workers, MarkIndexing, Load, ClearVectors, AddVectors, Finish, WorkerFails
<1>4. worker'.file \in {f, 0} BY <1>3 DEF Idle
<1>5. \A g \in Files \ {f} : row'[g] = row[g] /\ vectors'[g] = vectors[g]
  BY <1>1
  DEF RowsTyped, ShapeInv, MarkIndexing, Load, ClearVectors, AddVectors, Finish, WorkerFails
<1>6. torn \ {f} \subseteq torn'
  BY <1>1 DEF MarkIndexing, Load, ClearVectors, AddVectors, Finish, WorkerFails, Undone
<1>7. \A g \in Files \ {f} : Elsewhere(g)
  BY <1>1, <1>2, <1>4, <1>5, <1>6, WorkerElsewhere
<1>8. PartInv(f) /\ row[f].status # "none"
  BY <1>1, <1>3 DEF PartsInv, PartInv, Unused
<1>9. row'[f].status # "none"
  BY <1>1, <1>3, <1>8
  DEF RowsTyped, Rows, Written, MarkIndexing, Load, ClearVectors, AddVectors, Finish, WorkerFails
<1>10. \A pcs : Has(f, pcs)' <=> Has(f, pcs) BY <1>2 DEF Has
<1>11. Coming(f)' <=> Coming(f) BY <1>2, <1>10 DEF Coming
<1>12. f \notin torn => /\ Held(f) /\ row[f].status # "deleted"
                        /\ ~Has(f, {"remove"})
                        /\ \A r \in Requests : request[r].file = f =>
                             ~(request[r].pc \in {"clear", "mark"}
                               /\ request[r].read.status = "deleted")
  BY <1>1, <1>8 DEF PartInv, Held, Gone, Busy, Doomed, Has
<1>13. ASSUME f \notin torn, row'[f].status # "deleted" PROVE Doomed(f)'
  BY <1>2, <1>12, <1>13 DEF Doomed, Has
<1>14. CASE MarkIndexing
  <2>1. /\ torn' = torn /\ vectors' = vectors
        /\ worker'.file = f /\ worker'.pc = "indexing"
        /\ row' = [row EXCEPT ![f].status = Written(@, worker.read, "indexing")]
    BY <1>1, <1>14 DEF MarkIndexing, ShapeInv, Workers
  <2>2. f \notin torn => row'[f].status # "deleted"
    BY <1>3, <1>12, <2>1 DEF RowsTyped, Rows, Written
  <2>3. f \notin torn' => Held(f)'
    BY <1>10, <1>12, <1>13, <2>1, <2>2 DEF Held, Gone, Emptied, Indexes, Found
  <2> QED BY <1>7, <1>9, <2>3, OneFile DEF PartInv, Unused
<1>15. CASE Load
  <2>1. /\ row' = row /\ vectors' = vectors /\ worker'.file = f
        /\ \/ worker'.pc = "failing" /\ torn' = torn
           \/ worker'.pc = "loaded" /\ worker'.content = object[f]
        /\ \/ torn' = torn
           \/ row[f].status # "deleted" /\ ~Has(f, {"clear", "mark", "remove"})
    BY <1>1, <1>3, <1>15, OnIsHas DEF Load, ShapeInv, Workers
  <2>2. ASSUME f \notin torn' PROVE Held(f)'
    <3>1. CASE f \notin torn
      <4>1. Doomed(f)' /\ row[f].status # "deleted" BY <1>12, <1>13, <2>1, <3>1
      <4> QED
        BY <1>2, <1>10, <1>12, <2>1, <3>1, <4>1 DEF Held, Gone, Emptied, Indexes, Found
    <3>2. CASE f \in torn
      <4>1. /\ row[f].status # "deleted" /\ ~Has(f, {"clear", "mark", "remove"})
            /\ worker'.pc = "loaded" /\ worker'.content = object[f]
        BY <2>1, <2>2, <3>2
      <4>2. Doomed(f)' /\ ~Has(f, {"mark"})
        BY <1>2, <4>1 DEF Doomed, Has
      <4> QED BY <1>2, <1>10, <2>1, <4>1, <4>2 DEF Held, Gone, Emptied, Indexes, Found
    <3> QED BY <3>1, <3>2
  <2> QED BY <1>7, <1>9, <2>2, OneFile DEF PartInv, Unused
<1>16. CASE ClearVectors
  <2>1. /\ torn' = torn /\ row' = row /\ worker'.file = f /\ worker'.pc = "cleared"
        /\ worker'.content = worker.content /\ vectors'[f] = {} /\ worker.pc = "loaded"
    BY <1>1, <1>3, <1>16 DEF ClearVectors, Cleared, ShapeInv, Workers
  <2>2. f \notin torn' => Held(f)'
    BY <1>1, <1>2, <1>10, <1>11, <1>12, <1>13, <2>1 DEF Held, Gone, Emptied, Indexes, Found
  <2> QED BY <1>7, <1>9, <2>2, OneFile DEF PartInv, Unused
<1>17. CASE AddVectors
  <2>1. /\ row' = row /\ worker'.file = f /\ worker'.pc = "added" /\ worker.pc = "cleared"
        /\ worker'.content = worker.content
        /\ vectors'[f] = vectors[f] \cup Chunks(worker.content)
        /\ torn' = IF Has(f, {"mark"}) THEN torn \cup {f} ELSE torn
    BY <1>1, <1>3, <1>17, OnIsHas DEF AddVectors, Undone, ShapeInv, Workers
  <2>2. ASSUME f \notin torn' PROVE Held(f)'
    <3>1. Held(f) /\ ~Has(f, {"mark"}) BY <1>12, <2>1, <2>2
    <3>2. vectors'[f] = Chunks(worker.content) BY <1>1, <2>1, <3>1 DEF Held, Indexes
    <3> QED
      BY <1>1, <1>2, <1>10, <1>11, <1>12, <1>13, <2>1, <2>2, <3>1, <3>2
      DEF Held, Gone, Emptied, Indexes, Found
  <2> QED BY <1>7, <1>9, <2>2, OneFile DEF PartInv, Unused
<1>18. CASE Finish
  <2>1. /\ worker'.file = 0 /\ vectors' = vectors /\ torn' = torn
        /\ row'[f].status \in {"ready", "failed"}
        /\ row'[f].status = "ready" => worker.pc = "added"
    BY <1>1, <1>3, <1>18 DEF Finish, RowsTyped, Rows, Idle
  <2>2. ASSUME f \notin torn' PROVE Held(f)'
    <3>1. Held(f) /\ Doomed(f)' BY <1>12, <1>13, <2>1, <2>2
    <3>2. worker.pc = "added" => \/ vectors[f] = Chunks(object[f])
                                 \/ Coming(f) \/ Has(f, {"mark"})
      BY <1>1, <3>1 DEF Held, Indexes
    <3> QED
      BY <1>2, <1>3, <1>10, <1>11, <2>1, <3>1, <3>2, FileAssumption
      DEF Held, Gone, Emptied, Indexes, Found
  <2> QED BY <1>7, <1>9, <2>2, OneFile DEF PartInv, Unused
<1>19. CASE WorkerFails
  <2>1. /\ row' = row
        /\ \/ /\ worker'.file = f /\ worker'.pc = "failing"
              /\ torn' = IF worker.pc = "cleared" /\ Has(f, {"mark"}) THEN torn \cup {f} ELSE torn
           \/ f \in torn'
        /\ worker.pc # "cleared" => vectors' = vectors
    BY <1>1, <1>3, <1>19, OnIsHas DEF WorkerFails, Undone, ShapeInv, Workers
  <2>2. ASSUME f \notin torn' PROVE Held(f)'
    <3>1. Held(f) /\ (worker.pc = "cleared" => ~Has(f, {"mark"}))
      BY <1>12, <2>1, <2>2
    <3> QED
      BY <1>2, <1>10, <1>12, <1>13, <2>1, <2>2, <3>1 DEF Held, Gone, Emptied, Indexes, Found
  <2> QED BY <1>7, <1>9, <2>2, OneFile DEF PartInv, Unused
<1> QED BY <1>14, <1>15, <1>16, <1>17, <1>18, <1>19

\* The end of the process leaves a file as it is, or to be indexed again, or torn.
LEMMA HaltParts ==
  ASSUME RowsTyped, ShapeInv, PartsInv, Halt
  PROVE  PartsInv'
<1> SUFFICES ASSUME NEW f \in Files PROVE PartInv(f)'
  BY DEF PartsInv
<1>1. /\ queue' = <<>> /\ worker'.file = 0
      /\ request' = [r \in Requests |-> NoRequest]
      /\ row' = row /\ object' = object
      /\ torn' = torn \cup Forgotten
                  \cup {g \in Files : On(g, {"delete", "edit"}, {"mark", "remove", "save"})}
  BY DEF Halt, Idle
<1>2. worker.file # f => vectors'[f] = vectors[f]
  <2>1. PICK part : vectors' = IF worker.pc = "cleared"
                                 THEN [vectors EXCEPT ![worker.file] = @ \cup part] ELSE vectors
    BY DEF Halt
  <2> QED BY <2>1 DEF ShapeInv
<1>3. f # 0 /\ f \notin ToSet(queue') /\ worker'.file # f /\ \A r \in Requests : request'[r].file # f
  BY <1>1, FileAssumption DEF NoRequest, ToSet
<1>4. ASSUME f \notin torn' PROVE Held(f)'
  <2>1. Held(f) /\ ~Has(f, {"mark", "remove", "save"})
    BY <1>1, <1>4, OnIsHas DEF PartsInv, PartInv
  <2>2. \/ row[f].status \in Recoverable
        \/ f \notin ToSet(queue) /\ worker.file # f /\ ~Has(f, {"enqueue"})
    BY <1>1, <1>4, OnIsHas DEF Forgotten
  <2>3. ~Has(f, {"mark"}) /\ ~Has(f, {"remove"}) /\ ~Has(f, {"save"})
    BY <2>1 DEF Has
  <2>4. \A pcs : ~Has(f, pcs)' BY <1>3 DEF Has
  <2>5. row[f].status = "deleted" => vectors'[f] = {} /\ object[f] = 0
    BY <1>2, <2>1, <2>3 DEF Held, Gone, Busy
  <2>6. row[f].status = "ready" => vectors'[f] = Chunks(object[f])
    <3>1. SUFFICES ASSUME row[f].status = "ready" PROVE vectors'[f] = Chunks(object[f])
      OBVIOUS
    <3>2. f \notin ToSet(queue) /\ worker.file # f /\ ~Has(f, {"enqueue"})
      BY <2>2, <3>1 DEF Recoverable
    <3>3. ~Has(f, {"enqueue", "save"}) BY <2>3, <3>2 DEF Has
    <3> QED BY <1>2, <2>1, <2>3, <3>1, <3>2, <3>3 DEF Held, Found, Coming
  <2> QED
    BY <1>1, <1>3, <2>4, <2>5, <2>6 DEF Held, Doomed, Gone, Busy, Emptied, Indexes, Found
<1> QED BY <1>3, <1>4 DEF PartInv, Unused

\* A restart finds nothing under way, and queues only files that have a row.
LEMMA RestartParts ==
  ASSUME RowsTyped, ShapeInv, PartsInv, Restart
  PROVE  PartsInv'
<1> SUFFICES ASSUME NEW f \in Files PROVE PartInv(f)'
  BY DEF PartsInv
<1>1. /\ worker.pc = "down" /\ worker'.file = 0
      /\ row' = [g \in Files |-> IF g \in Recovered THEN [row[g] EXCEPT !.status = "uploaded"]
                                 ELSE row[g]]
      /\ object' = object /\ vectors' = vectors /\ request' = request /\ torn' = torn
  BY DEF Restart, Idle
<1>2. ToSet(queue') \subseteq Recovered
  <2>1. PICK s \in [1..Cardinality(Recovered) -> Recovered] : queue' = s
    BY DEF Restart
  <2> QED BY <2>1 DEF ToSet
<1>3. /\ worker.file = 0 /\ queue = <<>> /\ \A r \in Requests : request[r] = NoRequest
  BY <1>1 DEF ShapeInv, Up
<1>4. f # 0 /\ f \notin ToSet(queue) /\ \A r \in Requests : request[r].file # f
  BY <1>3, FileAssumption DEF NoRequest, ToSet
<1>5. \A pcs : ~Has(f, pcs) /\ ~Has(f, pcs)' BY <1>1, <1>4 DEF Has
<1>6. /\ row[f].status \notin Recoverable => row'[f] = row[f] /\ f \notin ToSet(queue')
      /\ row[f].status \in Recoverable => row'[f].status = "uploaded"
  BY <1>1, <1>2 DEF Recovered, RowsTyped, Rows
<1>7. ASSUME f \notin torn' PROVE Held(f)'
  <2>1. Held(f) BY <1>1, <1>7 DEF PartsInv, PartInv
  <2>2. row'[f].status = "deleted" => vectors[f] = {} /\ object[f] = 0
    BY <1>5, <1>6, <2>1 DEF Held, Gone, Recoverable
  <2>3. row'[f].status = "ready" => vectors[f] = Chunks(object[f])
    BY <1>3, <1>4, <1>5, <1>6, <2>1 DEF Held, Found, Coming, Recoverable
  <2> QED
    BY <1>1, <1>4, <1>5, <2>2, <2>3 DEF Held, Doomed, Gone, Busy, Emptied, Indexes, Found
<1>8. Unused(f)'
  BY <1>1, <1>4, <1>6 DEF Unused, Recoverable
<1> QED BY <1>7, <1>8 DEF PartInv

-----------------------------------------------------------------------------
(* The hash of a file                                                      *)

\* an edit of the file that has not saved the row
EditOf(q, f) == q.file = f /\ q.pc \in {"put", "save"}

\* Edits of a file that were never two at once have read the hash it has; the object is
\* what the row says, or what an edit has put and will save, or it is gone.
HashOf(f) == f \notin crossed =>
  /\ \A r \in Requests : EditOf(request[r], f) => request[r].read.sha = row[f].sha
  /\ \/ object[f] = 0
     \/ \E r \in Requests : /\ request[r].file = f /\ request[r].pc = "save"
                            /\ request[r].content = object[f]
     \/ ~Has(f, {"save"}) /\ object[f] = row[f].sha

HashInv == \A f \in Files : HashOf(f)

\* A step that changes neither the hash nor the edits of a file, and may remove its object.
LEMMA HashKept ==
  ASSUME NEW f \in Files, HashOf(f), row'[f].sha = row[f].sha,
         object'[f] \in {object[f], 0}, crossed \subseteq crossed',
         \A r \in Requests : EditOf(request[r], f) \/ EditOf(request'[r], f) =>
           request'[r] = request[r]
  PROVE  HashOf(f)'
<1> SUFFICES ASSUME f \notin crossed'
             PROVE  /\ \A r \in Requests : EditOf(request'[r], f) =>
                          request'[r].read.sha = row'[f].sha
                    /\ \/ object'[f] = 0
                       \/ \E r \in Requests : /\ request'[r].file = f /\ request'[r].pc = "save"
                                              /\ request'[r].content = object'[f]
                       \/ ~Has(f, {"save"})' /\ object'[f] = row'[f].sha
  BY DEF HashOf, EditOf
<1>1. /\ \A r \in Requests : EditOf(request[r], f) => request[r].read.sha = row[f].sha
      /\ \/ object[f] = 0
         \/ \E r \in Requests : /\ request[r].file = f /\ request[r].pc = "save"
                                /\ request[r].content = object[f]
         \/ ~Has(f, {"save"}) /\ object[f] = row[f].sha
  BY DEF HashOf
<1>2. Has(f, {"save"})' => Has(f, {"save"})
  BY DEF Has, EditOf
<1>3. CASE object'[f] = 0 BY <1>1, <1>3
<1>4. CASE object'[f] = object[f]
  <2>1. \A r \in Requests : request[r].file = f /\ request[r].pc = "save" =>
          request'[r] = request[r]
    BY DEF EditOf
  <2> QED BY <1>1, <1>2, <1>4, <2>1
<1> QED BY <1>3, <1>4

\* What a session writes to the status is some status.
LEMMA MarkedRow ==
  ASSUME NEW g, NEW old, NEW new, row' = [row EXCEPT ![g].status = Written(@, old, new)]
  PROVE  \E v : row' = [row EXCEPT ![g].status = v]
BY DEF Written

\* A step that writes a status writes no hash.
LEMMA StatusOnly ==
  ASSUME RowsTyped, NEW f \in Files, \E g, v : row' = [row EXCEPT ![g].status = v]
  PROVE  row'[f].sha = row[f].sha
<1>1. PICK g, v : row' = [row EXCEPT ![g].status = v] OBVIOUS
<1>2. row[f] \in Rows BY DEF RowsTyped
<1>3. CASE f = g
  <2>1. row'[f] = [row[f] EXCEPT !.status = v] BY <1>1, <1>3 DEF RowsTyped
  <2> QED BY <1>2, <2>1 DEF Rows
<1>4. CASE f # g BY <1>1, <1>4 DEF RowsTyped
<1> QED BY <1>3, <1>4

\* The steps of a request keep the hash of every file, or record it as crossed.
LEMMA RequestHash ==
  ASSUME RowsTyped, ShapeInv, PartsInv, HashInv, NEW r \in Requests,
         RequestStep(r) \/ RequestFails(r)
  PROVE  HashInv'
<1> SUFFICES ASSUME NEW f \in Files PROVE HashOf(f)'
  BY DEF HashInv
<1> USE FileAssumption
<1>0. HashOf(f) /\ PartInv(f) /\ Fits(request[r])
  BY DEF HashInv, PartsInv, ShapeInv
<1>1. CASE Insert(r)
  <2> DEFINE c == request[r].content
  <2>1. PICK g \in Files :
          /\ row[g] = NoRow
          /\ row' = [row EXCEPT ![g] = [status |-> "uploaded", sha |-> c]]
          /\ object' = [object EXCEPT ![g] = c]
          /\ request' = [request EXCEPT ![r].pc = "enqueue", ![r].file = g]
          /\ crossed' = crossed
    BY <1>1 DEF Insert
  <2>2. /\ request[r].pc = "insert" /\ request'[r].pc = "enqueue"
        /\ \A s \in Requests \ {r} : request'[s] = request[s]
    BY <1>1, <2>1 DEF Insert, RowsTyped, Requested
  <2>3. \A s \in Requests : EditOf(request[s], f) \/ EditOf(request'[s], f) =>
          request'[s] = request[s]
    BY <2>2 DEF EditOf
  <2>4. CASE f # g
    BY <1>0, <2>1, <2>3, <2>4, HashKept DEF RowsTyped, ShapeInv
  <2>5. CASE f = g
    <3>1. \A s \in Requests : request[s].file # f
      BY <1>0, <2>1, <2>5 DEF PartInv, Unused, NoRow
    <3>2. \A s \in Requests : ~EditOf(request'[s], f)
      BY <2>2, <3>1 DEF EditOf
    <3>3. ~Has(f, {"save"})' BY <3>2 DEF Has, EditOf
    <3>4. object'[f] = c /\ row'[f].sha = c
      BY <2>1, <2>5 DEF RowsTyped, ShapeInv
    <3> QED BY <3>2, <3>3, <3>4 DEF HashOf, EditOf
  <2> QED BY <2>4, <2>5
<1>2. CASE \/ Enqueue(r) \/ RetryCommit(r) \/ DeleteVectors(r) \/ MarkDeleted(r)
           \/ DeleteObject(r)
  <2>1. /\ \A s \in Requests \ {r} : request'[s] = request[s]
        /\ request[r].pc \notin {"put", "save"} /\ request'[r].pc \notin {"put", "save"}
        /\ crossed' = crossed
    BY <1>2, ToMoves, AnswerMoves
       DEF Enqueue, RetryCommit, DeleteVectors, MarkDeleted, DeleteObject
  <2>2. row'[f].sha = row[f].sha /\ object'[f] \in {object[f], 0}
    <3>1. CASE Enqueue(r) \/ DeleteVectors(r) BY <3>1 DEF Enqueue, DeleteVectors
    <3>2. CASE DeleteObject(r) BY <3>2 DEF DeleteObject, ShapeInv
    <3>3. CASE RetryCommit(r) \/ MarkDeleted(r)
      <4>1. \E v : row' = [row EXCEPT ![request[r].file].status =
                             Written(@, request[r].read.status, v)]
        BY <3>3 DEF RetryCommit, MarkDeleted
      <4>2. \E g, v : row' = [row EXCEPT ![g].status = v]
        BY <4>1, MarkedRow
      <4>3. object' = object BY <3>3 DEF RetryCommit, MarkDeleted
      <4> QED BY <4>2, <4>3, StatusOnly
    <3> QED BY <1>2, <3>1, <3>2, <3>3
  <2>3. \A s \in Requests : EditOf(request[s], f) \/ EditOf(request'[s], f) =>
          request'[s] = request[s]
    BY <2>1 DEF EditOf
  <2> QED BY <1>0, <2>1, <2>2, <2>3, HashKept
<1>3. CASE EditPut(r)
  <2>1. /\ request[r].pc = "put" /\ request'[r].pc = "save" /\ crossed' = crossed /\ row' = row
        /\ request'[r].file = request[r].file /\ request'[r].read = request[r].read
        /\ request'[r].content = request[r].content
        /\ \A s \in Requests \ {r} : request'[s] = request[s]
        /\ object' = [object EXCEPT ![request[r].file] = request[r].content]
    BY <1>3, ToMoves DEF EditPut
  <2>2. CASE request[r].file # f
    <3>1. \A s \in Requests : EditOf(request[s], f) \/ EditOf(request'[s], f) =>
            request'[s] = request[s]
      BY <2>1, <2>2 DEF EditOf
    <3> QED BY <1>0, <2>1, <2>2, <3>1, HashKept DEF ShapeInv
  <2>3. CASE request[r].file = f
    <3>1. object'[f] = request[r].content BY <2>1, <2>3 DEF ShapeInv
    <3>2. f \notin crossed' => \A s \in Requests : EditOf(request'[s], f) =>
            request'[s].read.sha = row'[f].sha
      BY <1>0, <2>1, <2>3 DEF HashOf, EditOf
    <3> QED BY <2>1, <2>3, <3>1, <3>2 DEF HashOf, EditOf
  <2> QED BY <2>2, <2>3
<1>4. CASE EditSave(r)
  <2>1. /\ request[r].pc = "save" /\ request'[r].pc = "enqueue" /\ object' = object
        /\ \A s \in Requests \ {r} : request'[s] = request[s]
    BY <1>4, ToMoves DEF EditSave, AfterEdit
  <2>2. /\ row' = [row EXCEPT ![request[r].file] =
              [status |-> Written(@.status, request[r].read.status, "uploaded"),
               sha |-> Written(@.sha, request[r].read.sha, request[r].content)]]
        /\ crossed' = IF \E s \in Requests \ {r} : EditOf(request[s], request[r].file)
                       THEN crossed \cup {request[r].file} ELSE crossed
    BY <1>4 DEF EditSave, EditOf
  <2>3. CASE request[r].file # f
    <3>1. \A s \in Requests : EditOf(request[s], f) \/ EditOf(request'[s], f) =>
            request'[s] = request[s]
      BY <2>1, <2>3 DEF EditOf
    <3>2. row'[f].sha = row[f].sha BY <2>2, <2>3 DEF RowsTyped
    <3> QED BY <1>0, <2>1, <2>2, <3>1, <3>2, HashKept
  <2>4. CASE request[r].file = f /\ f \notin crossed'
    <3>1. f \notin crossed /\ \A s \in Requests \ {r} : ~EditOf(request[s], f)
      BY <2>2, <2>4
    <3>2. request[r].read.sha = row[f].sha
      BY <1>0, <2>1, <2>4, <3>1 DEF HashOf, EditOf
    <3>3. row'[f].sha = request[r].content
      BY <2>2, <2>4, <3>2 DEF RowsTyped, Written
    <3>4. object[f] \in {0, request[r].content}
      BY <1>0, <2>1, <2>4, <3>1 DEF HashOf, EditOf, Has
    <3>5. \A s \in Requests : ~EditOf(request'[s], f)
      BY <2>1, <3>1 DEF EditOf
    <3>6. ~Has(f, {"save"})' BY <3>5 DEF Has, EditOf
    <3> QED BY <2>1, <3>3, <3>4, <3>5, <3>6 DEF HashOf, EditOf
  <2>5. CASE f \in crossed' BY <2>5 DEF HashOf
  <2> QED BY <2>3, <2>4, <2>5
<1>5. CASE RequestFails(r)
  <2>1. /\ \A s \in Requests \ {r} : request'[s] = request[s]
        /\ request'[r].file = 0 /\ row' = row /\ object' = object
        /\ crossed' = IF request[r].pc = "save" THEN crossed \cup {request[r].file} ELSE crossed
    BY <1>5, AnswerMoves DEF RequestFails
  <2>2. CASE f \in crossed' BY <2>2 DEF HashOf
  <2>3. CASE f \notin crossed'
    <3>1. f \notin crossed /\ (request[r].file = f => request[r].pc # "save") /\ f # 0
      BY <2>1, <2>3
    <3>2. \A s \in Requests : request'[s].file = f => s # r /\ request'[s] = request[s]
      BY <2>1, <3>1
    <3>3. Has(f, {"save"})' => Has(f, {"save"}) BY <3>2 DEF Has
    <3>4. \A s \in Requests : request[s].file = f /\ request[s].pc = "save" =>
            request'[s] = request[s]
      BY <2>1, <3>1
    <3>5. \A s \in Requests : EditOf(request'[s], f) => request'[s].read.sha = row'[f].sha
      BY <1>0, <2>1, <3>1, <3>2 DEF HashOf, EditOf
    <3>6. \/ object[f] = 0
          \/ \E s \in Requests : /\ request[s].file = f /\ request[s].pc = "save"
                                 /\ request[s].content = object[f]
          \/ ~Has(f, {"save"}) /\ object[f] = row[f].sha
      BY <1>0, <3>1 DEF HashOf
    <3>7. \/ object'[f] = 0
          \/ \E s \in Requests : /\ request'[s].file = f /\ request'[s].pc = "save"
                                 /\ request'[s].content = object'[f]
          \/ ~Has(f, {"save"})' /\ object'[f] = row'[f].sha
      BY <2>1, <3>3, <3>4, <3>6
    <3> QED BY <3>5, <3>7 DEF HashOf, EditOf
  <2> QED BY <2>2, <2>3
<1> QED BY <1>1, <1>2, <1>3, <1>4, <1>5 DEF RequestStep

\* Every other step keeps it: an edit that starts reads the hash the row has, the worker
\* and a restart write neither hashes nor objects, and the end of the process takes the
\* edits with it.
LEMMA OtherHash ==
  ASSUME RowsTyped, ShapeInv, HashInv,
         \/ \E r \in Requests :
              \/ \E c \in Contents : Upload(r, c) \/ \E f \in Files : Edit(r, f, c)
              \/ \E f \in Files : Retry(r, f) \/ Delete(r, f)
         \/ WorkerStep \/ WorkerFails \/ Halt \/ Restart \/ UNCHANGED vars
  PROVE  HashInv'
<1> SUFFICES ASSUME NEW f \in Files PROVE HashOf(f)'
  BY DEF HashInv
<1> USE FileAssumption
<1>0. HashOf(f) BY DEF HashInv
<1>1. ASSUME NEW r \in Requests,
             \/ \E c \in Contents : Upload(r, c) \/ \E g \in Files : Edit(r, g, c)
             \/ \E g \in Files : Retry(r, g) \/ Delete(r, g)
      PROVE  HashOf(f)'
  <2>1. PICK op, pc, g, c : Start(r, op, pc, g, c)
                            /\ (pc = "put" => g \in Files)
                            /\ pc \in {"insert", "enqueue", "retry", "put", "clear"}
    BY <1>1, Starts
  <2>2. /\ request'[r].pc = pc /\ request'[r].file = g
        /\ g # 0 => request'[r].read = row[g]
        /\ request[r] = NoRequest /\ \A s \in Requests \ {r} : request'[s] = request[s]
        /\ row' = row /\ object' = object /\ crossed' = crossed
    BY <2>1, StartMoves
  <2>3. ASSUME f \notin crossed
        PROVE  \A s \in Requests : EditOf(request'[s], f) => request'[s].read.sha = row'[f].sha
    BY <1>0, <2>1, <2>2, <2>3 DEF HashOf, EditOf
  <2>4. \A s \in Requests : /\ request'[s].pc = "save" => request'[s] = request[s]
                            /\ request[s].pc = "save" => request'[s] = request[s]
    BY <2>1, <2>2 DEF NoRequest
  <2>5. Has(f, {"save"})' => Has(f, {"save"}) BY <2>4 DEF Has
  <2>6. ASSUME f \notin crossed
        PROVE  \/ object[f] = 0
               \/ \E s \in Requests : /\ request[s].file = f /\ request[s].pc = "save"
                                      /\ request[s].content = object[f]
               \/ ~Has(f, {"save"}) /\ object[f] = row[f].sha
    BY <1>0, <2>6 DEF HashOf
  <2>7. ASSUME f \notin crossed
        PROVE  \/ object'[f] = 0
               \/ \E s \in Requests : /\ request'[s].file = f /\ request'[s].pc = "save"
                                      /\ request'[s].content = object'[f]
               \/ ~Has(f, {"save"})' /\ object'[f] = row'[f].sha
    BY <2>2, <2>4, <2>5, <2>6, <2>7
  <2> QED BY <2>2, <2>3, <2>7 DEF HashOf, EditOf
<1>2. CASE WorkerStep \/ WorkerFails \/ Restart
  <2>1. request' = request /\ object' = object /\ crossed' = crossed
    BY <1>2 DEF WorkerStep, Take, MarkIndexing, Load, ClearVectors, AddVectors, Finish,
                WorkerFails, Restart
  <2>2. row'[f].sha = row[f].sha
    <3>1. CASE Restart
      BY <3>1 DEF Restart, RowsTyped, Rows
    <3>2. CASE MarkIndexing
      <4>1. \E g, v : row' = [row EXCEPT ![g].status = v]
        BY <3>2, MarkedRow DEF MarkIndexing
      <4> QED BY <4>1, StatusOnly
    <3>3. CASE Finish
      <4>1. \E g, v : row' = [row EXCEPT ![g].status = v]
        BY <3>3 DEF Finish
      <4> QED BY <4>1, StatusOnly
    <3>4. CASE Take \/ Load \/ ClearVectors \/ AddVectors \/ WorkerFails
      BY <3>4 DEF Take, Load, ClearVectors, AddVectors, WorkerFails
    <3> QED BY <1>2, <3>1, <3>2, <3>3, <3>4 DEF WorkerStep
  <2> QED BY <1>0, <2>1, <2>2, HashKept
<1>3. CASE Halt
  <2>1. /\ row' = row /\ object' = object /\ request' = [r \in Requests |-> NoRequest]
        /\ crossed' = crossed \cup {g \in Files : On(g, {"edit"}, {"save"})}
    BY <1>3 DEF Halt
  <2>2. \A r \in Requests : request'[r].file # f BY <2>1 DEF NoRequest
  <2>3. ~Has(f, {"save"})' /\ \A r \in Requests : ~EditOf(request'[r], f)
    BY <2>2 DEF Has, EditOf
  <2>4. CASE Has(f, {"save"})
    <3>1. On(f, {"edit"}, {"save"}) BY <2>4 DEF Has, On, ShapeInv, Fits
    <3> QED BY <2>1, <3>1 DEF HashOf
  <2>5. CASE ~Has(f, {"save"})
    <3>1. f \notin crossed => object[f] \in {0, row[f].sha}
      BY <1>0, <2>5 DEF HashOf, Has
    <3> QED BY <2>1, <2>3, <3>1 DEF HashOf, EditOf
  <2> QED BY <2>4, <2>5
<1>4. CASE UNCHANGED vars
  BY <1>0, <1>4, HashKept DEF vars
<1> QED BY <1>1, <1>2, <1>3, <1>4

FilesInv == RowsTyped /\ ContentInv /\ ShapeInv /\ PartsInv /\ HashInv

\* The parts fit each other initially: there is nothing.
LEMMA InitFiles == Init => FilesInv
<1> SUFFICES ASSUME Init PROVE FilesInv
  OBVIOUS
<1>1. PartsInv
  BY FileAssumption
  DEF Init, PartsInv, PartInv, Unused, Held, Doomed, Gone, Emptied, Indexes, Found, Busy, Has,
      NoRow, NoRequest, Idle, ToSet
<1>2. HashInv
  BY FileAssumption DEF Init, HashInv, HashOf, EditOf, NoRequest
<1> QED BY <1>1, <1>2, InitFileInv, InitShape DEF FilesInv

\* Every step of a request, the worker and the process keeps the parts fitting.
LEMMA NextFiles == FilesInv /\ [Next]_vars => FilesInv'
<1> SUFFICES ASSUME FilesInv, [Next]_vars PROVE FilesInv'
  OBVIOUS
<1>1. RowsTyped' /\ ContentInv' /\ ShapeInv'
  BY NextFileInv, NextShape DEF FilesInv
<1>2. PartsInv'
  <2> USE DEF FilesInv
  <2>1. ASSUME NEW r \in Requests,
               \/ \E c \in Contents : Upload(r, c) \/ \E f \in Files : Edit(r, f, c)
               \/ \E f \in Files : Retry(r, f) \/ Delete(r, f)
        PROVE  PartsInv'
    BY <2>1, StartParts
  <2>2. ASSUME NEW r \in Requests, RequestStep(r) \/ RequestFails(r) PROVE PartsInv'
    BY <2>2, InsertParts, MendingSteps, DeletionSteps, FailureParts DEF RequestStep
  <2>3. CASE WorkerStep \/ WorkerFails
    BY <2>3, TakeParts, WorkerParts DEF WorkerStep
  <2>4. CASE Halt BY <2>4, HaltParts
  <2>5. CASE Restart BY <2>5, RestartParts
  <2>6. CASE UNCHANGED vars
    <3>1. \A f \in Files : Elsewhere(f) BY <2>6 DEF vars, Elsewhere
    <3> QED BY <3>1, ElsewhereKeeps DEF PartsInv
  <2> QED BY <2>1, <2>2, <2>3, <2>4, <2>5, <2>6 DEF Next
<1>3. HashInv'
  BY RequestHash, OtherHash DEF FilesInv, Next
<1> QED BY <1>1, <1>2, <1>3 DEF FilesInv

\* The row, the object and the chunks of a file agree when nothing works on it, the hash in
\* the row included, whatever uploads, retries, edits, deletions, failures and restarts came
\* before, unless a failure between two steps or an overlapping deletion left it torn; the
\* hash may be another content's after edits that overlapped or failed half way.
THEOREM PartsOfFileAgree == Spec => []PartsAgree
<1>1. FilesInv => PartsAgree
  <2> SUFFICES ASSUME FilesInv, NEW f \in Files, AtRest(f), f \notin torn
               PROVE  /\ row[f].status = "ready" =>
                           /\ vectors[f] = Chunks(object[f])
                           /\ row[f].sha = object[f] \/ f \in crossed
                      /\ row[f].status = "deleted" => vectors[f] = {} /\ object[f] = 0
    BY DEF PartsAgree
  <2>1. Held(f) BY DEF FilesInv, PartsInv, PartInv
  <2>2. worker.file # f /\ f \notin ToSet(queue) /\ \A pcs : ~Has(f, pcs)
    BY DEF AtRest, Has
  <2>3. /\ row[f].status = "ready" => vectors[f] = Chunks(object[f])
        /\ row[f].status = "deleted" => vectors[f] = {} /\ object[f] = 0
    BY <2>1, <2>2 DEF Held, Gone, Found, Coming
  <2>4. row[f].status = "ready" => object[f] # 0
    <3>1. vectors[f] \subseteq Contents \X {1, 2} BY DEF FilesInv, ShapeInv
    <3>2. <<object[f], 1>> \in Chunks(object[f]) BY DEF Chunks
    <3> QED BY <2>3, <3>1, <3>2, FileAssumption
  <2>5. f \notin crossed => object[f] \in {0, row[f].sha}
    BY <2>2 DEF FilesInv, HashInv, HashOf, Has
  <2> QED BY <2>3, <2>4, <2>5
<1> QED BY <1>1, InitFiles, NextFiles, PTL DEF Spec
=============================================================================
