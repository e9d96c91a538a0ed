--------------------------- MODULE FileIngestion ---------------------------
(***************************************************************************)
(* The knowledge files of one plan: uploads with their check for a file of *)
(* the same content, the ingestion queue and its worker, retry, deletion   *)
(* and the save callback of the document editor (core/file_ingestion.py,   *)
(* services/file_service.py, api/file.py, core/rag.py).                    *)
(*                                                                         *)
(* A file has three parts in three systems: its row in PostgreSQL, its     *)
(* object in the storage and its chunks in the vector store.  Nothing      *)
(* locks them: requests and the worker interleave at every await, and a    *)
(* SQLAlchemy session writes an attribute only when it differs from the    *)
(* value that session read.                                                *)
(***************************************************************************)
EXTENDS Naturals, Sequences, FiniteSets, SequencesExt

CONSTANTS
  Files,        \* ids of rows, handed out by the database
  Contents,     \* contents of files, told apart by their sha256
  Requests,     \* places of requests in progress, taken in order
  MaxRequests,  \* bound on requests
  MaxErrors,    \* bound on exceptions, in the worker and in requests
  MaxHalts      \* bound on ends of the process

ASSUME FileAssumption ==
  /\ Files \cup Requests \cup Contents \subseteq Nat
  /\ IsFiniteSet(Files)
  /\ 0 \notin Files \cup Contents
  /\ {MaxRequests, MaxErrors, MaxHalts} \subseteq Nat

VARIABLES
  row,      \* knowledge_files: status and sha256
  object,   \* the stored content; 0 when there is none
  vectors,  \* the chunks in the vector store
  queue,    \* FileIngestionRuntime._queue
  worker,   \* the worker: where it is, its file, the status and content it read
  request,  \* the requests: where they are and what they read
  torn,     \* files left half done by a failure or by a deletion that overlapped
  crossed,  \* files with two edits at once, or one that failed before its row was saved
  lost,     \* files whose queue entry an exception lost
  raced,    \* contents whose uploads overlapped
  revived,  \* <<file, content>>: made active, or edited, beside another of this content
  requests, errors, halts

partVars == <<row, object, vectors>>
historyVars == <<torn, crossed, lost, raced, revived>>
boundVars == <<requests, errors, halts>>
vars == <<row, object, vectors, queue, worker, request, torn, crossed, lost, raced,
          revived, requests, errors, halts>>

ActiveStatuses == {"uploaded", "indexing", "ready"}
Recoverable == {"uploaded", "indexing"}

NoRow == [status |-> "none", sha |-> 0]
Idle == [pc |-> "idle", file |-> 0, read |-> "none", content |-> 0]
NoRequest == [op |-> "none", pc |-> "none", file |-> 0, read |-> NoRow, content |-> 0]

\* _split_documents: a content is two chunks
Chunks(c) == {<<c, 1>>, <<c, 2>>}

Init ==
  /\ row = [f \in Files |-> NoRow]
  /\ object = [f \in Files |-> 0]
  /\ vectors = [f \in Files |-> {}]
  /\ queue = <<>>
  /\ worker = Idle
  /\ request = [r \in Requests |-> NoRequest]
  /\ torn = {} /\ crossed = {} /\ lost = {} /\ raced = {} /\ revived = {}
  /\ requests = 0 /\ errors = 0 /\ halts = 0

Up == worker.pc # "down"

\* what a session that read the value old leaves in the row when it assigns new
Written(current, old, new) == IF new = old THEN current ELSE new

On(f, ops, pcs) == \E r \in Requests :
  request[r].file = f /\ request[r].op \in ops /\ request[r].pc \in pcs
Deleting(f) == On(f, {"delete"}, {"clear", "mark", "remove"})

\* operations that have read the row and will still write it or the object
Writing(f) == worker.file = f \/ On(f, {"retry", "edit"}, {"retry", "put", "save"})

\* a content that an active row other than f has, or an upload between its lookup and
\* its insertion
Beside(f, c) ==
  \/ \E g \in Files \ {f} : row[g].sha = c /\ row[g].status \in ActiveStatuses
  \/ \E r \in Requests : request[r].pc = "insert" /\ request[r].content = c

\* revived, when f is not as active as before or has another content
Revived(f) ==
  LET c == row'[f].sha IN
  IF /\ row'[f].status \in ActiveStatuses
     /\ row[f].status \in ActiveStatuses => row[f].sha # c
     /\ Beside(f, c)
    THEN revived \cup {<<f, c>>} ELSE revived

-----------------------------------------------------------------------------
\* Requests

Start(r, op, pc, f, c) ==
  /\ Up
  /\ request[r] = NoRequest
  /\ \A s \in Requests : request[s] = NoRequest => r <= s
  /\ requests < MaxRequests
  /\ requests' = requests + 1
  /\ request' = [request EXCEPT ![r] =
       [op |-> op, pc |-> pc, file |-> f, content |-> c,
        read |-> IF f = 0 THEN NoRow ELSE row[f]]]
  /\ UNCHANGED <<partVars, queue, worker, historyVars, errors, halts>>

To(r, pc) == request' = [request EXCEPT ![r].pc = pc]
Answer(r) == request' = [request EXCEPT ![r] = NoRequest]

FaultySameContent(c) == {f \in Files : row[f].sha = c /\ row[f].status = "ready"}

\* get_existing_file_by_hash
SameContent(c) == {f \in Files : row[f].sha = c /\ row[f].status \in ActiveStatuses}

\* contents only differ from each other: the first one is the least
InOrder(c) ==
  (\A f \in Files : row[f] = NoRow) /\ (\A r \in Requests : request[r] = NoRequest)
    => \A d \in Contents : c <= d

\* create_file_from_upload looks for a row of this content; a row that is still
\* uploaded is queued again.  With two rows scalar_one_or_none raises.
Upload(r, c) ==
  /\ InOrder(c)
  /\ \/ SameContent(c) = {} /\ Start(r, "upload", "insert", 0, c)
     \/ \E f \in Files : /\ SameContent(c) = {f}
                         /\ row[f].status = "uploaded"
                         /\ Start(r, "upload", "enqueue", f, c)

\* the new row gets its id, its object is put, the transaction commits
Insert(r) ==
  LET c == request[r].content IN
  /\ request[r].pc = "insert"
  /\ \E f \in Files :
       /\ row[f] = NoRow
       /\ \A g \in Files : row[g] = NoRow => f <= g
       /\ row' = [row EXCEPT ![f] = [status |-> "uploaded", sha |-> c]]
       /\ object' = [object EXCEPT ![f] = c]
       /\ request' = [request EXCEPT ![r].pc = "enqueue", ![r].file = f]
  /\ raced' = IF \E s \in Requests \ {r} :
                     request[s].pc = "insert" /\ request[s].content = c
                THEN raced \cup {c} ELSE raced
  /\ UNCHANGED <<vectors, queue, worker, torn, crossed, lost, revived, boundVars>>

Enqueue(r) ==
  /\ request[r].pc = "enqueue"
  /\ queue' = Append(queue, request[r].file)
  /\ Answer(r)
  /\ UNCHANGED <<partVars, worker, historyVars, boundVars>>

\* retry_file refuses a deleted file
MayRetry(f) == row[f].status \notin {"none", "deleted"}

Retry(r, f) == MayRetry(f) /\ Start(r, "retry", "retry", f, row[f].sha)

RetryCommit(r) ==
  LET f == request[r].file IN
  /\ request[r].pc = "retry"
  /\ row' = [row EXCEPT ![f].status = Written(@, request[r].read.status, "uploaded")]
  /\ revived' = Revived(f)
  /\ To(r, "enqueue")
  /\ UNCHANGED <<object, vectors, queue, worker, torn, crossed, lost, raced, boundVars>>

\* delete_file: read the row, delete the chunks, mark the row, delete the object
Delete(r, f) == row[f].status # "none" /\ Start(r, "delete", "clear", f, row[f].sha)

DeleteVectors(r) ==
  /\ request[r].pc = "clear"
  /\ vectors' = [vectors EXCEPT ![request[r].file] = {}]
  /\ To(r, "mark")
  /\ UNCHANGED <<row, object, queue, worker, historyVars, boundVars>>

MarkDeleted(r) ==
  LET f == request[r].file IN
  /\ request[r].pc = "mark"
  /\ row' = [row EXCEPT ![f].status = Written(@, request[r].read.status, "deleted")]
  /\ torn' = IF Writing(f) THEN torn \cup {f} ELSE torn
  /\ To(r, "remove")
  /\ UNCHANGED <<object, vectors, queue, worker, crossed, lost, raced, revived, boundVars>>

DeleteObject(r) ==
  /\ request[r].pc = "remove"
  /\ object' = [object EXCEPT ![request[r].file] = 0]
  /\ Answer(r)
  /\ UNCHANGED <<row, vectors, queue, worker, historyVars, boundVars>>

\* _save_onlyoffice_file: read the row of a file that is not deleted, replace the
\* object, commit the row, queue the file
Edit(r, f, c) == row[f].status \notin {"none", "deleted"} /\ Start(r, "edit", "put", f, c)

EditPut(r) ==
  /\ request[r].pc = "put"
  /\ object' = [object EXCEPT ![request[r].file] = request[r].content]
  /\ To(r, "save")
  /\ UNCHANGED <<row, vectors, queue, worker, historyVars, boundVars>>

FaultyAfterEdit == "answered"

\* what follows the commit of an edit
AfterEdit == "enqueue"

EditSave(r) ==
  LET q == request[r] IN
  /\ q.pc = "save"
  /\ row' = [row EXCEPT ![q.file] =
       [status |-> Written(@.status, q.read.status, "uploaded"),
        sha |-> Written(@.sha, q.read.sha, q.content)]]
  /\ revived' = Revived(q.file)
  /\ crossed' = IF \E s \in Requests \ {r} :
                      request[s].file = q.file /\ request[s].pc \in {"put", "save"}
                  THEN crossed \cup {q.file} ELSE crossed
  /\ To(r, AfterEdit)
  /\ UNCHANGED <<object, vectors, queue, worker, torn, lost, raced, boundVars>>

\* A request fails or loses its client between two of its steps.
RequestFails(r) ==
  LET q == request[r] IN
  /\ q.pc # "none"
  /\ errors < MaxErrors
  /\ errors' = errors + 1
  /\ Answer(r)
  /\ torn' = IF q.pc \in {"mark", "remove", "save", "enqueue"}
               THEN torn \cup {q.file} ELSE torn
  /\ crossed' = IF q.pc = "save" THEN crossed \cup {q.file} ELSE crossed
  /\ lost' = IF q.pc = "enqueue" THEN lost \cup {q.file} ELSE lost
  /\ UNCHANGED <<partVars, queue, worker, raced, revived, requests, halts>>

-----------------------------------------------------------------------------
\* The worker

\* process_file_ingestion returns at once for these
Skipped(f) == row[f].status = "deleted"

\* the next entry; its row is read
Take ==
  /\ worker.pc = "idle"
  /\ queue # <<>>
  /\ queue' = Tail(queue)
  /\ LET f == Head(queue) IN
       worker' = IF Skipped(f) THEN Idle
                 ELSE [pc |-> "read", file |-> f, read |-> row[f].status, content |-> 0]
  /\ UNCHANGED <<partVars, request, historyVars, boundVars>>

MarkIndexing ==
  /\ worker.pc = "read"
  /\ row' = [row EXCEPT ![worker.file].status = Written(@, worker.read, "indexing")]
  /\ revived' = Revived(worker.file)
  /\ worker' = [worker EXCEPT !.pc = "indexing"]
  /\ UNCHANGED <<object, vectors, queue, request, torn, crossed, lost, raced, boundVars>>

\* the stored file is loaded and split, or it is missing; from here on the ingestion
\* makes up for an earlier failure
Load ==
  LET f == worker.file IN
  /\ worker.pc = "indexing"
  /\ worker' = IF object[f] = 0 THEN [worker EXCEPT !.pc = "failing"]
               ELSE [worker EXCEPT !.pc = "loaded", !.content = object[f]]
  /\ torn' = IF object[f] = 0 \/ Deleting(f) \/ row[f].status = "deleted"
               THEN torn ELSE torn \ {f}
  /\ UNCHANGED <<partVars, queue, request, crossed, lost, raced, revived, boundVars>>

\* delete_by_file_id, before the new chunks are added
Cleared(f) == {}

ClearVectors ==
  /\ worker.pc = "loaded"
  /\ vectors' = [vectors EXCEPT ![worker.file] = Cleared(worker.file)]
  /\ worker' = [worker EXCEPT !.pc = "cleared"]
  /\ UNCHANGED <<row, object, queue, request, historyVars, boundVars>>

\* chunks added behind a deletion that has already deleted them
Undone(f) == IF On(f, {"delete"}, {"mark"}) THEN torn \cup {f} ELSE torn

AddVectors ==
  LET f == worker.file IN
  /\ worker.pc = "cleared"
  /\ vectors' = [vectors EXCEPT ![f] = @ \cup Chunks(worker.content)]
  /\ torn' = Undone(f)
  /\ worker' = [worker EXCEPT !.pc = "added"]
  /\ UNCHANGED <<row, object, queue, request, crossed, lost, raced, revived, boundVars>>

\* mark_file_ready, or mark_file_failed in the handler
Finish ==
  LET f == worker.file
      outcome == IF worker.pc = "added" THEN "ready" ELSE "failed"
  IN
  /\ worker.pc \in {"added", "failing"}
  /\ row' = [row EXCEPT ![f].status = outcome]
  /\ revived' = Revived(f)
  /\ worker' = Idle
  /\ UNCHANGED <<object, vectors, queue, request, torn, crossed, lost, raced, boundVars>>

\* An exception in the try block leads to mark_file_failed; before it, and in the
\* handler, it reaches the loop, which prints it and goes on.  Chunks are committed
\* one by one.
WorkerFails ==
  LET f == worker.file IN
  /\ worker.pc \in {"read", "indexing", "loaded", "cleared", "added", "failing"}
  /\ errors < MaxErrors
  /\ errors' = errors + 1
  /\ \/ /\ worker.pc \notin {"read", "failing"}
        /\ worker' = [worker EXCEPT !.pc = "failing"]
        /\ torn' = IF worker.pc = "cleared" THEN Undone(f) ELSE torn
        /\ UNCHANGED lost
     \/ /\ worker.pc \in {"read", "added", "failing"}
        /\ worker' = Idle
        /\ torn' = torn \cup {f}
        /\ lost' = lost \cup {f}
  /\ vectors' = IF worker.pc = "cleared"
                  THEN [vectors EXCEPT ![f] = @ \cup {<<worker.content, 1>>}] ELSE vectors
  /\ UNCHANGED <<row, object, queue, request, crossed, raced, revived, requests, halts>>

-----------------------------------------------------------------------------
\* The process

\* Files whose queue entry is lost with the process while their row, overwritten by the
\* worker, does not say that they are to be indexed.
Forgotten ==
  {f \in Files : /\ row[f].status \notin Recoverable
                 /\ f \in ToSet(queue) \/ worker.file = f
                      \/ On(f, {"upload", "retry", "edit"}, {"enqueue"})}

\* A crash, or a shutdown, which cancels the worker: CancelledError is no Exception,
\* so the row stays indexing.
Halt ==
  /\ Up
  /\ halts < MaxHalts
  /\ halts' = halts + 1
  /\ queue' = <<>>
  /\ worker' = [Idle EXCEPT !.pc = "down"]
  /\ request' = [r \in Requests |-> NoRequest]
  /\ torn' = torn \cup Forgotten
                  \cup {f \in Files : On(f, {"delete", "edit"}, {"mark", "remove", "save"})}
  /\ crossed' = crossed \cup {f \in Files : On(f, {"edit"}, {"save"})}
  /\ \E part \in {{}, {<<worker.content, 1>>}} :
       vectors' = IF worker.pc = "cleared"
                    THEN [vectors EXCEPT ![worker.file] = @ \cup part] ELSE vectors
  /\ UNCHANGED <<row, object, lost, raced, revived, requests, errors>>

FaultyRecovered == {f \in Files : row[f].status = "uploaded"}

\* get_recoverable_file_ids: files that were queued or being indexed
Recovered == {f \in Files : row[f].status \in Recoverable}

\* start: they are queued before the worker runs
Restart ==
  /\ worker.pc = "down"
  /\ row' = [f \in Files |-> IF f \in Recovered THEN [row[f] EXCEPT !.status = "uploaded"]
                             ELSE row[f]]
  /\ \E s \in [1..Cardinality(Recovered) -> Recovered] :
       (\A i, j \in DOMAIN s : i < j => s[i] < s[j]) /\ queue' = s
  /\ worker' = Idle
  /\ UNCHANGED <<object, vectors, request, historyVars, boundVars>>

-----------------------------------------------------------------------------
RequestStep(r) ==
  \/ Insert(r) \/ Enqueue(r) \/ RetryCommit(r)
  \/ DeleteVectors(r) \/ MarkDeleted(r) \/ DeleteObject(r)
  \/ EditPut(r) \/ EditSave(r)

WorkerStep == \/ Take \/ MarkIndexing \/ Load \/ ClearVectors \/ AddVectors \/ Finish

Next ==
  \/ \E r \in Requests :
       \/ \E c \in Contents : Upload(r, c) \/ \E f \in Files : Edit(r, f, c)
       \/ \E f \in Files : Retry(r, f) \/ Delete(r, f)
       \/ RequestStep(r) \/ RequestFails(r)
  \/ WorkerStep \/ WorkerFails
  \/ Halt \/ Restart

Spec == Init /\ [][Next]_vars

\* requests and the worker are coroutines of one event loop, whose calls return or time
\* out; the container is restarted
Fairness ==
  /\ \A r \in Requests : WF_vars(RequestStep(r))
  /\ WF_vars(WorkerStep)
  /\ WF_vars(Restart)

FairSpec == Spec /\ Fairness

-----------------------------------------------------------------------------
Statuses == ActiveStatuses \cup {"none", "failed", "deleted"}

\* the types, and that only the worker's own file is being indexed for long
TypeOK ==
  /\ row \in [Files -> [status : Statuses, sha : Contents \cup {0}]]
  /\ object \in [Files -> Contents \cup {0}]
  /\ vectors \in [Files -> SUBSET (Contents \X {1, 2})]
  /\ queue \in Seq(Files)
  /\ worker.pc \in {"down", "idle", "read", "indexing", "loaded", "cleared", "added",
                    "failing"}
  /\ \A r \in Requests : request[r].pc \in {"none", "insert", "enqueue", "retry", "clear",
                                            "mark", "remove", "put", "save"}
  /\ \A f \in Files : row[f].status = "indexing" =>
       worker.file = f \/ ~Up \/ f \in lost

AtRest(f) ==
  /\ Up
  /\ worker.file # f /\ f \notin ToSet(queue)
  /\ ~\E r \in Requests : request[r].file = f

\* The three parts of a file agree when nothing works on it: a ready file is found by
\* exactly the chunks of the stored content, and its row has the hash of that content,
\* however often it was edited, retried or interrupted; a deleted file has neither
\* chunks nor content.  A failure between two steps, or a deletion that overlapped
\* another operation on the file, leaves it torn, until it is indexed again; two save
\* callbacks at once, or one that failed between the object and the row, may leave the
\* hash of another content, which indexing does not repair.
PartsAgree ==
  \A f \in Files : AtRest(f) /\ f \notin torn =>
    /\ row[f].status = "ready" =>
         vectors[f] = Chunks(object[f]) /\ (row[f].sha = object[f] \/ f \in crossed)
    /\ row[f].status = "deleted" => vectors[f] = {} /\ object[f] = 0

\* A content has one active row, the condition under which an upload of it can be
\* answered, unless uploads of it overlapped or one of the two became active again (a
\* retry of a failed or deleted file, a worker that overwrote its deletion) or got this
\* content in the editor while the other was active or being uploaded.
OneRowPerContent ==
  \A f, g \in Files :
    /\ f # g
    /\ row[f].sha = row[g].sha
    /\ {row[f].status, row[g].status} \subseteq ActiveStatuses
    => \/ row[f].sha \in raced
       \/ {<<f, row[f].sha>>, <<g, row[g].sha>>} \cap revived # {}

\* An uploaded file is indexed, refused or deleted, across restarts, unless an exception
\* lost its queue entry.
FileSettles ==
  \A f \in Files :
    row[f].status = "uploaded" ~> row[f].status \in {"ready", "failed", "deleted"} \/ f \in lost
=============================================================================
