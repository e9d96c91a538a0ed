----------------------------- MODULE RunEvents -----------------------------
(***************************************************************************)
(* How one chat run writes its event stream: the token buffer with its     *)
(* timer, the publisher with its retries, the three ways _execute_run can  *)
(* end, the snapshot / commit / done protocol of _finalize_run and the     *)
(* reconciliation of ChatRunManager.start after a restart                  *)
(* (core/chat_runs.py over core/chat_run_events.py).                       *)
(*                                                                         *)
(* The agent emits text fragments 1, 2, ... and other events in between.   *)
(* A Redis command may be executed, be executed while its reply is lost,   *)
(* not be executed, or be executed after its caller has given up.          *)
(***************************************************************************)
EXTENDS Naturals, Sequences, FiniteSets, RunStore

CONSTANTS
  MaxFragments,    \* bound on text fragments the agent emits
  MaxEvents,       \* bound on its other events
  BatchSize,       \* fragments that make a size flush (max_chars)
  Retries,         \* append_max_retries
  MaxStoreFaults,  \* bound on commands whose caller does not get the reply
  MaxLate,         \* bound on commands the server executes after that
  MaxCancels,      \* bound on cancellations of the task
  MaxCrashes       \* bound on crashes of the process

ASSUME EventsAssumption ==
  /\ {MaxFragments, MaxEvents, Retries, MaxStoreFaults, MaxLate} \subseteq Nat
  /\ {MaxCancels, MaxCrashes} \subseteq Nat
  /\ BatchSize \in Nat \ {0}

VARIABLES
  store,    \* the Redis keys of the run
  late,     \* appends the server will execute although their callers gave up
  row,      \* agent_runs: status, last_event_sequence, output_text
  pc,       \* where the task is
  mode,     \* the part of _execute_run it is in; "direct" in ChatRunManager.cancel
            \* for a run without a task, "restart" in start()
  local,    \* fragments received from the agent: local_output
  events,   \* other events received from the agent
  frags,    \* _TokenEventBuffer._fragments
  batch,    \* the fragments a flush took from them to publish
  lock,     \* who holds the buffer's lock across a publish
  timer,    \* the flush timer is armed
  failure,  \* _TokenEventBuffer._failure is set
  tries,    \* failed attempts of the command in flight
  pubSeq,   \* _RunPublisher.last_sequence
  snap,     \* the output and sequence to be committed
  troubles, \* commands to Redis or the database whose reply was not received
  cancels,  \* cancellations delivered
  crashes   \* crashes

storeVars  == <<store, late>>
agentVars  == <<local, events>>
bufferVars == <<frags, batch, lock, timer, failure>>
boundVars  == <<troubles, cancels, crashes>>
writerVars == <<store, late, row, pc, mode, local, events, frags, batch, lock, timer,
                failure, tries, pubSeq, snap, troubles, cancels, crashes>>

Modes == {"body", "cancel", "shutdown", "fail", "direct", "restart"}

\* the fragments 1..n in order
Text(n) == [i \in 1..n |-> i]

Unfinished == [status |-> "active", seq |-> 0, out |-> <<>>]
NoSnap     == [seq |-> 0, out |-> <<>>]
Finished   == row.status # "active"

\* the final status each part of _execute_run gives; "completed" stands for
\* succeeded, waiting_approval, and failed with an error event of the agent
StatusOf == [body |-> "completed", cancel |-> "cancelled", fail |-> "failed",
             direct |-> "cancelled", restart |-> "failed"]

Init ==
  /\ store = EmptyStore
  /\ late = {}
  /\ row = Unfinished
  /\ pc = "metadata"
  /\ mode = "body"
  /\ local = 0
  /\ events = 0
  /\ frags = <<>>
  /\ batch = <<>>
  /\ lock = "free"
  /\ timer = FALSE
  /\ failure = FALSE
  /\ tries = 0
  /\ pubSeq = 0
  /\ snap = NoSnap
  /\ troubles = 0
  /\ cancels = 0
  /\ crashes = 0

-----------------------------------------------------------------------------
(* ChatRunRedis.append: _execute with bounded retries                      *)

\* the command is executed and the reply received
AppendOk(e) ==
  /\ store' = Appended(store, e)
  /\ pubSeq' = store.last + 1
  /\ tries' = 0
  /\ UNCHANGED <<late, troubles>>

\* The reply is not received; the command has been executed, has not, or will
\* be executed later.
AppendTrouble(e) ==
  /\ troubles < MaxStoreFaults
  /\ troubles' = troubles + 1
  /\ \/ store' = Appended(store, e) /\ UNCHANGED late
     \/ UNCHANGED storeVars
     \/ Cardinality(late) < MaxLate /\ late' = late \cup {e} /\ UNCHANGED store
  /\ UNCHANGED pubSeq

AppendRetry(e) ==
  /\ tries < Retries
  /\ tries' = tries + 1
  /\ AppendTrouble(e)

\* the last attempt failed too: ChatRunEventStoreError
AppendRaises(e) ==
  /\ tries = Retries
  /\ tries' = 0
  /\ AppendTrouble(e)

\* a command without retries fails before or after it was executed
CommandTrouble ==
  /\ troubles < MaxStoreFaults
  /\ troubles' = troubles + 1

\* the server executes an append whose caller has given up
LateAppend ==
  /\ \E e \in late : store' = Appended(store, e) /\ late' = late \ {e}
  /\ UNCHANGED <<row, pc, mode, agentVars, bufferVars, tries, pubSeq, snap, boundVars>>

-----------------------------------------------------------------------------
(* _execute_run: the stream of the agent                                   *)

\* an exception in the body enters except Exception
RaiseTo(step) ==
  /\ pc' = step
  /\ mode' = IF mode = "body" THEN "fail" ELSE mode

\* publisher.publish of an event that is not a token
PublishEvent(from, to, e) ==
  /\ pc = from
  /\ \/ AppendOk(e) /\ pc' = to /\ UNCHANGED mode
     \/ AppendRetry(e) /\ UNCHANGED <<pc, mode>>
     \/ AppendRaises(e) /\ RaiseTo(IF mode = "body" THEN "close" ELSE to)
  /\ UNCHANGED <<row, agentVars, bufferVars, snap, cancels, crashes>>

Metadata   == PublishEvent("metadata", "agent", Event("event", <<>>, 0))
AgentEvent == PublishEvent("event", "agent", Event("event", <<>>, local))

\* the task takes the next item from the agent
AgentNext ==
  /\ pc = "agent"
  /\ \/ /\ local < MaxFragments
        /\ local' = local + 1 /\ pc' = "adding" /\ UNCHANGED events
     \/ /\ events < MaxEvents
        /\ events' = events + 1 /\ pc' = "boundary" /\ UNCHANGED local
     \/ pc' = "close" /\ UNCHANGED agentVars
  /\ UNCHANGED <<storeVars, row, mode, bufferVars, tries, pubSeq, snap, boundVars>>

\* the agent raises
AgentRaises ==
  /\ pc = "agent"
  /\ RaiseTo("close")
  /\ UNCHANGED <<storeVars, row, agentVars, bufferVars, tries, pubSeq, snap, boundVars>>

-----------------------------------------------------------------------------
(* _TokenEventBuffer                                                       *)

FaultyBufferFree == lock # "main"

\* async with self._lock
BufferFree == lock = "free"

\* where the task goes when flush() returns or raises
FlushReturns == CASE pc = "adding"        -> "agent"
                  [] pc = "boundary"      -> "event"
                  [] mode = "fail"        -> "error"
                  [] mode = "shutdown"    -> "down"
                  [] OTHER                -> "snapshot"

\* closing the buffer in a handler suppresses the error, the body does not
FlushRaises ==
  IF mode = "body" THEN RaiseTo("close") ELSE pc' = FlushReturns /\ UNCHANGED mode

\* _flush_locked takes the fragments and cancels the timer
FlushBy(who) ==
  /\ lock' = who
  /\ timer' = FALSE
  /\ batch' = frags'

\* add(): the fragment joins the buffer; a full buffer is flushed at once
Add ==
  /\ pc = "adding"
  /\ BufferFree
  /\ ~failure
  /\ frags' = Append(frags, local)
  /\ IF Len(frags) + 1 >= BatchSize
       THEN FlushBy("main") /\ UNCHANGED pc
       ELSE timer' = TRUE /\ pc' = "agent" /\ UNCHANGED <<lock, batch>>
  /\ UNCHANGED <<storeVars, row, mode, agentVars, failure, tries, pubSeq, snap, boundVars>>

FaultyMustPublishLate   == frags # <<>> /\ pc = "close"
FaultyMustPublishBefore == frags # <<>> /\ pc = "boundary"

\* _flush_locked returns early when there is nothing to publish
MustPublish == frags # <<>>

\* the task calls flush() or close()
FlushCalled ==
  /\ pc \in {"boundary", "close"}
  /\ BufferFree
  /\ ~failure

FlushNothing ==
  /\ FlushCalled
  /\ ~MustPublish
  /\ pc' = FlushReturns
  /\ UNCHANGED <<storeVars, row, mode, agentVars, bufferVars, tries, pubSeq, snap, boundVars>>

FlushStarts ==
  /\ FlushCalled
  /\ MustPublish
  /\ UNCHANGED frags
  /\ FlushBy("main")
  /\ UNCHANGED <<storeVars, row, pc, mode, agentVars, failure, tries, pubSeq,
                 snap, boundVars>>

\* _raise_failure: what the timer could not publish is raised in the task
StoredFailure ==
  /\ pc \in {"adding", "boundary", "close"}
  /\ BufferFree
  /\ failure
  /\ FlushRaises
  /\ UNCHANGED <<storeVars, row, agentVars, bufferVars, tries, pubSeq, snap, boundVars>>

\* _flush_after_interval
TimerFires ==
  /\ timer
  /\ pc # "down"
  /\ lock = "free"
  /\ UNCHANGED frags
  /\ FlushBy("timer")
  /\ UNCHANGED <<storeVars, row, pc, mode, agentVars, failure, tries, pubSeq,
                 snap, boundVars>>

\* the publish inside _flush_locked, by the task or by the timer
FlushPublishes ==
  LET e == Event("token", batch, 0) IN
  /\ lock # "free"
  /\ pc # "down"
  /\ \/ /\ AppendOk(e)
        /\ frags' = <<>> /\ batch' = <<>> /\ lock' = "free"
        /\ pc' = IF lock = "main" THEN FlushReturns ELSE pc
        /\ UNCHANGED <<mode, failure>>
     \/ AppendRetry(e) /\ UNCHANGED <<pc, mode, frags, batch, lock, failure>>
     \/ /\ AppendRaises(e)
        /\ batch' = <<>> /\ lock' = "free"
        /\ IF lock = "main"
             THEN FlushRaises /\ UNCHANGED failure
             ELSE failure' = TRUE /\ UNCHANGED <<pc, mode>>
        /\ UNCHANGED frags
  /\ UNCHANGED <<row, agentVars, timer, snap, cancels, crashes>>

-----------------------------------------------------------------------------
(* _finalize_run                                                           *)

Error == PublishEvent("error", IF mode = "restart" THEN "commit" ELSE "snapshot",
                      Event("error", <<>>, 0))

\* last_sequence = max(fallback_sequence, snapshot.last_sequence)
SnapSeq(a, b) == IF a < b THEN b ELSE a

\* what the task falls back to; the others fall back to the row
FallbackSnap ==
  IF mode \in {"direct", "restart"} THEN NoSnap ELSE [seq |-> pubSeq, out |-> Text(local)]

FaultySnapOutput == FallbackSnap.out

\* a failed run keeps its local output, the others take the store's
SnapOutput == IF mode = "fail" THEN Text(local) ELSE store.output

\* get_snapshot, in _finalize_run or in start()
Snapshot ==
  /\ pc = "snapshot"
  /\ \/ /\ snap' = IF HasSnapshot(store)
                     THEN [seq |-> SnapSeq(FallbackSnap.seq, store.last),
                           out |-> SnapOutput]
                     ELSE FallbackSnap
        /\ pc' = IF mode = "restart" THEN "error" ELSE "commit"
        /\ UNCHANGED troubles
     \/ CommandTrouble /\ snap' = FallbackSnap /\ pc' = "commit"
  /\ UNCHANGED <<storeVars, row, mode, agentVars, bufferVars, tries, pubSeq,
                 cancels, crashes>>

FaultyCommitted(s) == [status |-> StatusOf[mode], seq |-> s.seq, out |-> s.out]

\* the row of a run that is finalized with the snapshot s
Committed(s) == [status |-> StatusOf[mode], seq |-> s.seq + 1, out |-> s.out]

\* the sequence start() commits is that of the error event, when appended
CommitSnap ==
  IF mode = "restart" /\ pubSeq # 0 THEN [snap EXCEPT !.seq = pubSeq] ELSE snap

\* finalize_chat_run: the first finalization of a run is its last
FinalizeRow == row' = IF Finished THEN row ELSE Committed(CommitSnap)

\* a database error in a handler ends the task, in a direct cancel the request, in
\* start() the process
CommitRaises ==
  IF mode = "body" THEN RaiseTo("close")
  ELSE pc' = (IF mode = "restart" THEN "down" ELSE "gone") /\ UNCHANGED mode

Commit ==
  /\ pc = "commit"
  /\ \/ FinalizeRow /\ pc' = "done" /\ UNCHANGED <<mode, troubles>>
     \/ CommandTrouble /\ (FinalizeRow \/ UNCHANGED row) /\ CommitRaises
  /\ UNCHANGED <<storeVars, agentVars, bufferVars, tries, pubSeq, snap, cancels, crashes>>

\* append_done; a refusal and a store error are only logged
AppendDone ==
  /\ pc = "done"
  /\ \/ store' = Terminated(store, row.seq) /\ UNCHANGED troubles
     \/ CommandTrouble /\ store' \in {store, Terminated(store, row.seq)}
  /\ pc' = "ended"
  /\ UNCHANGED <<late, row, mode, agentVars, bufferVars, tries, pubSeq, snap,
                 cancels, crashes>>

-----------------------------------------------------------------------------
(* Cancellation, crash and restart                                         *)

\* the event whose publication is in flight, if there is one
InFlight ==
  CASE lock # "free"   -> {Event("token", batch, 0)}
    [] pc = "metadata" -> {Event("event", <<>>, 0)}
    [] pc = "event"    -> {Event("event", <<>>, local)}
    [] pc = "error"    -> {Event("error", <<>>, 0)}
    [] OTHER           -> {}

\* a command in flight, when nobody waits for its reply any more
Abandoned(es) ==
  \/ UNCHANGED storeVars
  \/ \E e \in es : \/ store' = Appended(store, e) /\ UNCHANGED late
                   \/ /\ Cardinality(late) < MaxLate
                      /\ late' = late \cup {e}
                      /\ UNCHANGED store
  \/ pc = "done" /\ store' = Terminated(store, row.seq) /\ UNCHANGED late

\* flush() and add() suspend the task only when they wait for the lock or publish
Suspended == pc \in {"adding", "boundary", "close"} => lock # "free"

\* task.cancel(): a publish by the task is interrupted, one by the timer is not
CancelTask ==
  /\ pc \notin {"ended", "gone", "down"}
  /\ mode # "restart"
  /\ Suspended
  /\ cancels < MaxCancels
  /\ cancels' = cancels + 1
  /\ Abandoned(IF lock = "timer" THEN {} ELSE InFlight)
  /\ IF lock = "main" THEN lock' = "free" /\ batch' = <<>> ELSE UNCHANGED <<lock, batch>>
  /\ tries' = IF lock = "timer" THEN tries ELSE 0
  /\ UNCHANGED <<row, agentVars, frags, timer, failure, pubSeq, snap, troubles, crashes>>

\* CancelledError in the body: the handler closes the buffer, which flushes what
\* is still in it, then finalizes the run, or re-raises when this is a shutdown
CancelBody ==
  /\ mode = "body"
  /\ CancelTask
  /\ pc' = "close"
  /\ mode' \in {"cancel", "shutdown"}

\* CancelledError inside a handler ends the task there, by a second cancel or by stop()
CancelHandler ==
  /\ mode \in {"cancel", "fail"}
  /\ CancelTask
  /\ pc' \in {"gone", "down"}
  /\ UNCHANGED mode

\* ChatRunManager.cancel of an active run whose task has ended: no task to cancel,
\* so the request finalizes the run itself
DirectCancel ==
  /\ pc = "gone"
  /\ ~Finished
  /\ cancels < MaxCancels
  /\ cancels' = cancels + 1
  /\ mode' = "direct"
  /\ pc' = "snapshot"
  /\ UNCHANGED <<storeVars, row, agentVars, bufferVars, tries, pubSeq, snap,
                 troubles, crashes>>

Crash ==
  /\ pc # "down"
  /\ crashes < MaxCrashes
  /\ crashes' = crashes + 1
  /\ Abandoned(InFlight)
  /\ pc' = "down"
  /\ UNCHANGED <<row, mode, agentVars, bufferVars, tries, pubSeq, snap, troubles, cancels>>

\* start(): only runs that are still active are reconciled
Restart ==
  /\ pc = "down"
  /\ IF Finished
       THEN pc' = "ended" /\ UNCHANGED mode
       ELSE mode' = "restart" /\ pc' = "snapshot"
  /\ frags' = <<>> /\ batch' = <<>> /\ lock' = "free" /\ timer' = FALSE /\ failure' = FALSE
  /\ tries' = 0
  /\ pubSeq' = 0
  /\ UNCHANGED <<storeVars, row, agentVars, snap, boundVars>>

-----------------------------------------------------------------------------
\* steps taken without any help from the environment
TaskStep ==
  \/ Metadata \/ AgentNext \/ AgentRaises \/ AgentEvent \/ Add \/ FlushNothing \/ FlushStarts
  \/ StoredFailure \/ FlushPublishes \/ Error \/ Snapshot \/ Commit \/ AppendDone

WriterNext ==
  \/ TaskStep \/ TimerFires \/ LateAppend
  \/ CancelBody \/ CancelHandler \/ DirectCancel \/ Crash \/ Restart

-----------------------------------------------------------------------------
(* What the stream and the row promise                                      *)

EventType == {"token", "event", "error", "done"}
TextType  == Seq(1..MaxFragments)
SnapType  == [seq : Nat, out : TextType]

\* The types, with the one demand append_done makes of its caller: the sequence
\* committed for a finished run is positive.
WriterTypeOK ==
  /\ store \in [log : Seq([id : Nat, type : EventType, text : TextType,
                           mark : 0..MaxFragments]),
                last : Nat, output : TextType]
  /\ late \subseteq [type : EventType, text : TextType, mark : 0..MaxFragments]
  /\ row \in [status : {"active", "completed", "cancelled", "failed"},
              seq : Nat, out : TextType]
  /\ Finished => row.seq > 0
  /\ pc \in {"metadata", "agent", "adding", "boundary", "event", "close", "error",
             "snapshot", "commit", "done", "ended", "gone", "down"}
  /\ mode \in Modes
  /\ local \in 0..MaxFragments
  /\ events \in 0..MaxEvents
  /\ frags \in TextType
  /\ batch \in TextType
  /\ lock \in {"free", "main", "timer"}
  /\ timer \in BOOLEAN
  /\ failure \in BOOLEAN
  /\ tries \in 0..Retries
  /\ pubSeq \in Nat
  /\ snap \in SnapType
  /\ troubles \in 0..MaxStoreFaults
  /\ cancels \in 0..MaxCancels
  /\ crashes \in 0..MaxCrashes

\* The ids of the stream ascend and the metadata hash holds the last of them, so
\* a cursor splits the stream into what was read and what was not, even when
\* append_done inserts an id of the database's choosing after a lost reply, a
\* late append, a cancelled finalization or a restart.
StreamOrdered ==
  /\ \A i, j \in DOMAIN store.log : i < j => store.log[i].id < store.log[j].id
  /\ \A i \in DOMAIN store.log : store.log[i].id \in 1..store.last
  /\ store.last > 0 => \E i \in DOMAIN store.log : store.log[i].id = store.last

\* The done event of the stream stands exactly at the sequence the database
\* committed, only for a finished run, and at most once, whichever of the body,
\* a handler or a restarted process finalized the run, however often the
\* terminal script was called, and whatever else reached the stream meanwhile.
DoneAtCommittedSequence ==
  /\ \A i \in DOMAIN store.log :
       store.log[i].type = "done" => Finished /\ store.log[i].id = row.seq
  /\ \A i, j \in DOMAIN store.log :
       store.log[i].type = "done" /\ store.log[j].type = "done" => i = j

\* No event overtakes the text the agent emitted before it: an entry that
\* followed k fragments has all of them earlier in the stream, although the
\* buffer, its timer and the retries decide when the text is published.
TextBeforeEvent ==
  \A j \in DOMAIN store.log : \A k \in 1..store.log[j].mark :
    \E i \in 1..(j - 1) : \E n \in DOMAIN store.log[i].text : store.log[i].text[n] = k

\* every fragment is in the text, first occurrences in the agent's order
Covers(text, n) ==
  \A k \in 1..n : \E i \in DOMAIN text :
    text[i] = k /\ \A j \in 1..(i - 1) : text[j] < k

WriterSpec == Init /\ [][WriterNext]_writerVars
=============================================================================
