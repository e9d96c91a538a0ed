---------------------------- MODULE RunFollowers ----------------------------
(***************************************************************************)
(* A browser that follows a run while RunEvents writes it: the snapshot it *)
(* starts from, the SSE endpoint GET /chat/runs/{id}/events (api/chat.py)  *)
(* and the reconnecting reader of ChatPanel/index.vue.                     *)
(*                                                                         *)
(* A follower only reads, so followers are independent of each other and   *)
(* one of them is enough.  Its connection and the endpoint's generator     *)
(* share one cursor: what the generator yielded and the browser did not    *)
(* apply dies with the connection.                                         *)
(***************************************************************************)
EXTENDS RunEvents, SequencesExt

CONSTANTS
  MaxSlips,  \* bound on appends between the two reads of one snapshot
  MaxDrops   \* bound on lost connections

ASSUME FollowersAssumption == {MaxSlips, MaxDrops} \subseteq Nat

VARIABLES
  reader,   \* where the follower is
  cursor,   \* lastEventSequence, and the generator's current_sequence
  shown,    \* the text on the screen
  gotDone,  \* the follower stopped at a done event
  slips,    \* appends that slipped into a snapshot
  drops     \* lost connections

followerVars == <<reader, cursor, shown, gotDone, slips, drops>>
vars == <<writerVars, followerVars>>

\* the text of the stream up to a sequence
StreamText(seq) ==
  FlattenSeq([i \in DOMAIN store.log |->
                IF store.log[i].id <= seq THEN store.log[i].text ELSE <<>>])

FollowerInit ==
  /\ Init
  /\ reader = "joining"
  /\ cursor = 0
  /\ shown = <<>>
  /\ gotDone = FALSE
  /\ slips = 0
  /\ drops = 0

\* requests are answered: the process is up and its startup has finished
Serving == pc # "down" /\ (mode = "restart" => pc = "ended")

\* The submission was answered, or GET /chat/runs/active found the run; a run that
\* is over is not followed.
Join ==
  /\ reader = "joining"
  /\ Serving
  /\ reader' = IF Finished THEN "idle" ELSE "counting"
  /\ UNCHANGED <<cursor, shown, gotDone, slips, drops>>

\* the first read of the snapshot: last_sequence
ReadSequence ==
  /\ reader = "counting"
  /\ Serving
  /\ cursor' = store.last
  /\ reader' = "restoring"
  /\ UNCHANGED <<shown, gotDone, slips, drops>>

\* the second read: the output, which restoreRunOutputSnapshot puts on the screen
ReadOutput ==
  /\ reader = "restoring"
  /\ Serving
  /\ shown' = store.output
  /\ reader' = "reading"
  /\ UNCHANGED <<cursor, gotDone, slips, drops>>

\* the entries read_after returns, above the cursor and not at it
Unread == After(store, cursor)

FaultyEndsStream(type) == type \in {"done", "error"}

\* the generator returns, and the browser stops, at a done event
EndsStream(type) == type = "done"

FaultyNextEntry(positions) == CHOOSE i \in positions : \A j \in positions : i >= j

\* entries are sent in the order of the stream
NextEntry(positions) == CHOOSE i \in positions : \A j \in positions : i <= j

\* one entry is sent and applied
Deliver ==
  /\ reader = "reading"
  /\ Serving
  /\ Unread # {}
  /\ LET entry == store.log[NextEntry(Unread)] IN
       /\ cursor' = entry.id
       /\ shown' = shown \o entry.text
       /\ gotDone' = EndsStream(entry.type)
       /\ reader' = IF EndsStream(entry.type) THEN "stopped" ELSE "reading"
  /\ UNCHANGED <<slips, drops>>

\* the blocking read returns nothing
ReadNothing ==
  /\ reader = "reading"
  /\ Serving
  /\ Unread = {}
  /\ reader' = "checking"
  /\ UNCHANGED <<cursor, shown, gotDone, slips, drops>>

FaultyOver == Finished /\ cursor < row.seq

\* the status the endpoint then reads from the database is final
Over == Finished

\* A finished run ends the stream, with a done event made from the row when the
\* cursor is below the committed sequence; otherwise reading goes on.
CheckRow ==
  /\ reader = "checking"
  /\ Serving
  /\ IF ~Over THEN reader' = "reading" /\ UNCHANGED <<cursor, gotDone>>
     ELSE IF cursor < row.seq
       THEN cursor' = row.seq /\ gotDone' = TRUE /\ reader' = "stopped"
       ELSE reader' = "polling" /\ UNCHANGED <<cursor, gotDone>>
  /\ UNCHANGED <<shown, slips, drops>>

\* the endpoint of a new connection goes on from the cursor the browser sends it
Connects == reader' = "reading" /\ UNCHANGED cursor

\* A connection or a request fails, or the endpoint ends the stream on a Redis
\* error.  The browser reconnects at its cursor; when the stream ended without an
\* error it asks for the run first.
Drop ==
  /\ drops < MaxDrops
  /\ drops' = drops + 1
  /\ \/ reader \in {"checking", "polling"} /\ Connects
     \/ reader \in {"reading", "checking"} /\ reader' = "polling" /\ UNCHANGED cursor
  /\ UNCHANGED <<shown, gotDone, slips>>

\* what GET /chat/runs/{id} says of the run
SaidFinished == Finished

\* a finished run stops the follower, else it reconnects
Poll ==
  /\ reader = "polling"
  /\ Serving
  /\ IF SaidFinished THEN reader' = "stopped" /\ UNCHANGED cursor ELSE Connects
  /\ UNCHANGED <<shown, gotDone, slips, drops>>

\* Following ends for good while the run goes on: a permanent client error
\* (shouldRetryRunStream refuses every 4xx but 408 and 429) becomes an error message,
\* or the user went to another session and the subscription is aborted.
Leave ==
  /\ reader \in {"reading", "checking", "polling"}
  /\ reader' = "left"
  /\ UNCHANGED <<cursor, shown, gotDone, slips, drops>>

-----------------------------------------------------------------------------
FollowerStep ==
  \/ Join \/ ReadSequence \/ ReadOutput
  \/ Deliver \/ ReadNothing \/ CheckRow \/ Drop \/ Poll \/ Leave

\* the end of the process fails the request it was answering
ReaderAfter ==
  CASE pc' # "down" -> reader
    [] reader = "checking" -> "reading"
    [] reader \in {"counting", "restoring"} -> "joining"
    [] OTHER -> reader

\* a step of the writer; it changes the store between the two reads of a snapshot
\* only MaxSlips times
WriterStep ==
  /\ WriterNext
  /\ reader' = ReaderAfter
  /\ IF reader = "restoring" /\ store' # store
       THEN slips < MaxSlips /\ slips' = slips + 1
       ELSE UNCHANGED slips
  /\ UNCHANGED <<cursor, shown, gotDone, drops>>

Next == WriterStep \/ (FollowerStep /\ UNCHANGED writerVars)

Spec == FollowerInit /\ [][Next]_vars

\* The event loop runs the task and its timer, the endpoint and the browser act
\* when they can, and the container is restarted after a crash (docker-compose:
\* restart: unless-stopped).  Nothing is assumed of late commands, faults and leaving.
Fairness ==
  /\ WF_vars(WriterStep /\ TaskStep)
  /\ WF_vars(WriterStep /\ TimerFires)
  /\ WF_vars(WriterStep /\ Restart)
  /\ WF_vars(FollowerStep /\ ~Drop /\ reader' # "left" /\ UNCHANGED writerVars)

FairSpec == Spec /\ Fairness

-----------------------------------------------------------------------------
\* the types of both sides
TypeOK ==
  /\ WriterTypeOK
  /\ reader \in {"joining", "idle", "counting", "restoring", "reading",
                 "checking", "polling", "stopped", "left"}
  /\ cursor \in Nat
  /\ shown \in TextType
  /\ gotDone \in BOOLEAN
  /\ slips \in 0..MaxSlips
  /\ drops \in 0..MaxDrops

\* While a follower reads, and when it leaves, its screen has all the text of the
\* stream up to its cursor, and exactly that unless an append slipped between the two
\* reads of its snapshot: reconnecting after lost connections and restarts of the
\* backend neither skips an entry nor applies one twice.
ShownIsStream ==
  reader \in {"reading", "checking", "polling", "left"} =>
    /\ ToSet(StreamText(cursor)) \subseteq ToSet(shown)
    /\ slips = 0 => shown = StreamText(cursor)

\* followChatRun answers that the turn is over only when the run is finished in the
\* database, so what the browser asks for next (the artifacts, a new turn, the final
\* output) finds it so: neither lost connections nor restarts, a done event ahead of
\* the commit or an empty read end it early.  A follower that left answers no such thing.
StoppedMeansFinished == reader = "stopped" => Finished

\* A run that completed lost nothing on the way: every fragment of the agent is in
\* its stream and in the output the row keeps, in order, although commands were
\* retried, failed, lost their replies or were executed late.
NoFragmentLost ==
  row.status = "completed" =>
    Covers(StreamText(store.last), local) /\ Covers(row.out, local)

\* Without lost replies and cancellations batching is exact: whatever the size
\* limit, the timer and the boundaries do, and even when the process crashed in
\* the middle, the text of the stream is what the agent emitted so far, nothing
\* twice, nothing skipped, nothing out of order.
BatchingIsExact == IsPrefix(StreamText(store.last), Text(local))

\* Without lost replies the output kept in the database is the text of the stream
\* up to the committed sequence, for a run finished by its task, by a handler or
\* by the next process.
FinalOutputIsStream == Finished => row.out = StreamText(row.seq)

\* Every follower that does not leave is released: through a done event of the stream,
\* one made from the row, or the status of the run, also when the process crashed
\* before or after the run was finalized.
FollowerIsReleased == <>(reader \in {"stopped", "idle", "left"})

\* A follower that got done has the whole text of the stream ("each subscriber MUST
\* be able to read the complete retained sequence", durable-chat-runs).  Refuted: an
\* empty read, then entries and the finalization, then the check of the row makes a
\* done event that skips them.
DoneAfterWholeStream == gotDone => shown = StreamText(row.seq)

\* The output of a cancelled run is text of the agent ("whose concatenated text
\* exactly matches the original fragments", durable-chat-runs).  Refuted: a cancel
\* that interrupts a flush after Redis has executed it leaves the fragments in the
\* buffer, and closing the buffer publishes them again.
CancelledTextIsExact == row.status = "cancelled" => IsPrefix(row.out, Text(local))
=============================================================================
