------------------------- MODULE RunEvents_proofs -------------------------
(***************************************************************************)
(* Proofs about the stream and the row that one run writes, for any number *)
(* of fragments, events, retries, lost or late commands, cancellations and *)
(* crashes.                                                                *)
(***************************************************************************)
EXTENDS RunEvents, SequenceTheorems, WellFoundedInduction, TLAPS

USE DEF storeVars, agentVars, bufferVars, boundVars

-----------------------------------------------------------------------------
(* Types                                                                   *)

\* what append() is called with
AppendableType ==
  [type : {"token", "event", "error"}, text : TextType, mark : 0..MaxFragments]

StoreType ==
  [log : Seq([id : Nat, type : EventType, text : TextType, mark : 0..MaxFragments]),
   last : Nat, output : TextType]

\* The types with what they rest on: no done event is ever a late append, a
\* fragment that is being added has been received, and a shutdown only closes the
\* buffer.
WriterInv ==
  /\ WriterTypeOK
  /\ late \subseteq AppendableType
  /\ pc = "adding" => local > 0
  /\ mode = "shutdown" => pc \in {"close", "down", "ended"}

\* Whatever the writer appends or has in flight is an event that may be appended.
LEMMA AppendableEvents ==
  ASSUME WriterTypeOK
  PROVE  /\ Event("token", batch, 0) \in AppendableType
         /\ Event("event", <<>>, 0) \in AppendableType
         /\ Event("error", <<>>, 0) \in AppendableType
         /\ Event("event", <<>>, local) \in AppendableType
         /\ InFlight \subseteq AppendableType
<1>1. <<>> \in TextType /\ 0 \in 0..MaxFragments
  BY EventsAssumption DEF TextType
<1>2. batch \in TextType /\ local \in 0..MaxFragments
  BY DEF WriterTypeOK
<1> QED BY <1>1, <1>2 DEF Event, AppendableType, InFlight

\* Appending an event keeps the stream's types.
LEMMA AppendedType ==
  ASSUME NEW st \in StoreType, NEW e \in AppendableType
  PROVE  Appended(st, e) \in StoreType
<1>1. Entry(st.last + 1, e) \in
        [id : Nat, type : EventType, text : TextType, mark : 0..MaxFragments]
  BY DEF Entry, StoreType, AppendableType, EventType
<1>2. st.output \o e.text \in TextType
  BY DEF StoreType, AppendableType, TextType
<1> QED BY <1>1, <1>2 DEF Appended, StoreType

\* The done event keeps the stream's types.
LEMMA TerminatedType ==
  ASSUME NEW st \in StoreType, NEW seq \in Nat
  PROVE  Terminated(st, seq) \in StoreType
<1>1. Entry(seq, Event("done", <<>>, 0)) \in
        [id : Nat, type : EventType, text : TextType, mark : 0..MaxFragments]
  BY EventsAssumption DEF Entry, Event, EventType, TextType
<1>2. Append(st.log, Entry(seq, Event("done", <<>>, 0))) \in
        Seq([id : Nat, type : EventType, text : TextType, mark : 0..MaxFragments])
  BY <1>1 DEF StoreType
<1>3. CASE TerminalAccepts(st, seq)
  BY <1>2, <1>3 DEF Terminated, StoreType
<1>4. CASE ~TerminalAccepts(st, seq)
  BY <1>4 DEF Terminated
<1> QED BY <1>3, <1>4

\* Stream and row start empty.
LEMMA InitWriterInv == Init => WriterInv
<1> SUFFICES ASSUME Init PROVE WriterInv
  OBVIOUS
<1>1. <<>> \in TextType
  BY DEF TextType
<1>2. store \in [log : Seq([id : Nat, type : EventType, text : TextType, mark : 0..MaxFragments]),
                last : Nat, output : TextType]
  BY <1>1 DEF Init, EmptyStore
<1>3. /\ row \in [status : {"active", "completed", "cancelled", "failed"},
                  seq : Nat, out : TextType]
      /\ ~Finished /\ snap \in SnapType
  BY <1>1 DEF Init, Unfinished, NoSnap, SnapType, Finished
<1>4. /\ local \in 0..MaxFragments /\ events \in 0..MaxEvents /\ tries \in 0..Retries
      /\ troubles \in 0..MaxStoreFaults /\ cancels \in 0..MaxCancels
      /\ crashes \in 0..MaxCrashes
  BY EventsAssumption DEF Init
<1>5. WriterTypeOK
  BY <1>1, <1>2, <1>3, <1>4 DEF Init, WriterTypeOK, Modes
<1> QED BY <1>5 DEF WriterInv, Init

\* What the writer reads from its store and text has the types of a snapshot.
LEMMA SnapTypes ==
  ASSUME WriterTypeOK
  PROVE  /\ FallbackSnap \in SnapType
         /\ SnapOutput \in TextType
         /\ CommitSnap \in SnapType
         /\ SnapSeq(FallbackSnap.seq, store.last) \in Nat
<1>1. Text(local) \in TextType
  <2>1. local \in Nat BY EventsAssumption DEF WriterTypeOK
  <2>2. Text(local) \in [1..local -> 1..MaxFragments]
    BY SMTT(30), EventsAssumption DEF WriterTypeOK, Text
  <2> QED BY <2>1, <2>2, SeqDef DEF TextType
<1>2. FallbackSnap \in SnapType
  BY <1>1 DEF FallbackSnap, SnapType, NoSnap, WriterTypeOK, TextType
<1> QED BY <1>1, <1>2 DEF SnapOutput, CommitSnap, SnapType, SnapSeq, WriterTypeOK

-----------------------------------------------------------------------------
(* What the parts of a step do                                             *)

\* the ways an append can end
Appends(e) == AppendOk(e) \/ AppendRetry(e) \/ AppendRaises(e)

\* The writer's steps that append keep the types.
LEMMA AppendsTypes ==
  ASSUME WriterInv, NEW e \in AppendableType, Appends(e)
  PROVE  /\ store' \in StoreType
         /\ late' \subseteq AppendableType
         /\ pubSeq' \in Nat
         /\ tries' \in 0..Retries
         /\ troubles' \in 0..MaxStoreFaults
         /\ store' = store \/ store' = Appended(store, e)
<1> USE EventsAssumption DEF WriterInv
<1>1. store \in StoreType
  BY DEF WriterTypeOK, StoreType
<1>2. Appended(store, e) \in StoreType
  BY <1>1, AppendedType
<1>3. CASE AppendOk(e)
  <2>1. store.last \in Nat /\ store' = Appended(store, e) /\ late' = late
        /\ pubSeq' = store.last + 1 /\ tries' = 0 /\ troubles' = troubles
    BY <1>1, <1>3 DEF AppendOk, StoreType
  <2>2. 0 \in 0..Retries /\ troubles \in 0..MaxStoreFaults
    BY DEF WriterTypeOK
  <2> QED BY <1>2, <2>1, <2>2
<1>4. ASSUME AppendTrouble(e)
      PROVE  /\ store' \in StoreType /\ late' \subseteq AppendableType
             /\ pubSeq' \in Nat /\ troubles' \in 0..MaxStoreFaults
             /\ store' = store \/ store' = Appended(store, e)
  BY SMTT(30), <1>1, <1>2, <1>4 DEF AppendTrouble, WriterTypeOK
<1>5. CASE AppendRetry(e)
  BY SMTT(30), <1>4, <1>5 DEF AppendRetry, WriterTypeOK
<1>6. CASE AppendRaises(e)
  BY <1>4, <1>6 DEF AppendRaises, WriterTypeOK
<1> QED BY <1>3, <1>5, <1>6 DEF Appends

\* A call cut short lands now, later or never, and keeps the types.
LEMMA AbandonedTypes ==
  ASSUME WriterInv, NEW es \in SUBSET AppendableType, Abandoned(es)
  PROVE  /\ store' \in StoreType
         /\ late' \subseteq AppendableType
         /\ \/ store' = store
            \/ \E e \in AppendableType : store' = Appended(store, e)
            \/ pc = "done" /\ store' = Terminated(store, row.seq)
<1> USE DEF WriterInv
<1>1. store \in StoreType /\ row.seq \in Nat
  BY DEF WriterTypeOK, StoreType
<1>2. \A e \in AppendableType : Appended(store, e) \in StoreType
  BY <1>1, AppendedType
<1>3. Terminated(store, row.seq) \in StoreType
  BY <1>1, TerminatedType
<1> QED BY <1>1, <1>2, <1>3 DEF Abandoned

\* A cancelled writer keeps the types.
LEMMA CancelTypes ==
  ASSUME WriterInv, CancelTask
  PROVE  /\ store' \in StoreType /\ late' \subseteq AppendableType
         /\ lock' \in {lock, "free"} /\ batch' \in {batch, <<>>}
         /\ tries' \in 0..Retries /\ cancels' \in 0..MaxCancels
         /\ UNCHANGED <<row, agentVars, frags, timer, failure, pubSeq, snap, troubles, crashes>>
<1>1. (IF lock = "timer" THEN {} ELSE InFlight) \subseteq AppendableType
  BY AppendableEvents DEF WriterInv
<1>2. store' \in StoreType /\ late' \subseteq AppendableType
  BY <1>1, AbandonedTypes DEF CancelTask
<1>3. tries' \in 0..Retries /\ cancels' \in 0..MaxCancels
  BY SMTT(30), EventsAssumption DEF CancelTask, WriterInv, WriterTypeOK
<1> QED BY <1>2, <1>3 DEF CancelTask

\* where flush() and publish() send the task
LEMMA FlushTargets ==
  ASSUME WriterInv
  PROVE  /\ FlushReturns \in {"agent", "event", "error", "down", "snapshot"}
         /\ mode = "shutdown" => FlushReturns = "down"
  BY DEF FlushReturns, WriterInv

-----------------------------------------------------------------------------
(* The inductive invariant                                                 *)

\* The conjuncts of the invariant, by the part of the writer they are about.
StreamTyped ==
  /\ store \in StoreType /\ late \subseteq AppendableType
  /\ pubSeq \in Nat /\ tries \in 0..Retries /\ troubles \in 0..MaxStoreFaults

RowTyped ==
  /\ row \in [status : {"active", "completed", "cancelled", "failed"},
              seq : Nat, out : TextType]
  /\ Finished => row.seq > 0

TaskTyped ==
  /\ pc \in {"metadata", "agent", "adding", "boundary", "event", "close", "error",
             "snapshot", "commit", "done", "ended", "gone", "down"}
  /\ mode \in Modes
  /\ mode = "shutdown" => pc \in {"close", "down", "ended"}

AgentTyped ==
  /\ local \in 0..MaxFragments /\ events \in 0..MaxEvents
  /\ pc = "adding" => local > 0

BufferTyped ==
  /\ frags \in TextType /\ batch \in TextType
  /\ lock \in {"free", "main", "timer"} /\ timer \in BOOLEAN /\ failure \in BOOLEAN

LimitTyped == snap \in SnapType /\ cancels \in 0..MaxCancels /\ crashes \in 0..MaxCrashes

\* The invariant is its parts.
LEMMA WriterParts ==
  WriterInv <=> /\ StreamTyped /\ RowTyped /\ TaskTyped
                /\ AgentTyped /\ BufferTyped /\ LimitTyped
<1>1. AppendableType \subseteq [type : EventType, text : TextType, mark : 0..MaxFragments]
  BY DEF AppendableType, EventType
<1>2. ASSUME WriterInv PROVE /\ StreamTyped /\ RowTyped /\ TaskTyped
                             /\ AgentTyped /\ BufferTyped /\ LimitTyped
  <2>1. StreamTyped BY <1>2 DEF WriterInv, WriterTypeOK, StreamTyped, StoreType
  <2>2. RowTyped BY <1>2 DEF WriterInv, WriterTypeOK, RowTyped
  <2>3. TaskTyped BY <1>2 DEF WriterInv, WriterTypeOK, TaskTyped
  <2>4. AgentTyped BY <1>2 DEF WriterInv, WriterTypeOK, AgentTyped
  <2>5. BufferTyped BY <1>2 DEF WriterInv, WriterTypeOK, BufferTyped
  <2>6. LimitTyped BY <1>2 DEF WriterInv, WriterTypeOK, LimitTyped
  <2> QED BY <2>1, <2>2, <2>3, <2>4, <2>5, <2>6
<1>3. ASSUME StreamTyped, RowTyped, TaskTyped, AgentTyped, BufferTyped, LimitTyped
      PROVE  WriterInv
  <2>1. /\ store \in [log : Seq([id : Nat, type : EventType, text : TextType,
                                 mark : 0..MaxFragments]),
                      last : Nat, output : TextType]
        /\ late \subseteq [type : EventType, text : TextType, mark : 0..MaxFragments]
    BY <1>1, <1>3 DEF StreamTyped, StoreType
  <2>2. late \subseteq AppendableType /\ pubSeq \in Nat /\ tries \in 0..Retries
        /\ troubles \in 0..MaxStoreFaults
    BY <1>3 DEF StreamTyped
  <2>3. WriterTypeOK
    BY <1>3, <2>1, <2>2
       DEF WriterTypeOK, RowTyped, TaskTyped, AgentTyped, BufferTyped, LimitTyped
  <2> QED BY <1>3, <2>2, <2>3 DEF WriterInv, TaskTyped, AgentTyped
<1> QED BY <1>2, <1>3

\* Every step of the writer, the cancel and the faults keeps the types.
LEMMA NextWriterInv == WriterInv /\ [WriterNext]_writerVars => WriterInv'
<1> SUFFICES ASSUME WriterInv, [WriterNext]_writerVars PROVE WriterInv'
  OBVIOUS
<1> USE EventsAssumption DEF Modes
<1>p. StreamTyped /\ RowTyped /\ TaskTyped /\ AgentTyped /\ BufferTyped /\ LimitTyped
  BY WriterParts
<1>q. ASSUME StreamTyped', RowTyped', TaskTyped', AgentTyped', BufferTyped', LimitTyped'
      PROVE  WriterInv'
  <2>1. (WriterInv <=> /\ StreamTyped /\ RowTyped /\ TaskTyped
                       /\ AgentTyped /\ BufferTyped /\ LimitTyped)'
    BY WriterParts, PTL
  <2> QED BY <1>q, <2>1
<1>x. <<>> \in TextType
  BY DEF TextType
\* a part stays typed while its variables stay
<1>s. UNCHANGED <<store, late, pubSeq, tries, troubles>> => StreamTyped'
  BY <1>p DEF StreamTyped
<1>r. UNCHANGED row => RowTyped'
  BY <1>p DEF RowTyped, Finished
<1>t. UNCHANGED <<pc, mode>> => TaskTyped'
  BY <1>p DEF TaskTyped
<1>a. UNCHANGED <<local, events>> /\ (pc' = "adding" => pc = "adding") => AgentTyped'
  BY <1>p DEF AgentTyped
<1>b. UNCHANGED <<frags, batch, lock, timer, failure>> => BufferTyped'
  BY <1>p DEF BufferTyped
<1>l. UNCHANGED <<snap, cancels, crashes>> => LimitTyped'
  BY <1>p DEF LimitTyped
\* FlushBy and what flush() returns to
<1>f. ASSUME NEW who \in {"main", "timer"}, FlushBy(who), frags' \in TextType,
             UNCHANGED failure
      PROVE  BufferTyped'
  BY <1>p, <1>f DEF BufferTyped, FlushBy
<1>g. ASSUME pc' = FlushReturns, UNCHANGED <<mode, local, events>>
      PROVE  TaskTyped' /\ AgentTyped'
  BY <1>p, <1>g, FlushTargets DEF TaskTyped, AgentTyped
<1>h. ASSUME FlushRaises, UNCHANGED <<local, events>>
      PROVE  TaskTyped' /\ AgentTyped'
  <2>1. CASE mode = "body"
    BY <1>p, <1>h, <2>1 DEF FlushRaises, RaiseTo, TaskTyped, AgentTyped
  <2>2. CASE mode # "body"
    BY <1>g, <1>h, <2>2 DEF FlushRaises
  <2> QED BY <2>1, <2>2
<1>e. /\ Event("token", batch, 0) \in AppendableType
      /\ Event("event", <<>>, 0) \in AppendableType
      /\ Event("error", <<>>, 0) \in AppendableType
      /\ Event("event", <<>>, local) \in AppendableType
      /\ InFlight \subseteq AppendableType
  BY AppendableEvents DEF WriterInv
<1>1. ASSUME NEW from, NEW to \in {"agent", "commit", "snapshot"},
             NEW e \in AppendableType, from \in {"metadata", "event", "error"},
             PublishEvent(from, to, e)
      PROVE  WriterInv'
  <2>1. Appends(e) BY <1>1 DEF PublishEvent, Appends
  <2>2. StreamTyped' BY <2>1, AppendsTypes DEF StreamTyped
  <2>3. pc' \in {pc, to, "close"} /\ mode' \in {mode, "fail"} /\ pc \in {"metadata", "event", "error"}
    BY <1>1 DEF PublishEvent, RaiseTo
  <2>4. UNCHANGED <<row, agentVars, bufferVars, snap, cancels, crashes>>
    BY <1>1 DEF PublishEvent
  <2>5. TaskTyped' BY <1>p, <1>1, <2>3 DEF TaskTyped
  <2> QED BY <1>q, <1>r, <1>a, <1>b, <1>l, <1>1, <2>2, <2>3, <2>4, <2>5
<1>2. CASE Metadata
  BY <1>e, <1>1, <1>2 DEF Metadata
<1>3. CASE AgentEvent
  BY <1>e, <1>1, <1>3 DEF AgentEvent
<1>4. CASE Error
  BY <1>e, <1>1, <1>4 DEF Error
<1>5. CASE AgentNext
  <2>1. AgentTyped' BY <1>p, <1>5 DEF AgentNext, AgentTyped
  <2>2. TaskTyped' BY <1>p, <1>5 DEF AgentNext, TaskTyped
  <2>3. UNCHANGED <<storeVars, row, bufferVars, tries, pubSeq, snap, boundVars>>
    BY <1>5 DEF AgentNext
  <2> QED BY <1>q, <1>s, <1>r, <1>b, <1>l, <2>1, <2>2, <2>3
<1>6. CASE AgentRaises
  <2>1. TaskTyped' /\ AgentTyped'
    BY <1>p, <1>6 DEF AgentRaises, RaiseTo, TaskTyped, AgentTyped
  <2>2. UNCHANGED <<storeVars, row, bufferVars, tries, pubSeq, snap, boundVars>>
    BY <1>6 DEF AgentRaises
  <2> QED BY <1>q, <1>s, <1>r, <1>b, <1>l, <2>1, <2>2
<1>7. CASE Add
  <2>1. local \in 1..MaxFragments /\ frags' = Append(frags, local) /\ frags' \in TextType
    BY <1>p, <1>7 DEF Add, TextType, AgentTyped, BufferTyped
  <2>2. BufferTyped'
    <3>1. CASE Len(frags) + 1 >= BatchSize BY <1>f, <1>7, <2>1, <3>1 DEF Add
    <3>2. CASE ~(Len(frags) + 1 >= BatchSize)
      BY <1>p, <1>7, <2>1, <3>2 DEF Add, BufferTyped
    <3> QED BY <3>1, <3>2
  <2>3. TaskTyped' /\ AgentTyped'
    BY <1>p, <1>7 DEF Add, TaskTyped, AgentTyped
  <2>4. UNCHANGED <<storeVars, row, tries, pubSeq, snap, boundVars>>
    BY <1>7 DEF Add
  <2> QED BY <1>q, <1>s, <1>r, <1>l, <2>2, <2>3, <2>4
<1>8. CASE FlushNothing
  <2>1. UNCHANGED <<storeVars, row, mode, agentVars, bufferVars, tries, pubSeq, snap, boundVars>>
        /\ pc' = FlushReturns
    BY <1>8 DEF FlushNothing
  <2> QED BY <1>q, <1>s, <1>r, <1>g, <1>b, <1>l, <2>1
<1>9. CASE FlushStarts
  <2>1. /\ UNCHANGED <<storeVars, row, pc, mode, agentVars, failure, tries, pubSeq, snap, boundVars>>
        /\ FlushBy("main") /\ frags' = frags
    BY <1>9 DEF FlushStarts
  <2>2. BufferTyped' BY <1>p, <1>f, <2>1 DEF BufferTyped
  <2> QED BY <1>q, <1>s, <1>r, <1>t, <1>a, <1>l, <2>1, <2>2
<1>10. CASE StoredFailure
  <2>1. UNCHANGED <<storeVars, row, agentVars, bufferVars, tries, pubSeq, snap, boundVars>>
        /\ FlushRaises
    BY <1>10 DEF StoredFailure
  <2> QED BY <1>q, <1>s, <1>r, <1>h, <1>b, <1>l, <2>1
<1>11. CASE TimerFires
  <2>1. /\ UNCHANGED <<storeVars, row, pc, mode, agentVars, failure, tries, pubSeq, snap, boundVars>>
        /\ FlushBy("timer") /\ frags' = frags
    BY <1>11 DEF TimerFires
  <2>2. BufferTyped' BY <1>p, <1>f, <2>1 DEF BufferTyped
  <2> QED BY <1>q, <1>s, <1>r, <1>t, <1>a, <1>l, <2>1, <2>2
<1>12. CASE FlushPublishes
  <2> DEFINE e == Event("token", batch, 0)
  <2>1. Appends(e) BY <1>12 DEF FlushPublishes, Appends
  <2>2. StreamTyped' BY <1>e, <2>1, AppendsTypes DEF StreamTyped
  <2> HIDE DEF e
  <2>3. UNCHANGED <<row, agentVars, timer, snap, cancels, crashes>>
    BY <1>12 DEF FlushPublishes
  <2>4. /\ frags' \in {frags, <<>>} /\ batch' \in {batch, <<>>}
        /\ lock' \in {lock, "free"} /\ failure' \in {failure, TRUE}
    BY <1>12 DEF FlushPublishes
  <2>5. BufferTyped' BY <1>p, <1>x, <2>3, <2>4 DEF BufferTyped
  <2>6. \/ UNCHANGED <<pc, mode>>
        \/ pc' = FlushReturns /\ UNCHANGED mode
        \/ FlushRaises
    BY <1>12 DEF FlushPublishes
  <2>7. TaskTyped' /\ AgentTyped' BY <1>t, <1>a, <1>g, <1>h, <2>3, <2>6
  <2> QED BY <1>q, <1>r, <1>l, <2>2, <2>3, <2>5, <2>7
<1>13. CASE Snapshot
  <2>0. /\ FallbackSnap \in SnapType /\ SnapOutput \in TextType
        /\ SnapSeq(FallbackSnap.seq, store.last) \in Nat
    BY SnapTypes DEF WriterInv
  <2>1. snap' \in SnapType
    <3>1. [seq |-> SnapSeq(FallbackSnap.seq, store.last), out |-> SnapOutput] \in SnapType
      BY <2>0 DEF SnapType
    <3> QED BY <1>13, <2>0, <3>1 DEF Snapshot
  <2>2. UNCHANGED <<storeVars, row, mode, agentVars, bufferVars, tries, pubSeq, cancels, crashes>>
    BY <1>13 DEF Snapshot
  <2>3. pc = "snapshot" /\ pc' \in {"error", "commit"}
    BY <1>13 DEF Snapshot
  <2>4. troubles' \in 0..MaxStoreFaults
    BY <1>p, <1>13 DEF Snapshot, CommandTrouble, StreamTyped
  <2>5. StreamTyped' BY <1>p, <2>2, <2>4 DEF StreamTyped
  <2>6. TaskTyped' BY <1>p, <2>2, <2>3 DEF TaskTyped
  <2>7. LimitTyped' BY <1>p, <2>1, <2>2 DEF LimitTyped
  <2> QED BY <1>q, <1>r, <1>a, <1>b, <2>2, <2>3, <2>5, <2>6, <2>7
<1>14. CASE Commit
  <2>1. pc = "commit" /\ mode \in Modes \ {"shutdown"}
    BY <1>p, <1>14 DEF Commit, TaskTyped
  <2>2. Committed(CommitSnap) \in
          [status : {"active", "completed", "cancelled", "failed"}, seq : Nat, out : TextType]
        /\ Committed(CommitSnap).seq > 0
    <3>1. CommitSnap.seq \in Nat /\ CommitSnap.out \in TextType
      BY SnapTypes DEF SnapType, WriterInv
    <3>2. StatusOf[mode] \in {"active", "completed", "cancelled", "failed"}
      BY <2>1 DEF StatusOf
    <3>3. Committed(CommitSnap) =
            [status |-> StatusOf[mode], seq |-> CommitSnap.seq + 1, out |-> CommitSnap.out]
      BY DEF Committed
    <3> QED BY <3>1, <3>2, <3>3
  <2>3. row' \in {row, Committed(CommitSnap)}
    BY <1>14 DEF Commit, FinalizeRow
  <2>4. RowTyped'
    BY <1>p, <2>2, <2>3 DEF RowTyped, Finished
  <2>5. /\ pc' \in {"done", "close", "down", "gone"}
        /\ mode' \in {mode, "fail"}
    BY <1>14 DEF Commit, CommitRaises, RaiseTo
  <2>6. TaskTyped' BY <2>1, <2>5 DEF TaskTyped
  <2>7. UNCHANGED <<storeVars, agentVars, bufferVars, tries, pubSeq, snap, cancels, crashes>>
    BY <1>14 DEF Commit
  <2>8. troubles' \in 0..MaxStoreFaults
    BY <1>p, <1>14 DEF Commit, CommandTrouble, StreamTyped
  <2>9. StreamTyped' BY <1>p, <2>7, <2>8 DEF StreamTyped
  <2> QED BY <1>q, <1>a, <1>b, <1>l, <2>4, <2>5, <2>6, <2>7, <2>9
<1>15. CASE AppendDone
  <2>1. store' \in StoreType
    <3>1. Terminated(store, row.seq) \in StoreType
      BY <1>p, TerminatedType DEF StreamTyped, RowTyped
    <3> QED BY <1>p, <1>15, <3>1 DEF AppendDone, StreamTyped
  <2>2. pc' = "ended" /\ UNCHANGED <<late, row, mode, agentVars, bufferVars, tries, pubSeq, snap,
                                     cancels, crashes>>
    BY <1>15 DEF AppendDone
  <2>3. troubles' \in 0..MaxStoreFaults
    BY <1>p, <1>15 DEF AppendDone, CommandTrouble, StreamTyped
  <2>4. StreamTyped' BY <1>p, <2>1, <2>2, <2>3 DEF StreamTyped
  <2>5. TaskTyped' BY <1>p, <2>2 DEF TaskTyped
  <2> QED BY <1>q, <1>r, <1>a, <1>b, <1>l, <2>2, <2>4, <2>5
<1>16. CASE LateAppend
  <2>1. UNCHANGED <<row, pc, mode, agentVars, bufferVars, tries, pubSeq, snap, boundVars>>
    BY <1>16 DEF LateAppend
  <2>2. PICK e \in late : store' = Appended(store, e) /\ late' = late \ {e}
    BY <1>16 DEF LateAppend
  <2>3. store \in StoreType /\ e \in AppendableType /\ late' \subseteq AppendableType
    BY <1>p, <2>2 DEF StreamTyped
  <2>4. store' \in StoreType BY <2>2, <2>3, AppendedType
  <2>5. StreamTyped' BY <1>p, <2>1, <2>3, <2>4 DEF StreamTyped
  <2> QED BY <1>q, <1>r, <1>t, <1>a, <1>b, <1>l, <2>1, <2>5
<1>c. ASSUME CancelTask, TaskTyped', pc' # "adding" PROVE WriterInv'
  <2>1. /\ store' \in StoreType /\ late' \subseteq AppendableType
        /\ lock' \in {lock, "free"} /\ batch' \in {batch, <<>>}
        /\ tries' \in 0..Retries /\ cancels' \in 0..MaxCancels
        /\ UNCHANGED <<row, agentVars, frags, timer, failure, pubSeq, snap, troubles, crashes>>
    BY <1>c, CancelTypes
  <2>2. StreamTyped' BY <1>p, <2>1 DEF StreamTyped
  <2>3. BufferTyped' BY <1>p, <1>x, <2>1 DEF BufferTyped
  <2>4. LimitTyped' BY <1>p, <2>1 DEF LimitTyped
  <2> QED BY <1>q, <1>r, <1>a, <1>c, <2>1, <2>2, <2>3, <2>4
<1>17. CASE CancelBody
  <2>1. CancelTask /\ mode' \in {"cancel", "shutdown"} /\ pc' = "close"
    BY <1>17 DEF CancelBody
  <2>2. TaskTyped' BY <2>1 DEF TaskTyped
  <2> QED BY <1>c, <2>1, <2>2
<1>18. CASE CancelHandler
  <2>1. CancelTask /\ mode' = mode /\ mode \in {"cancel", "fail"} /\ pc' \in {"gone", "down"}
    BY <1>18 DEF CancelHandler
  <2>2. TaskTyped' BY <2>1 DEF TaskTyped
  <2> QED BY <1>c, <2>1, <2>2
<1>19. CASE Crash
  <2>1. store' \in StoreType /\ late' \subseteq AppendableType
    BY <1>e, <1>19, AbandonedTypes DEF Crash
  <2>2. UNCHANGED <<row, mode, agentVars, bufferVars, tries, pubSeq, snap, troubles, cancels>>
        /\ pc' = "down"
    BY <1>19 DEF Crash
  <2>3. crashes' \in 0..MaxCrashes
    BY <1>p, <1>19 DEF Crash, LimitTyped
  <2>4. StreamTyped' BY <1>p, <2>1, <2>2 DEF StreamTyped
  <2>5. TaskTyped' BY <1>p, <2>2 DEF TaskTyped
  <2>6. LimitTyped' BY <1>p, <2>2, <2>3 DEF LimitTyped
  <2> QED BY <1>q, <1>r, <1>a, <1>b, <2>2, <2>4, <2>5, <2>6
<1>20. CASE Restart
  <2>1. /\ pc' \in {"ended", "snapshot"} /\ mode' \in {mode, "restart"}
        /\ (mode' = "shutdown" => pc' = "ended")
    BY <1>20 DEF Restart
  <2>2. UNCHANGED <<storeVars, row, agentVars, snap, boundVars>>
        /\ tries' = 0 /\ pubSeq' = 0
    BY <1>20 DEF Restart
  <2>3. BufferTyped' BY <1>x, <1>20 DEF Restart, BufferTyped
  <2>4. StreamTyped' BY <1>p, <2>2 DEF StreamTyped
  <2>5. TaskTyped' BY <1>p, <2>1 DEF TaskTyped
  <2> QED BY <1>q, <1>r, <1>a, <1>l, <2>1, <2>2, <2>3, <2>4, <2>5
<1>21. CASE DirectCancel
  <2>1. UNCHANGED <<storeVars, row, agentVars, bufferVars, tries, pubSeq, snap, troubles, crashes>>
        /\ mode' = "direct" /\ pc' = "snapshot"
    BY <1>21 DEF DirectCancel
  <2>2. cancels' \in 0..MaxCancels
    BY <1>p, <1>21 DEF DirectCancel, LimitTyped
  <2>3. TaskTyped' BY <2>1 DEF TaskTyped
  <2>4. LimitTyped' BY <1>p, <2>1, <2>2 DEF LimitTyped
  <2> QED BY <1>q, <1>s, <1>r, <1>a, <1>b, <2>1, <2>3, <2>4
<1>22. CASE UNCHANGED writerVars
  <2>1. UNCHANGED <<store, late, row, pc, mode, local, events, frags, batch, lock, timer,
                    failure, tries, pubSeq, snap, troubles, cancels, crashes>>
    BY <1>22 DEF writerVars
  <2> QED BY <1>q, <1>s, <1>r, <1>t, <1>a, <1>b, <1>l, <2>1
<1> QED BY <1>2, <1>3, <1>4, <1>5, <1>6, <1>7, <1>8, <1>9, <1>10, <1>11, <1>12, <1>13,
           <1>14, <1>15, <1>16, <1>17, <1>18, <1>19, <1>20, <1>21, <1>22 DEF WriterNext, TaskStep

\* Every state of the writer has the types of the model: the row of a finished
\* run carries a positive sequence, so that append_done accepts it.
THEOREM WriterTypeCorrect == WriterSpec => []WriterTypeOK
<1>1. WriterInv => WriterTypeOK
  BY DEF WriterInv
<1> QED BY <1>1, InitWriterInv, NextWriterInv, PTL DEF WriterSpec

-----------------------------------------------------------------------------
(* The stream is ordered                                                   *)

\* a store whose stream is ordered
Ordered(st) ==
  /\ \A i, j \in DOMAIN st.log : i < j => st.log[i].id < st.log[j].id
  /\ \A i \in DOMAIN st.log : st.log[i].id \in 1..st.last
  /\ st.last > 0 => \E i \in DOMAIN st.log : st.log[i].id = st.last

\* one more entry with an id above the last one keeps a stream ordered
LEMMA OrderedAppend ==
  ASSUME NEW st \in StoreType, NEW seq \in Nat, seq > st.last, Ordered(st),
         NEW x \in [id : Nat, type : EventType, text : TextType, mark : 0..MaxFragments],
         x.id = seq,
         NEW after \in StoreType, after.log = Append(st.log, x), after.last = seq
  PROVE  Ordered(after)
<1>1. /\ Len(after.log) = Len(st.log) + 1
      /\ \A i \in 1..Len(st.log) : after.log[i] = st.log[i]
      /\ after.log[Len(st.log) + 1] = x
      /\ DOMAIN st.log = 1..Len(st.log) /\ Len(st.log) \in Nat
      /\ DOMAIN after.log = 1..(Len(st.log) + 1)
  BY DEF StoreType
<1>2. st.last \in Nat /\ \A i \in 1..Len(st.log) : st.log[i].id \in 1..st.last
  BY <1>1 DEF Ordered, StoreType
<1>3. ASSUME NEW i \in DOMAIN after.log, NEW j \in DOMAIN after.log, i < j
      PROVE  after.log[i].id < after.log[j].id
  <2>1. i \in 1..Len(st.log)
    BY <1>1, <1>3
  <2>2. CASE j = Len(st.log) + 1
    BY <1>1, <1>2, <2>1, <2>2
  <2>3. CASE j \in 1..Len(st.log)
    BY <1>1, <1>3, <2>1, <2>3 DEF Ordered
  <2> QED BY <1>1, <2>2, <2>3
<1>4. ASSUME NEW i \in DOMAIN after.log PROVE after.log[i].id \in 1..after.last
  <2>1. CASE i = Len(st.log) + 1
    BY <1>1, <1>2, <2>1
  <2>2. CASE i \in 1..Len(st.log)
    BY <1>1, <1>2, <2>2
  <2> QED BY <1>1, <2>1, <2>2
<1>5. \E i \in DOMAIN after.log : after.log[i].id = after.last
  BY <1>1
<1> QED BY <1>3, <1>4, <1>5 DEF Ordered

\* the append script takes the next sequence
LEMMA AppendedOrdered ==
  ASSUME NEW st \in StoreType, Ordered(st), NEW e \in AppendableType
  PROVE  Ordered(Appended(st, e))
<1>1. Appended(st, e) \in StoreType
  BY AppendedType
<1>2. Entry(st.last + 1, e) \in
        [id : Nat, type : EventType, text : TextType, mark : 0..MaxFragments]
      /\ Entry(st.last + 1, e).id = st.last + 1
  BY DEF Entry, StoreType, AppendableType, EventType
<1>3. Appended(st, e).log = Append(st.log, Entry(st.last + 1, e))
      /\ Appended(st, e).last = st.last + 1
  BY DEF Appended
<1>4. st.last + 1 \in Nat /\ st.last + 1 > st.last
  BY DEF StoreType
<1> QED BY <1>1, <1>2, <1>3, <1>4, OrderedAppend

\* the terminal script takes the sequence it is given only when it is a new one
LEMMA TerminatedOrdered ==
  ASSUME NEW st \in StoreType, Ordered(st), NEW seq \in Nat
  PROVE  Ordered(Terminated(st, seq))
<1>1. CASE TerminalAccepts(st, seq)
  <2>1. Terminated(st, seq) \in StoreType
    BY TerminatedType
  <2>2. Entry(seq, Event("done", <<>>, 0)) \in
          [id : Nat, type : EventType, text : TextType, mark : 0..MaxFragments]
        /\ Entry(seq, Event("done", <<>>, 0)).id = seq
    BY EventsAssumption DEF Entry, Event, EventType, TextType
  <2>3. Terminated(st, seq).log = Append(st.log, Entry(seq, Event("done", <<>>, 0)))
        /\ Terminated(st, seq).last = seq
    BY <1>1 DEF Terminated, StoreType
  <2>4. seq > st.last
    BY <1>1 DEF TerminalAccepts, StoreType
  <2> QED BY <2>1, <2>2, <2>3, <2>4, OrderedAppend
<1>2. CASE ~TerminalAccepts(st, seq)
  BY <1>2 DEF Terminated
<1> QED BY <1>1, <1>2

\* What a step does to the stream: it runs one of the two scripts or leaves it
\* alone, and only a finished run is terminated.
LEMMA StoreStep ==
  ASSUME WriterInv, [WriterNext]_writerVars
  PROVE  \/ store' = store
         \/ \E e \in AppendableType : store' = Appended(store, e)
         \/ pc = "done" /\ store' = Terminated(store, row.seq)
<1>0. /\ Event("token", batch, 0) \in AppendableType
      /\ Event("event", <<>>, 0) \in AppendableType
      /\ Event("error", <<>>, 0) \in AppendableType
      /\ Event("event", <<>>, local) \in AppendableType
      /\ InFlight \subseteq AppendableType
      /\ late \subseteq AppendableType
  BY AppendableEvents DEF WriterInv
<1>1. ASSUME NEW e \in AppendableType, Appends(e)
      PROVE  \/ store' = store
             \/ \E x \in AppendableType : store' = Appended(store, x)
  BY <1>1, AppendsTypes
<1>2. CASE Metadata
  <2>1. Appends(Event("event", <<>>, 0)) BY <1>2 DEF Metadata, PublishEvent, Appends
  <2> QED BY <1>0, <1>1, <2>1
<1>3. CASE AgentEvent
  <2>1. Appends(Event("event", <<>>, local)) BY <1>3 DEF AgentEvent, PublishEvent, Appends
  <2> QED BY <1>0, <1>1, <2>1
<1>4. CASE Error
  <2>1. Appends(Event("error", <<>>, 0)) BY <1>4 DEF Error, PublishEvent, Appends
  <2> QED BY <1>0, <1>1, <2>1
<1>5. CASE FlushPublishes
  <2>1. Appends(Event("token", batch, 0)) BY <1>5 DEF FlushPublishes, Appends
  <2> QED BY <1>0, <1>1, <2>1
<1>6. CASE LateAppend
  BY <1>0, <1>6 DEF LateAppend
<1>7. CASE CancelBody \/ CancelHandler
  <2>1. Abandoned(IF lock = "timer" THEN {} ELSE InFlight)
    BY <1>7 DEF CancelBody, CancelHandler, CancelTask
  <2> QED BY <1>0, <2>1, AbandonedTypes
<1>8. CASE Crash
  <2>1. Abandoned(InFlight) BY <1>8 DEF Crash
  <2> QED BY <1>0, <2>1, AbandonedTypes
<1>9. CASE AppendDone
  BY <1>9 DEF AppendDone
<1>10. CASE AgentNext \/ AgentRaises \/ Add \/ FlushNothing \/ FlushStarts \/ StoredFailure
  BY <1>10 DEF AgentNext, AgentRaises, Add, FlushNothing, FlushStarts, StoredFailure
<1>11. CASE Snapshot \/ Commit \/ TimerFires \/ DirectCancel \/ Restart \/ UNCHANGED writerVars
  BY <1>11 DEF Snapshot, Commit, TimerFires, DirectCancel, Restart, writerVars
<1> QED BY <1>2, <1>3, <1>4, <1>5, <1>6, <1>7, <1>8, <1>9, <1>10, <1>11
        DEF WriterNext, TaskStep

\* Ids are only appended above the last sequence.
LEMMA NextOrdered ==
  ASSUME WriterInv, StreamOrdered, [WriterNext]_writerVars
  PROVE  StreamOrdered'
<1>1. store \in StoreType /\ row.seq \in Nat
  BY DEF WriterInv, WriterTypeOK, StoreType
<1>2. Ordered(store)
  BY DEF StreamOrdered, Ordered
<1>3. Ordered(store')
  BY <1>1, <1>2, StoreStep, AppendedOrdered, TerminatedOrdered
<1> QED BY <1>3 DEF StreamOrdered, Ordered

\* The ids of the stream ascend and end at last_sequence, for any number of lost,
\* late and repeated commands, cancellations, crashes and restarts.
THEOREM StreamStaysOrdered == WriterSpec => []StreamOrdered
<1>1. Init => StreamOrdered
  BY DEF Init, EmptyStore, StreamOrdered
<1> QED BY <1>1, InitWriterInv, NextWriterInv, NextOrdered, PTL DEF WriterSpec

-----------------------------------------------------------------------------
(* The done event stands at the committed sequence                         *)

\* Only the task that has committed the row calls append_done.
DoneInv ==
  /\ pc = "done" => Finished
  /\ \A i \in DOMAIN store.log :
       store.log[i].type = "done" => Finished /\ store.log[i].id = row.seq

\* the row changes at most once, and append_done is called for a finished row only
LEMMA RowStep ==
  ASSUME WriterInv, DoneInv, [WriterNext]_writerVars
  PROVE  /\ Finished => row' = row
         /\ (pc = "done" => Finished)'
<1>1. CASE Commit
  <2>1. mode \in {"body", "cancel", "fail", "direct", "restart"}
    BY <1>1 DEF Commit, WriterInv, WriterTypeOK, Modes
  <2>2. Committed(CommitSnap).status # "active"
    BY <2>1 DEF Committed, StatusOf
  <2>3. pc' = "done" => FinalizeRow
    BY <1>1 DEF Commit, CommitRaises, RaiseTo
  <2>4. FinalizeRow \/ row' = row
    BY <1>1 DEF Commit
  <2> QED BY <2>2, <2>3, <2>4 DEF FinalizeRow, Finished
<1>2. CASE Metadata \/ AgentEvent \/ Error
  BY <1>2 DEF Metadata, AgentEvent, Error, PublishEvent, RaiseTo, Finished, DoneInv
<1>3. CASE AgentNext \/ AgentRaises \/ Add \/ FlushStarts
  BY <1>3 DEF AgentNext, AgentRaises, Add, FlushStarts, RaiseTo, Finished, DoneInv
<1>4. CASE FlushNothing \/ StoredFailure \/ FlushPublishes
  BY <1>4, FlushTargets
     DEF FlushNothing, StoredFailure, FlushPublishes, FlushRaises, RaiseTo, Finished, DoneInv
<1>5. CASE Snapshot \/ AppendDone \/ TimerFires \/ LateAppend
  BY <1>5 DEF Snapshot, AppendDone, TimerFires, LateAppend, Finished, DoneInv
<1>6. CASE CancelBody \/ CancelHandler \/ DirectCancel \/ Crash \/ Restart
             \/ UNCHANGED writerVars
  BY <1>6 DEF CancelBody, CancelHandler, CancelTask, DirectCancel, Crash, Restart, writerVars, Finished, DoneInv
<1> QED BY <1>1, <1>2, <1>3, <1>4, <1>5, <1>6 DEF WriterNext, TaskStep

\* The done event is written at most once, at the sequence the row committed.
LEMMA NextDoneInv ==
  ASSUME WriterInv, DoneInv, [WriterNext]_writerVars
  PROVE  DoneInv'
<1>1. store \in StoreType /\ Len(store.log) \in Nat /\ DOMAIN store.log = 1..Len(store.log)
  BY DEF WriterInv, WriterTypeOK, StoreType
<1>2. (Finished => row' = row /\ Finished') /\ (pc = "done" => Finished)'
  BY RowStep DEF Finished
<1>3. CASE store' = store
  BY <1>2, <1>3 DEF DoneInv
<1>4. ASSUME NEW x \in [id : Nat, type : EventType, text : TextType, mark : 0..MaxFragments],
             store'.log = Append(store.log, x),
             x.type = "done" => Finished /\ x.id = row.seq
      PROVE  DoneInv'
  <2>1. ASSUME NEW i \in DOMAIN store'.log, store'.log[i].type = "done"
        PROVE  Finished /\ store'.log[i].id = row.seq
    <3>1. CASE i = Len(store.log) + 1
      BY <1>1, <1>4, <2>1, <3>1
    <3>2. CASE i \in 1..Len(store.log)
      BY <1>1, <1>4, <2>1, <3>2 DEF DoneInv
    <3>3. i \in 1..(Len(store.log) + 1)
      BY <1>1, <1>4, <2>1 DEF StoreType
    <3> QED BY <1>1, <3>1, <3>2, <3>3
  <2> QED BY <1>2, <2>1 DEF DoneInv
<1>5. ASSUME NEW e \in AppendableType, store' = Appended(store, e)
      PROVE  DoneInv'
  <2>1. Entry(store.last + 1, e) \in
          [id : Nat, type : EventType, text : TextType, mark : 0..MaxFragments]
        /\ Entry(store.last + 1, e).type # "done"
    BY <1>1 DEF Entry, StoreType, AppendableType, EventType
  <2>2. store'.log = Append(store.log, Entry(store.last + 1, e))
    BY <1>5 DEF Appended
  <2> QED BY <1>4, <2>1, <2>2
<1>6. CASE pc = "done" /\ store' = Terminated(store, row.seq)
  <2>1. CASE TerminalAccepts(store, row.seq)
    <3>1. row.seq \in Nat /\ Finished
      BY <1>6 DEF WriterInv, WriterTypeOK, DoneInv
    <3>2. Entry(row.seq, Event("done", <<>>, 0)) \in
            [id : Nat, type : EventType, text : TextType, mark : 0..MaxFragments]
          /\ Entry(row.seq, Event("done", <<>>, 0)).id = row.seq
      BY <3>1, EventsAssumption DEF Entry, Event, EventType, TextType
    <3>3. store'.log = Append(store.log, Entry(row.seq, Event("done", <<>>, 0)))
      BY <1>1, <1>6, <2>1 DEF Terminated, StoreType
    <3> QED BY <1>4, <3>1, <3>2, <3>3
  <2>2. CASE ~TerminalAccepts(store, row.seq)
    BY <1>3, <1>6, <2>2 DEF Terminated
  <2> QED BY <2>1, <2>2
<1> QED BY <1>3, <1>5, <1>6, StoreStep

\* The done event is in the stream at most once, at the sequence of a finished row.
LEMMA DoneFollows == StreamOrdered /\ WriterInv /\ DoneInv => DoneAtCommittedSequence
<1> SUFFICES ASSUME StreamOrdered, WriterInv, DoneInv PROVE DoneAtCommittedSequence
  OBVIOUS
<1>1. ASSUME NEW i \in DOMAIN store.log, NEW j \in DOMAIN store.log,
             store.log[i].type = "done", store.log[j].type = "done"
      PROVE  i = j
  <2>0. store \in StoreType BY DEF WriterInv, WriterTypeOK, StoreType
  <2>1. i \in Nat /\ j \in Nat
    <3>1. store.log \in Seq([id : Nat, type : EventType, text : TextType, mark : 0..MaxFragments])
      BY <2>0 DEF StoreType
    <3>2. DOMAIN store.log = 1..Len(store.log) /\ Len(store.log) \in Nat
      BY <3>1
    <3> QED BY <3>2
  <2>2. store.log[i].id = row.seq /\ store.log[j].id = row.seq /\ row.seq \in Nat
    BY <1>1 DEF DoneInv, WriterInv, WriterTypeOK
  <2>3. ~(i < j) /\ ~(j < i)
    BY <2>2 DEF StreamOrdered
  <2> QED BY <2>1, <2>3
<1> QED BY <1>1 DEF DoneAtCommittedSequence, DoneInv

\* Whoever finalizes the run, and however the terminal script and the appends are
\* lost, delayed or repeated, the done event stands at the committed sequence.
THEOREM DoneStaysCommitted == WriterSpec => []DoneAtCommittedSequence
<1>1. Init => DoneInv
  BY DEF Init, EmptyStore, DoneInv
<1> QED BY <1>1, InitWriterInv, NextWriterInv, NextDoneInv, DoneFollows,
           StreamStaysOrdered, PTL DEF WriterSpec

-----------------------------------------------------------------------------
(* Text that grows                                                         *)

\* A nonempty set of naturals has a least element.
LEMMA LeastMember ==
  ASSUME NEW S, S \subseteq Nat, S # {}
  PROVE  \E x \in S : \A y \in S : x <= y
<1>1. PICK R : IsWellFoundedOn(R, Nat) /\ \A x, y \in Nat : x < y => <<x, y>> \in R
  <2>1. \A x, y \in Nat : x < y => <<x, y>> \in OpToRel(<, Nat)
    BY DEF OpToRel
  <2> QED BY <2>1, NatLessThanWellFounded, Zenon
<1>2. PICK x \in S : \A y \in S : ~(<<y, x>> \in R)
  <2>1. IsWellFoundedOn(R, Nat) BY <1>1
  <2> HIDE DEF IsWellFoundedOn
  <2> QED BY <2>1, WFMin, Zenon
<1>3. \A y \in S : x <= y
  <2> TAKE y \in S
  <2>1. x \in Nat /\ y \in Nat OBVIOUS
  <2>2. ~(y < x) BY <1>1, <1>2, <2>1
  <2> QED BY <2>1, <2>2
<1> QED BY <1>3

\* text after s in which no fragment comes before its predecessor
Grows(s, t) ==
  \A i \in DOMAIN t : \/ t[i] = 1
                      \/ \E j \in DOMAIN s : s[j] + 1 >= t[i]
                      \/ \E j \in 1..(i - 1) : t[j] + 1 >= t[i]

\* the text has come to the n-th fragment
Reaches(s, n) == n = 0 \/ \E i \in DOMAIN s : s[i] >= n

\* the positions of a concatenation
LEMMA ConcatAt ==
  ASSUME NEW s \in Seq(Nat), NEW t \in Seq(Nat)
  PROVE  /\ s \o t \in Seq(Nat) /\ Len(s) \in Nat /\ Len(t) \in Nat
         /\ DOMAIN s = 1..Len(s) /\ DOMAIN t = 1..Len(t)
         /\ DOMAIN (s \o t) = 1..(Len(s) + Len(t))
         /\ \A i \in 1..Len(s) : (s \o t)[i] = s[i]
         /\ \A i \in 1..Len(t) : (s \o t)[Len(s) + i] = t[i]
         /\ \A i \in 1..(Len(s) + Len(t)) :
              i \in 1..Len(s) \/ (i - Len(s) \in 1..Len(t) /\ (s \o t)[i] = t[i - Len(s)])
<1>1. /\ s \o t \in Seq(Nat) /\ Len(s) \in Nat /\ Len(t) \in Nat
      /\ DOMAIN s = 1..Len(s) /\ DOMAIN t = 1..Len(t)
      /\ DOMAIN (s \o t) = 1..(Len(s) + Len(t))
  OBVIOUS
<1>2. \A i \in 1..(Len(s) + Len(t)) :
        (s \o t)[i] = IF i <= Len(s) THEN s[i] ELSE t[i - Len(s)]
  OBVIOUS
<1> DEFINE u == s \o t  m == Len(s)  n == Len(t)
<1>3. m \in Nat /\ n \in Nat /\ \A i \in 1..(m + n) : u[i] = IF i <= m THEN s[i] ELSE t[i - m]
  BY <1>1, <1>2
<1> HIDE DEF u, m, n
<1>4. /\ \A i \in 1..m : u[i] = s[i]
      /\ \A i \in 1..n : u[m + i] = t[i]
      /\ \A i \in 1..(m + n) : i \in 1..m \/ (i - m \in 1..n /\ u[i] = t[i - m])
  <2>1. \A i \in 1..m : i \in 1..(m + n) /\ i <= m BY <1>3
  <2>2. \A i \in 1..n : m + i \in 1..(m + n) /\ ~(m + i <= m) /\ (m + i) - m = i BY <1>3
  <2>3. \A i \in 1..(m + n) : i <= m => i \in 1..m BY <1>3
  <2>4. \A i \in 1..(m + n) : ~(i <= m) => i - m \in 1..n BY <1>3
  <2>5. \A i \in 1..n : u[m + i] = t[i] BY <1>3, <2>2
  <2> QED BY <1>3, <2>1, <2>3, <2>4, <2>5
<1> QED BY <1>1, <1>4 DEF u, m, n

\* Text that grows after s grows after any extension of s.
LEMMA GrowsAfterMore ==
  ASSUME NEW s \in Seq(Nat), NEW u \in Seq(Nat), NEW t \in Seq(Nat), Grows(s, t)
  PROVE  Grows(s \o u, t)
<1>1. \A j \in DOMAIN s : j \in DOMAIN (s \o u) /\ (s \o u)[j] = s[j]
  BY ConcatAt
<1> QED BY <1>1 DEF Grows

\* Growing text continued by growing text grows.
LEMMA GrowsConcat ==
  ASSUME NEW s \in Seq(Nat), NEW t \in Seq(Nat), Grows(<<>>, s), Grows(s, t)
  PROVE  Grows(<<>>, s \o t)
<1> DEFINE u == s \o t  m == Len(s)  n == Len(t)
<1>1. /\ m \in Nat /\ n \in Nat /\ u \in Seq(Nat)
      /\ DOMAIN s = 1..m /\ DOMAIN t = 1..n /\ DOMAIN u = 1..(m + n)
      /\ \A i \in 1..m : u[i] = s[i]
      /\ \A i \in 1..n : u[m + i] = t[i]
      /\ \A i \in 1..(m + n) : i \in 1..m \/ (i - m \in 1..n /\ u[i] = t[i - m])
  BY ConcatAt
<1> HIDE DEF u, m, n
<1> SUFFICES ASSUME NEW i \in 1..(m + n)
             PROVE  u[i] = 1 \/ \E j \in 1..(i - 1) : u[j] + 1 >= u[i]
  BY <1>1 DEF Grows, u
<1>2. CASE i \in 1..m
  <2>1. s[i] = 1 \/ \E j \in 1..(i - 1) : s[j] + 1 >= s[i]
    <3>1. i \in DOMAIN s /\ DOMAIN <<>> = {} BY <1>1, <1>2
    <3> QED BY <3>1 DEF Grows
  <2>2. \A j \in 1..(i - 1) : j \in 1..m
    BY <1>1, <1>2
  <2> QED BY <1>1, <1>2, <2>1, <2>2
<1>3. CASE i - m \in 1..n /\ u[i] = t[i - m]
  <2>1. \/ t[i - m] = 1
        \/ \E j \in DOMAIN s : s[j] + 1 >= t[i - m]
        \/ \E j \in 1..((i - m) - 1) : t[j] + 1 >= t[i - m]
    BY <1>1, <1>3 DEF Grows
  <2>2. ASSUME NEW j \in DOMAIN s, s[j] + 1 >= t[i - m]
        PROVE  \E k \in 1..(i - 1) : u[k] + 1 >= u[i]
    <3>1. j \in 1..(i - 1) /\ u[j] = s[j]
      BY SMTT(30), <1>1, <1>3
    <3> QED BY <1>3, <2>2, <3>1
  <2>3. ASSUME NEW j \in 1..((i - m) - 1), t[j] + 1 >= t[i - m]
        PROVE  \E k \in 1..(i - 1) : u[k] + 1 >= u[i]
    <3>1. m + j \in 1..(i - 1) /\ j \in 1..n
      BY <1>1, <1>3
    <3>2. u[m + j] = t[j]
      BY <1>1, <3>1
    <3> QED BY <1>3, <2>3, <3>1, <3>2
  <2> QED BY <1>3, <2>1, <2>2, <2>3
<1> QED BY <1>1, <1>2, <1>3

\* The next fragment continues text that has come to the one before.
LEMMA GrowsByNext ==
  ASSUME NEW s \in Seq(Nat), NEW t \in Seq(Nat), NEW x \in Nat \ {0},
         Grows(s, t), Reaches(s \o t, x - 1)
  PROVE  /\ Append(t, x) \in Seq(Nat)
         /\ Grows(s, Append(t, x)) /\ Reaches(s \o Append(t, x), x)
<1> DEFINE a == Append(t, x)  m == Len(s)  n == Len(t)
<1>1. /\ a \in Seq(Nat) /\ n \in Nat /\ m \in Nat /\ Len(a) = n + 1 /\ DOMAIN a = 1..(n + 1)
      /\ DOMAIN t = 1..n /\ \A i \in 1..n : a[i] = t[i]
      /\ a[n + 1] = x
  OBVIOUS
<1> HIDE DEF a
<1>2. \/ x = 1 \/ (\E j \in DOMAIN s : s[j] + 1 >= x)
      \/ \E j \in 1..n : t[j] + 1 >= x
  <2>1. CASE x - 1 = 0
    BY <2>1
  <2>2. ASSUME NEW j \in DOMAIN (s \o t), (s \o t)[j] >= x - 1
        PROVE  (\E k \in DOMAIN s : s[k] + 1 >= x) \/ \E k \in 1..n : t[k] + 1 >= x
    <3>1. \/ j \in DOMAIN s /\ (s \o t)[j] = s[j]
          \/ j - m \in 1..n /\ (s \o t)[j] = t[j - m]
      BY ConcatAt
    <3>2. CASE j \in DOMAIN s /\ (s \o t)[j] = s[j]
      <4>1. s[j] \in Nat BY <3>2
      <4>2. s[j] + 1 >= x BY <2>2, <3>2, <4>1
      <4> QED BY <3>2, <4>2
    <3>3. CASE j - m \in 1..n /\ (s \o t)[j] = t[j - m]
      <4>1. t[j - m] \in Nat BY SMTT(30), <1>1, <3>3
      <4>2. t[j - m] + 1 >= x BY SMTT(30), <2>2, <3>3, <4>1
      <4> QED BY <3>3, <4>2
    <3> QED BY <3>1, <3>2, <3>3
  <2> QED BY <2>1, <2>2 DEF Reaches
<1>3. ASSUME NEW i \in 1..(n + 1)
      PROVE  \/ a[i] = 1 \/ (\E j \in DOMAIN s : s[j] + 1 >= a[i])
             \/ \E j \in 1..(i - 1) : a[j] + 1 >= a[i]
  <2>1. CASE i = n + 1
    <3>1. (i - 1) = n BY <1>1, <2>1
    <3> QED BY <1>1, <1>2, <2>1, <3>1
  <2>2. CASE i \in 1..n
    <3>1. \A j \in 1..(i - 1) : j \in 1..n BY <1>1, <2>2
    <3>2. \/ t[i] = 1 \/ (\E j \in DOMAIN s : s[j] + 1 >= t[i])
          \/ \E j \in 1..(i - 1) : t[j] + 1 >= t[i]
      BY <1>1, <2>2 DEF Grows
    <3> QED BY <1>1, <2>2, <3>1, <3>2
  <2> QED BY <1>1, <2>1, <2>2
<1>4. Grows(s, a)
  BY <1>1, <1>3 DEF Grows
<1>5. Reaches(s \o a, x)
  <2>1. n + 1 \in 1..Len(a) BY <1>1
  <2>2. m + (n + 1) \in DOMAIN (s \o a) /\ (s \o a)[m + (n + 1)] = x
    BY <1>1, <2>1, ConcatAt
  <2> QED BY SMTT(30), <2>2 DEF Reaches
<1> QED BY <1>1, <1>4, <1>5 DEF a

\* Text that has come somewhere stays there when text is put into it.
LEMMA ReachesMore ==
  ASSUME NEW s \in Seq(Nat), NEW u \in Seq(Nat), NEW t \in Seq(Nat), NEW n,
         Reaches(s \o t, n)
  PROVE  Reaches((s \o u) \o t, n)
<1> SUFFICES ASSUME NEW i \in DOMAIN (s \o t), (s \o t)[i] >= n
             PROVE  \E j \in DOMAIN ((s \o u) \o t) : ((s \o u) \o t)[j] >= n
  BY DEF Reaches
<1>1. s \o u \in Seq(Nat) /\ Len(s \o u) = Len(s) + Len(u) /\ Len(u) \in Nat
  OBVIOUS
<1>2. \/ i \in DOMAIN s /\ (s \o t)[i] = s[i]
      \/ i - Len(s) \in 1..Len(t) /\ (s \o t)[i] = t[i - Len(s)]
  BY ConcatAt
<1>3. CASE i \in DOMAIN s /\ (s \o t)[i] = s[i]
  <2>1. i \in DOMAIN (s \o u) /\ (s \o u)[i] = s[i]
    BY <1>3, ConcatAt
  <2>2. i \in DOMAIN ((s \o u) \o t) /\ ((s \o u) \o t)[i] = s[i]
    BY <1>1, <2>1, ConcatAt
  <2> QED BY <1>3, <2>2
<1>4. CASE i - Len(s) \in 1..Len(t) /\ (s \o t)[i] = t[i - Len(s)]
  <2>1. \A r \in Seq(Nat) : \A j \in 1..Len(t) :
          Len(r) + j \in DOMAIN (r \o t) /\ (r \o t)[Len(r) + j] = t[j]
    BY SMTT(30), ConcatAt
  <2>2. \E j \in DOMAIN ((s \o u) \o t) : ((s \o u) \o t)[j] = t[i - Len(s)]
    BY <1>1, <1>4, <2>1
  <2> QED BY <1>4, <2>2
<1> QED BY <1>2, <1>3, <1>4

\* Growing text that has come to the n-th fragment has all before it, each first
\* occurrence in its place.
LEMMA GrowsCovers ==
  ASSUME NEW s \in Seq(Nat), NEW n \in Nat, Grows(<<>>, s), Reaches(s, n)
  PROVE  Covers(s, n)
<1> SUFFICES ASSUME NEW k \in 1..n
             PROVE  \E i \in DOMAIN s : s[i] = k /\ \A j \in 1..(i - 1) : s[j] < k
  BY DEF Covers
<1>0. DOMAIN s = 1..Len(s) /\ Len(s) \in Nat /\ \A i \in DOMAIN s : s[i] \in Nat
  OBVIOUS
<1> DEFINE P == {i \in DOMAIN s : s[i] >= k}
<1>1. P \subseteq Nat /\ P # {}
  BY <1>0 DEF Reaches
<1>2. PICK i \in P : \A j \in P : i <= j
  <2> HIDE DEF P
  <2> QED BY <1>1, LeastMember
<1>3. \A j \in 1..(i - 1) : j \in DOMAIN s /\ s[j] < k
  <2> TAKE j \in 1..(i - 1)
  <2>1. i \in 1..Len(s) /\ j \in DOMAIN s /\ ~(i <= j)
    BY <1>0, <1>2
  <2>2. j \notin P BY <1>2, <2>1
  <2> QED BY <1>0, <2>1, <2>2
<1>4. s[i] = 1 \/ \E j \in 1..(i - 1) : s[j] + 1 >= s[i]
  BY <1>2 DEF Grows
<1>5. s[i] = k
  <2>1. s[i] >= k /\ s[i] \in Nat /\ k \in Nat /\ k >= 1
    BY <1>0, <1>2
  <2>2. CASE s[i] = 1
    BY <2>1, <2>2
  <2>3. CASE \E j \in 1..(i - 1) : s[j] + 1 >= s[i]
    <3>1. PICK j \in 1..(i - 1) : s[j] + 1 >= s[i] BY <2>3
    <3>2. s[j] < k /\ s[j] \in Nat BY <1>0, <1>3, <3>1
    <3> QED BY SMTT(30), <2>1, <3>1, <3>2
  <2> QED BY <1>4, <2>2, <2>3
<1> QED BY <1>2, <1>3, <1>5

\* Text with a fragment keeps it when it is continued.
LEMMA CoversMore ==
  ASSUME NEW s \in Seq(Nat), NEW u \in Seq(Nat), NEW n \in Nat, Covers(s, n)
  PROVE  Covers(s \o u, n)
<1> SUFFICES ASSUME NEW k \in 1..n
             PROVE  \E i \in DOMAIN (s \o u) :
                      (s \o u)[i] = k /\ \A j \in 1..(i - 1) : (s \o u)[j] < k
  BY DEF Covers
<1>1. PICK i \in DOMAIN s : s[i] = k /\ \A j \in 1..(i - 1) : s[j] < k
  BY DEF Covers
<1>2. i \in DOMAIN (s \o u) /\ (s \o u)[i] = k
  BY <1>1, ConcatAt
<1>3. \A j \in 1..(i - 1) : (s \o u)[j] = s[j]
  <2>1. \A j \in 1..(i - 1) : j \in DOMAIN s OBVIOUS
  <2> QED BY <2>1, ConcatAt
<1> QED BY <1>1, <1>2, <1>3

\* The agent's own text has all its fragments.
LEMMA TextCovers ==
  ASSUME NEW n \in Nat
  PROVE  Covers(Text(n), n)
BY DEF Covers, Text

-----------------------------------------------------------------------------
(* No event overtakes its text and no fragment is lost                      *)

\* the fragment is in the stream
Streamed(st, k) == \E i \in DOMAIN st.log : \E n \in DOMAIN st.log[i].text :
                     st.log[i].text[n] = k

\* an event that may join the stream: its text continues the output, and what
\* was emitted before it is in the stream
Fits(st, e) ==
  /\ Grows(st.output, e.text)
  /\ \A k \in 1..e.mark : Streamed(st, k)

\* a store whose output grows, is all in the stream, and where no event is earlier
\* than the text it followed
Sound(st) ==
  /\ Grows(<<>>, st.output)
  /\ \A i \in DOMAIN st.output : Streamed(st, st.output[i])
  /\ \A j \in DOMAIN st.log : \A k \in 1..st.log[j].mark :
       \E i \in 1..(j - 1) : \E n \in DOMAIN st.log[i].text : st.log[i].text[n] = k

\* the stream, with the appends the server may still execute
StreamInv == Sound(store) /\ \A e \in late : Fits(store, e)

\* the fragment that was received is not in the buffer yet
Joining == pc = "adding" /\ lock # "main"

\* the buffer: what it holds continues the output, and in the body of the task
\* output and buffer have come to the last fragment received
BufferInv ==
  /\ Grows(store.output, frags)
  /\ lock # "free" => batch = frags
  /\ lock = "main" => pc \in {"adding", "boundary", "close", "down"}
  /\ pc \in {"metadata", "agent", "adding", "boundary", "event"} => mode = "body"
  /\ pc = "error" => mode \in {"fail", "restart"}
  /\ pc = "event" => frags = <<>>
  /\ pc \in {"snapshot", "commit", "done"} /\ mode = "body" => frags = <<>>
  /\ mode = "body" /\ pc \notin {"down", "ended"} =>
       Reaches(store.output \o frags, IF Joining THEN local - 1 ELSE local)

\* the row: only the body completes a run, and has all its text by then
RowInv ==
  /\ mode = "body" /\ pc = "commit" => Covers(snap.out, local)
  /\ mode = "body" /\ Finished => pc \in {"done", "ended", "down"}
  /\ row.status = "completed" => Covers(store.output, local) /\ Covers(row.out, local)

TextInv == StreamInv /\ BufferInv /\ RowInv

\* text is a sequence of naturals
LEMMA TextIsNat ==
  ASSUME NEW t \in TextType
  PROVE  t \in Seq(Nat)
BY EventsAssumption DEF TextType

\* What an append changes in a store.
LEMMA AppendedParts ==
  ASSUME NEW st \in StoreType, NEW e \in AppendableType
  PROVE  LET n == Len(st.log)  after == Appended(st, e) IN
         /\ n \in Nat /\ DOMAIN st.log = 1..n /\ DOMAIN after.log = 1..(n + 1)
         /\ \A i \in 1..n : after.log[i] = st.log[i]
         /\ after.log[n + 1] = Entry(st.last + 1, e)
         /\ after.log[n + 1].text = e.text /\ after.log[n + 1].mark = e.mark
         /\ after.output = st.output \o e.text
<1>1. Entry(st.last + 1, e) \in
        [id : Nat, type : EventType, text : TextType, mark : 0..MaxFragments]
  BY DEF Entry, StoreType, AppendableType, EventType
<1>2. st.log \in Seq([id : Nat, type : EventType, text : TextType, mark : 0..MaxFragments])
  BY DEF StoreType
<1>3. /\ Appended(st, e).log = Append(st.log, Entry(st.last + 1, e))
      /\ Appended(st, e).output = st.output \o e.text
  BY DEF Appended
<1>4. Entry(st.last + 1, e).text = e.text /\ Entry(st.last + 1, e).mark = e.mark
  BY DEF Entry
<1> QED BY <1>1, <1>2, <1>3, <1>4

\* What the done event changes in a store.
LEMMA TerminatedParts ==
  ASSUME NEW st \in StoreType, NEW seq \in Nat
  PROVE  LET n == Len(st.log)  after == Terminated(st, seq) IN
         \/ after = st
         \/ /\ n \in Nat /\ DOMAIN st.log = 1..n /\ DOMAIN after.log = 1..(n + 1)
            /\ \A i \in 1..n : after.log[i] = st.log[i]
            /\ after.log[n + 1] = Entry(seq, Event("done", <<>>, 0))
            /\ after.log[n + 1].text = <<>> /\ after.log[n + 1].mark = 0
            /\ after.output = st.output
            /\ after.last = seq /\ seq > st.last
<1>1. Entry(seq, Event("done", <<>>, 0)) \in
        [id : Nat, type : EventType, text : TextType, mark : 0..MaxFragments]
      /\ Entry(seq, Event("done", <<>>, 0)).text = <<>>
      /\ Entry(seq, Event("done", <<>>, 0)).mark = 0
  BY EventsAssumption DEF Entry, Event, EventType, TextType
<1>2. st.log \in Seq([id : Nat, type : EventType, text : TextType, mark : 0..MaxFragments])
      /\ st.last \in Nat
  BY DEF StoreType
<1>3. CASE TerminalAccepts(st, seq)
  <2>1. /\ Terminated(st, seq).log = Append(st.log, Entry(seq, Event("done", <<>>, 0)))
        /\ Terminated(st, seq).output = st.output
        /\ Terminated(st, seq).last = seq
    BY <1>3 DEF Terminated, StoreType
  <2>2. seq > st.last
    BY <1>2, <1>3 DEF TerminalAccepts
  <2> QED BY <1>1, <1>2, <2>1, <2>2
<1>4. CASE ~TerminalAccepts(st, seq)
  BY <1>4 DEF Terminated
<1> QED BY <1>3, <1>4

\* An event that fits keeps the store sound, and what fitted before fits after.
LEMMA AppendedSound ==
  ASSUME NEW st \in StoreType, Sound(st), NEW e \in AppendableType, Fits(st, e)
  PROVE  /\ Sound(Appended(st, e))
         /\ \A x \in AppendableType : Fits(st, x) => Fits(Appended(st, e), x)
<1> DEFINE n == Len(st.log)  after == Appended(st, e)
<1>1. /\ n \in Nat /\ DOMAIN st.log = 1..n /\ DOMAIN after.log = 1..(n + 1)
      /\ \A i \in 1..n : after.log[i] = st.log[i]
      /\ after.log[n + 1].text = e.text /\ after.log[n + 1].mark = e.mark
      /\ after.output = st.output \o e.text
  BY AppendedParts
<1>2. st.output \in Seq(Nat) /\ e.text \in Seq(Nat)
  BY TextIsNat DEF StoreType, AppendableType
<1> HIDE DEF after, n
<1>3. ASSUME NEW k, Streamed(st, k) PROVE Streamed(after, k)
  <2>1. \A i \in 1..n : i \in 1..(n + 1) BY <1>1
  <2> QED BY <1>1, <1>3, <2>1 DEF Streamed
<1>4. ASSUME NEW i \in DOMAIN e.text PROVE Streamed(after, e.text[i])
  <2>1. n + 1 \in DOMAIN after.log BY <1>1
  <2> QED BY <1>1, <2>1 DEF Streamed
<1>5. Grows(<<>>, after.output)
  BY <1>1, <1>2, GrowsConcat DEF Sound, Fits
<1>6. ASSUME NEW i \in DOMAIN after.output PROVE Streamed(after, after.output[i])
  <2>1. \/ i \in DOMAIN st.output /\ after.output[i] = st.output[i]
        \/ i - Len(st.output) \in DOMAIN e.text
           /\ after.output[i] = e.text[i - Len(st.output)]
    <3>1. \A s, t \in Seq(Nat) : \A m \in DOMAIN (s \o t) :
            \/ m \in DOMAIN s /\ (s \o t)[m] = s[m]
            \/ m - Len(s) \in DOMAIN t /\ (s \o t)[m] = t[m - Len(s)]
      BY ConcatAt
    <3>2. \/ i \in DOMAIN st.output /\ (st.output \o e.text)[i] = st.output[i]
          \/ /\ i - Len(st.output) \in DOMAIN e.text
             /\ (st.output \o e.text)[i] = e.text[i - Len(st.output)]
      <4>1. i \in DOMAIN (st.output \o e.text) BY <1>1
      <4> QED BY <1>2, <3>1, <4>1, Zenon
    <3> QED BY <1>1, <3>2
  <2> QED BY <1>3, <1>4, <2>1 DEF Sound
<1>7. ASSUME NEW j \in DOMAIN after.log, NEW k \in 1..after.log[j].mark
      PROVE  \E i \in 1..(j - 1) : \E m \in DOMAIN after.log[i].text : after.log[i].text[m] = k
  <2>1. CASE j = n + 1
    <3>1. Streamed(st, k) BY <1>1, <1>7, <2>1 DEF Fits
    <3>2. \A i \in 1..n : i \in 1..(j - 1) BY <1>1, <2>1
    <3> QED BY <1>1, <3>1, <3>2 DEF Streamed
  <2>2. CASE j \in 1..n
    <3>1. \A i \in 1..(j - 1) : i \in 1..n BY <1>1, <2>2
    <3>2. \E i \in 1..(j - 1) : \E m \in DOMAIN st.log[i].text : st.log[i].text[m] = k
      BY SMTT(30), <1>1, <1>7, <2>2 DEF Sound
    <3> QED BY <1>1, <3>1, <3>2
  <2> QED BY <1>1, <2>1, <2>2
<1>8. ASSUME NEW x \in AppendableType, Fits(st, x) PROVE Fits(after, x)
  <2>1. x.text \in Seq(Nat) BY TextIsNat DEF AppendableType
  <2>2. Grows(after.output, x.text)
    BY <1>1, <1>2, <1>8, <2>1, GrowsAfterMore DEF Fits
  <2> QED BY <1>3, <1>8, <2>2 DEF Fits
<1> QED BY <1>5, <1>6, <1>7, <1>8 DEF Sound, after

\* So does the done event.
LEMMA TerminatedSound ==
  ASSUME NEW st \in StoreType, Sound(st), NEW seq \in Nat
  PROVE  /\ Sound(Terminated(st, seq))
         /\ \A x \in AppendableType : Fits(st, x) => Fits(Terminated(st, seq), x)
         /\ Terminated(st, seq).output = st.output
<1> DEFINE n == Len(st.log)  after == Terminated(st, seq)
<1> SUFFICES ASSUME after # st
             PROVE  /\ Sound(after) /\ after.output = st.output
                    /\ \A x \in AppendableType : Fits(st, x) => Fits(after, x)
  OBVIOUS
<1>1. /\ n \in Nat /\ DOMAIN st.log = 1..n /\ DOMAIN after.log = 1..(n + 1)
      /\ \A i \in 1..n : after.log[i] = st.log[i]
      /\ after.log[n + 1].mark = 0
      /\ after.output = st.output
  BY TerminatedParts
<1> HIDE DEF after, n
<1>2. ASSUME NEW k, Streamed(st, k) PROVE Streamed(after, k)
  <2>1. \A i \in 1..n : i \in 1..(n + 1) BY <1>1
  <2> QED BY <1>1, <1>2, <2>1 DEF Streamed
<1>3. ASSUME NEW j \in DOMAIN after.log, NEW k \in 1..after.log[j].mark
      PROVE  \E i \in 1..(j - 1) : \E m \in DOMAIN after.log[i].text : after.log[i].text[m] = k
  <2>1. j # n + 1 BY <1>1, <1>3
  <2>2. j \in 1..n BY <1>1, <2>1
  <2>3. \A i \in 1..(j - 1) : i \in 1..n BY <1>1, <2>2
  <2>4. \E i \in 1..(j - 1) : \E m \in DOMAIN st.log[i].text : st.log[i].text[m] = k
    BY <1>1, <1>3, <2>2 DEF Sound
  <2> QED BY <1>1, <2>3, <2>4
<1>4. Sound(after)
  BY <1>1, <1>2, <1>3 DEF Sound
<1> QED BY <1>1, <1>2, <1>4 DEF Fits

\* everything a step may append, now or later
Sent ==
  late \cup (IF lock # "free" THEN {Event("token", batch, 0)} ELSE {})
       \cup (IF pc = "event" THEN {Event("event", <<>>, local)} ELSE {})
       \cup {Event("event", <<>>, 0), Event("error", <<>>, 0)}

\* Every step appends at most one of these, or the done event, and leaves only
\* these to be executed late.
LEMMA SentStep ==
  ASSUME WriterInv, [WriterNext]_writerVars
  PROVE  /\ Sent \subseteq AppendableType
         /\ late' \subseteq Sent
         /\ \/ store' = store
            \/ \E e \in Sent : store' = Appended(store, e)
            \/ row.seq \in Nat /\ store' = Terminated(store, row.seq)
<1>0. Sent \subseteq AppendableType
  BY AppendableEvents DEF WriterInv, Sent
<1>1. ASSUME NEW e \in Sent, Appends(e)
      PROVE  late' \subseteq Sent /\ (store' = store \/ \E x \in Sent : store' = Appended(store, x))
  <2>1. late \subseteq Sent BY DEF Sent
  <2> QED BY <1>1, <2>1 DEF Appends, AppendOk, AppendRetry, AppendRaises, AppendTrouble
<1>2. row.seq \in Nat
  BY DEF WriterInv, WriterTypeOK
<1>3. CASE Metadata
  <2>1. Appends(Event("event", <<>>, 0)) BY <1>3 DEF Metadata, PublishEvent, Appends
  <2> QED BY <1>0, <1>1, <2>1 DEF Sent
<1>4. CASE AgentEvent
  <2>1. Appends(Event("event", <<>>, local)) /\ pc = "event"
    BY <1>4 DEF AgentEvent, PublishEvent, Appends
  <2>2. Event("event", <<>>, local) \in Sent BY <2>1 DEF Sent
  <2> QED BY <1>0, <1>1, <2>1, <2>2
<1>5. CASE Error
  <2>1. Appends(Event("error", <<>>, 0)) BY <1>5 DEF Error, PublishEvent, Appends
  <2> QED BY <1>0, <1>1, <2>1 DEF Sent
<1>6. CASE FlushPublishes
  <2>1. Appends(Event("token", batch, 0)) /\ lock # "free"
    BY <1>6 DEF FlushPublishes, Appends
  <2>2. Event("token", batch, 0) \in Sent BY <2>1 DEF Sent
  <2> QED BY <1>0, <1>1, <2>1, <2>2
<1>7. CASE LateAppend
  BY <1>0, <1>7 DEF LateAppend, Sent
<1>8. ASSUME NEW es \in SUBSET Sent, Abandoned(es)
      PROVE  /\ late' \subseteq Sent
             /\ \/ store' = store \/ (\E x \in Sent : store' = Appended(store, x))
                \/ store' = Terminated(store, row.seq)
  <2>1. late \subseteq Sent BY DEF Sent
  <2> QED BY <1>8, <2>1 DEF Abandoned
<1>9. InFlight \subseteq Sent
  BY DEF InFlight, Sent
<1>10. CASE CancelBody \/ CancelHandler
  <2>1. Abandoned(IF lock = "timer" THEN {} ELSE InFlight)
    BY <1>10 DEF CancelBody, CancelHandler, CancelTask
  <2> QED BY <1>0, <1>2, <1>8, <1>9, <2>1
<1>11. CASE Crash
  <2>1. Abandoned(InFlight) BY <1>11 DEF Crash
  <2> QED BY <1>0, <1>2, <1>8, <1>9, <2>1
<1>12. CASE AppendDone
  BY <1>0, <1>2, <1>12 DEF AppendDone, Sent
<1>13. CASE AgentNext \/ AgentRaises \/ Add \/ FlushNothing \/ FlushStarts \/ StoredFailure
  BY <1>0, <1>13
     DEF AgentNext, AgentRaises, Add, FlushNothing, FlushStarts, StoredFailure, Sent
<1>14. CASE Snapshot \/ Commit \/ TimerFires \/ DirectCancel \/ Restart \/ UNCHANGED writerVars
  BY <1>0, <1>14 DEF Snapshot, Commit, TimerFires, DirectCancel, Restart, writerVars, Sent
<1> QED BY <1>3, <1>4, <1>5, <1>6, <1>7, <1>10, <1>11, <1>12, <1>13, <1>14
        DEF WriterNext, TaskStep

\* Whatever may be appended fits: an event of the agent is only published when
\* the buffer is empty, so that all the text before it is in the stream.
LEMMA SentFits ==
  ASSUME WriterInv, TextInv, NEW e \in Sent
  PROVE  Fits(store, e)
<1> USE EventsAssumption
<1>0. store.output \in Seq(Nat) /\ local \in Nat /\ frags \in Seq(Nat)
  BY TextIsNat DEF WriterInv, WriterTypeOK
<1>1. Grows(store.output, <<>>)
  BY DEF Grows
<1>2. CASE e \in late
  BY <1>2 DEF TextInv, StreamInv
<1>3. CASE lock # "free" /\ e = Event("token", batch, 0)
  <2>1. e.text = frags /\ e.mark = 0
    BY <1>3 DEF Event, TextInv, BufferInv
  <2> QED BY <2>1 DEF Fits, TextInv, BufferInv
<1>4. CASE pc = "event" /\ e = Event("event", <<>>, local)
  <2>1. e.text = <<>> /\ e.mark = local
    BY <1>4 DEF Event
  <2>2. frags = <<>> /\ mode = "body" /\ ~Joining
    BY <1>4 DEF TextInv, BufferInv, Joining
  <2>3. Reaches(store.output \o frags, local)
    BY <1>4, <2>2 DEF TextInv, BufferInv
  <2>4. store.output \o frags = store.output
    BY <1>0, <2>2
  <2>5. Covers(store.output, local)
    BY <1>0, <2>3, <2>4, GrowsCovers DEF TextInv, StreamInv, Sound
  <2>6. \A k \in 1..local : Streamed(store, k)
    BY <2>5 DEF Covers, TextInv, StreamInv, Sound
  <2> QED BY <1>1, <2>1, <2>6 DEF Fits
<1>5. CASE e \in {Event("event", <<>>, 0), Event("error", <<>>, 0)}
  <2>1. e.text = <<>> /\ e.mark = 0 BY <1>5 DEF Event
  <2> QED BY <1>1, <2>1 DEF Fits
<1> QED BY <1>2, <1>3, <1>4, <1>5 DEF Sent

\* The stream stays sound, and the output is only ever continued.
LEMMA NextStreamInv ==
  ASSUME WriterInv, TextInv, [WriterNext]_writerVars
  PROVE  /\ StreamInv'
         /\ \E u \in Seq(Nat) : store'.output = store.output \o u
<1>0. store \in StoreType /\ store.output \in Seq(Nat)
  BY TextIsNat DEF WriterInv, WriterTypeOK, StoreType
<1>1. /\ Sent \subseteq AppendableType /\ late' \subseteq Sent
      /\ \A e \in Sent : Fits(store, e)
      /\ \/ store' = store
         \/ \E e \in Sent : store' = Appended(store, e)
         \/ row.seq \in Nat /\ store' = Terminated(store, row.seq)
  BY SentStep, SentFits
<1>2. Sound(store)
  BY DEF TextInv, StreamInv
<1>3. <<>> \in Seq(Nat) /\ store.output = store.output \o <<>>
  BY <1>0
<1>4. CASE store' = store
  BY <1>1, <1>2, <1>3, <1>4 DEF StreamInv
<1>5. CASE \E e \in Sent : store' = Appended(store, e)
  <2>1. PICK e \in Sent : store' = Appended(store, e) BY <1>5
  <2>2. Sound(store') /\ \A x \in AppendableType : Fits(store, x) => Fits(store', x)
    BY <1>0, <1>1, <1>2, <2>1, AppendedSound
  <2>3. store'.output = store.output \o e.text /\ e.text \in Seq(Nat)
    BY <1>0, <1>1, <2>1, AppendedParts, TextIsNat DEF AppendableType
  <2>4. \A x \in late' : Fits(store', x)
    BY <1>1, <2>2
  <2> QED BY <2>2, <2>3, <2>4 DEF StreamInv
<1>6. CASE row.seq \in Nat /\ store' = Terminated(store, row.seq)
  <2>1. /\ Sound(store') /\ \A x \in AppendableType : Fits(store, x) => Fits(store', x)
        /\ store'.output = store.output
    BY <1>0, <1>2, <1>6, TerminatedSound
  <2>2. \A x \in late' : Fits(store', x)
    BY <1>1, <2>1
  <2> QED BY <1>3, <2>1, <2>2 DEF StreamInv
<1> QED BY <1>1, <1>4, <1>5, <1>6

\* where flush() sends the task, by what called it
LEMMA FlushGoesOn ==
  ASSUME pc \in {"adding", "boundary"} => mode = "body"
  PROVE  /\ pc = "adding" => FlushReturns = "agent"
         /\ pc = "boundary" => FlushReturns = "event"
         /\ pc \notin {"adding", "boundary"} =>
              /\ FlushReturns \in {"error", "down", "snapshot"}
              /\ FlushReturns = "error" => mode = "fail"
BY DEF FlushReturns

\* The buffer always continues the output, and in the body of the task nothing
\* that was received is in neither.
LEMMA NextBufferInv ==
  ASSUME WriterInv, TextInv, [WriterNext]_writerVars
  PROVE  BufferInv'
<1> USE EventsAssumption
<1>0. /\ store.output \in Seq(Nat) /\ frags \in Seq(Nat) /\ batch \in Seq(Nat)
      /\ local \in Nat /\ <<>> \in Seq(Nat)
      /\ pc = "adding" => local > 0
      /\ lock \in {"free", "main", "timer"}
  BY TextIsNat DEF WriterInv, WriterTypeOK
<1> DEFINE out == store.output
<1>a. /\ Grows(out, frags)
      /\ lock # "free" => batch = frags
      /\ lock = "main" => pc \in {"adding", "boundary", "close", "down"}
      /\ pc \in {"metadata", "agent", "adding", "boundary", "event"} => mode = "body"
      /\ pc = "error" => mode \in {"fail", "restart"}
      /\ pc = "event" => frags = <<>>
      /\ pc \in {"snapshot", "commit", "done"} /\ mode = "body" => frags = <<>>
      /\ mode = "body" /\ pc \notin {"down", "ended"} =>
           Reaches(out \o frags, IF Joining THEN local - 1 ELSE local)
  BY DEF TextInv, BufferInv
<1>b. /\ Grows(out', frags) /\ Grows(out', <<>>)
      /\ \A n : Reaches(out \o frags, n) => Reaches(out' \o frags, n)
  <2>1. PICK u \in Seq(Nat) : out' = out \o u
    BY NextStreamInv
  <2> HIDE DEF out
  <2>2. Grows(out', frags) BY <1>0, <1>a, <2>1, GrowsAfterMore DEF out
  <2>3. \A n : Reaches(out \o frags, n) => Reaches(out' \o frags, n)
    BY <1>0, <2>1, ReachesMore DEF out
  <2>4. Grows(out', <<>>) BY DEF Grows
  <2> QED BY <2>2, <2>3, <2>4
<1>c. BufferInv' <=>
      /\ Grows(out', frags')
      /\ lock' # "free" => batch' = frags'
      /\ lock' = "main" => pc' \in {"adding", "boundary", "close", "down"}
      /\ pc' \in {"metadata", "agent", "adding", "boundary", "event"} => mode' = "body"
      /\ pc' = "error" => mode' \in {"fail", "restart"}
      /\ pc' = "event" => frags' = <<>>
      /\ pc' \in {"snapshot", "commit", "done"} /\ mode' = "body" => frags' = <<>>
      /\ mode' = "body" /\ pc' \notin {"down", "ended"} =>
           Reaches(out' \o frags', IF Joining' THEN local' - 1 ELSE local')
  BY DEF BufferInv
<1> HIDE DEF out
<1>d. Joining = (pc = "adding" /\ lock # "main") /\ Joining' = (pc' = "adding" /\ lock' # "main")
  BY DEF Joining
<1>1. CASE Metadata \/ AgentEvent
  <2>1. /\ frags' = frags /\ batch' = batch /\ lock' = lock /\ local' = local
        /\ pc \in {"metadata", "event"} /\ mode = "body"
        /\ (pc' \in {pc, "agent"} /\ mode' = mode) \/ (pc' = "close" /\ mode' = "fail")
    BY <1>1, <1>a DEF Metadata, AgentEvent, PublishEvent, RaiseTo
  <2> QED BY <1>a, <1>b, <1>c, <1>d, <2>1
<1>2. CASE Error
  <2>1. /\ frags' = frags /\ batch' = batch /\ lock' = lock /\ local' = local
        /\ pc = "error" /\ mode \in {"fail", "restart"} /\ mode' = mode
        /\ pc' \in {"error", "commit", "snapshot"}
    BY <1>2, <1>a DEF Error, PublishEvent, RaiseTo
  <2> QED BY <1>a, <1>b, <1>c, <1>d, <2>1
<1>3. CASE AgentNext
  <2>1. /\ frags' = frags /\ batch' = batch /\ lock' = lock /\ pc = "agent"
        /\ mode = "body" /\ mode' = "body" /\ lock # "main"
        /\ \/ pc' = "adding" /\ local' - 1 = local
           \/ pc' \in {"boundary", "close"} /\ local' = local
    BY <1>3, <1>0, <1>a DEF AgentNext
  <2> QED BY <1>a, <1>b, <1>c, <1>d, <2>1
<1>4. CASE AgentRaises
  <2>1. /\ frags' = frags /\ batch' = batch /\ lock' = lock /\ pc = "agent"
        /\ mode' = "fail" /\ pc' = "close" /\ lock # "main"
    BY <1>4, <1>a DEF AgentRaises, RaiseTo
  <2> QED BY <1>a, <1>b, <1>c, <1>d, <2>1
<1>5. CASE Add
  <2>1. /\ frags' = Append(frags, local) /\ out' = out /\ local' = local
        /\ mode' = "body" /\ mode = "body" /\ pc = "adding" /\ lock = "free"
        /\ \/ lock' = "main" /\ batch' = frags' /\ pc' = "adding"
           \/ lock' = "free" /\ pc' = "agent"
    BY <1>5, <1>a DEF Add, BufferFree, FlushBy, out
  <2>2. Reaches(out \o frags, local - 1) BY <1>a, <1>d, <2>1
  <2>3. Grows(out, Append(frags, local)) /\ Reaches(out \o Append(frags, local), local)
    BY SMTT(30), <1>0, <1>a, <2>1, <2>2, GrowsByNext DEF out
  <2> QED BY <1>c, <1>d, <2>1, <2>3
<1>6. CASE FlushNothing
  <2>1. /\ frags' = frags /\ batch' = batch /\ lock' = lock /\ local' = local
        /\ frags = <<>> /\ pc \in {"boundary", "close"} /\ lock = "free"
        /\ mode' = mode /\ pc' = FlushReturns
    BY <1>6 DEF FlushNothing, FlushCalled, BufferFree, MustPublish
  <2> QED BY <1>a, <1>b, <1>c, <1>d, <2>1, FlushGoesOn
<1>7. CASE FlushStarts
  <2>1. /\ frags' = frags /\ batch' = frags /\ lock' = "main" /\ local' = local
        /\ pc \in {"boundary", "close"} /\ mode' = mode /\ pc' = pc
    BY <1>7 DEF FlushStarts, FlushCalled, FlushBy
  <2> QED BY <1>a, <1>b, <1>c, <1>d, <2>1
<1>8. CASE StoredFailure
  <2>1. /\ frags' = frags /\ batch' = batch /\ lock' = lock /\ local' = local
        /\ pc \in {"adding", "boundary", "close"} /\ lock = "free"
        /\ \/ mode = "body" /\ pc' = "close" /\ mode' = "fail"
           \/ mode # "body" /\ pc' = FlushReturns /\ mode' = mode
    BY <1>8 DEF StoredFailure, BufferFree, FlushRaises, RaiseTo
  <2> QED BY <1>a, <1>b, <1>c, <1>d, <2>1, FlushGoesOn
<1>9. CASE TimerFires
  <2>1. /\ frags' = frags /\ batch' = frags /\ lock' = "timer" /\ local' = local
        /\ lock = "free" /\ mode' = mode /\ pc' = pc
    BY <1>9 DEF TimerFires, FlushBy
  <2> QED BY <1>a, <1>b, <1>c, <1>d, <2>1
<1>10. CASE FlushPublishes
  <2>1. lock # "free" /\ local' = local /\ batch = frags /\ pc # "down"
    BY <1>10, <1>a DEF FlushPublishes
  <2>2. CASE /\ AppendOk(Event("token", batch, 0))
             /\ frags' = <<>> /\ batch' = <<>> /\ lock' = "free"
             /\ pc' = IF lock = "main" THEN FlushReturns ELSE pc
             /\ UNCHANGED <<mode, failure>>
    <3>1. out' = out \o frags
      BY <2>1, <2>2 DEF AppendOk, Appended, Event, out
    <3>2. out' \o <<>> = out \o frags
      BY <1>0, <3>1 DEF out
    <3>3. CASE lock = "main"
      <4>1. pc \in {"adding", "boundary", "close"} /\ ~Joining /\ pc' = FlushReturns
        BY <1>a, <1>d, <2>1, <2>2, <3>3
      <4>2. ~Joining'
        <5>1. FlushReturns # "adding" BY <1>a, FlushGoesOn
        <5> QED BY <1>d, <4>1, <5>1
      <4> QED BY <1>a, <1>b, <1>c, <2>1, <2>2, <3>2, <4>1, <4>2, FlushGoesOn
    <3>4. CASE lock = "timer"
      <4>1. Joining' = Joining /\ pc' = pc BY <1>d, <2>2, <3>4
      <4> QED BY <1>a, <1>b, <1>c, <2>1, <2>2, <3>2, <4>1
    <3> QED BY <1>0, <2>1, <3>3, <3>4
  <2>3. CASE UNCHANGED <<pc, mode, frags, batch, lock, failure>>
    <3>1. Joining' = Joining BY <1>d, <2>3
    <3> QED BY <1>a, <1>b, <1>c, <2>1, <2>3, <3>1
  <2>4. CASE /\ batch' = <<>> /\ lock' = "free" /\ UNCHANGED frags
             /\ IF lock = "main"
                  THEN FlushRaises /\ UNCHANGED failure
                  ELSE failure' = TRUE /\ UNCHANGED <<pc, mode>>
    <3>1. CASE lock = "main"
      <4>1. \/ mode = "body" /\ pc' = "close" /\ mode' = "fail"
            \/ mode # "body" /\ pc' = FlushReturns /\ mode' = mode
        BY <2>4, <3>1 DEF FlushRaises, RaiseTo
      <4> QED BY <1>a, <1>b, <1>c, <1>d, <2>1, <2>4, <3>1, <4>1, FlushGoesOn
    <3>2. CASE lock = "timer"
      <4>1. pc' = pc /\ mode' = mode /\ Joining' = Joining BY <1>d, <2>4, <3>2
      <4> QED BY <1>a, <1>b, <1>c, <2>1, <2>4, <4>1
    <3> QED BY <1>0, <2>1, <3>1, <3>2
  <2> QED BY <1>10, <2>2, <2>3, <2>4 DEF FlushPublishes
<1>11. CASE Snapshot
  <2>1. /\ frags' = frags /\ batch' = batch /\ lock' = lock /\ local' = local
        /\ pc = "snapshot" /\ mode' = mode
        /\ pc' = "commit" \/ (pc' = "error" /\ mode = "restart")
    BY <1>11 DEF Snapshot
  <2> QED BY <1>a, <1>b, <1>c, <1>d, <2>1
<1>12. CASE Commit
  <2>1. /\ frags' = frags /\ batch' = batch /\ lock' = lock /\ local' = local
        /\ pc = "commit"
        /\ \/ pc' = "done" /\ mode' = mode
           \/ pc' = "close" /\ mode' = "fail"
           \/ pc' \in {"down", "gone"} /\ mode' = mode /\ mode # "body"
    BY <1>12 DEF Commit, CommitRaises, RaiseTo
  <2> QED BY <1>a, <1>b, <1>c, <1>d, <2>1
<1>13. CASE AppendDone
  <2>1. /\ frags' = frags /\ batch' = batch /\ lock' = lock /\ local' = local
        /\ pc = "done" /\ mode' = mode /\ pc' = "ended"
    BY <1>13 DEF AppendDone
  <2> QED BY <1>a, <1>b, <1>c, <1>d, <2>1
<1>14. CASE LateAppend \/ UNCHANGED writerVars
  <2>1. /\ frags' = frags /\ batch' = batch /\ lock' = lock /\ local' = local
        /\ mode' = mode /\ pc' = pc
    BY <1>14 DEF LateAppend, writerVars
  <2>2. Joining' = Joining BY <1>d, <2>1
  <2> QED BY <1>a, <1>b, <1>c, <2>1, <2>2
<1>15. CASE CancelBody \/ CancelHandler
  <2>1. /\ frags' = frags /\ local' = local
        /\ \/ lock = "main" /\ lock' = "free" /\ batch' = <<>>
           \/ lock # "main" /\ lock' = lock /\ batch' = batch
        /\ mode' # "body" /\ pc' \in {"close", "gone", "down"}
    BY <1>15 DEF CancelBody, CancelHandler, CancelTask
  <2> QED BY <1>a, <1>b, <1>c, <1>d, <2>1
<1>16. CASE DirectCancel
  <2>1. /\ frags' = frags /\ batch' = batch /\ lock' = lock /\ local' = local
        /\ pc = "gone" /\ mode' = "direct" /\ pc' = "snapshot"
    BY <1>16 DEF DirectCancel
  <2> QED BY <1>a, <1>b, <1>c, <1>d, <2>1
<1>17. CASE Crash
  <2>1. /\ frags' = frags /\ batch' = batch /\ lock' = lock /\ local' = local
        /\ mode' = mode /\ pc' = "down"
    BY <1>17 DEF Crash
  <2> QED BY <1>a, <1>b, <1>c, <1>d, <2>1
<1>18. CASE Restart
  <2>1. /\ frags' = <<>> /\ batch' = <<>> /\ lock' = "free" /\ local' = local
        /\ pc' = "ended" \/ (pc' = "snapshot" /\ mode' = "restart")
    BY <1>18 DEF Restart
  <2> QED BY <1>b, <1>c, <1>d, <2>1
<1> QED BY <1>1, <1>2, <1>3, <1>4, <1>5, <1>6, <1>7, <1>8, <1>9, <1>10, <1>11, <1>12, <1>13,
           <1>14, <1>15, <1>16, <1>17, <1>18 DEF WriterNext, TaskStep

\* A run that completes has all its text in the output, and so has its row.
LEMMA NextRowInv ==
  ASSUME WriterInv, TextInv, [WriterNext]_writerVars
  PROVE  RowInv'
<1> USE EventsAssumption
<1> DEFINE out == store.output
<1>0. /\ out \in Seq(Nat) /\ frags \in Seq(Nat) /\ local \in Nat
      /\ mode \in Modes /\ lock \in {"free", "main", "timer"}
  BY TextIsNat DEF WriterInv, WriterTypeOK
<1>a. /\ mode = "body" /\ pc = "commit" => Covers(snap.out, local)
      /\ mode = "body" /\ Finished => pc \in {"done", "ended", "down"}
      /\ row.status = "completed" => Covers(out, local) /\ Covers(row.out, local)
      /\ pc \in {"metadata", "agent", "adding", "boundary", "event"} => mode = "body"
      /\ pc = "error" => mode \in {"fail", "restart"}
      /\ lock = "main" => pc \in {"adding", "boundary", "close", "down"}
  BY DEF TextInv, RowInv, BufferInv
<1>b. Covers(out, local) => Covers(out', local)
  <2>1. PICK u \in Seq(Nat) : out' = out \o u BY NextStreamInv
  <2> HIDE DEF out
  <2> QED BY <1>0, <2>1, CoversMore
<1>c. mode = "body" /\ pc \in {"snapshot", "commit"} => Covers(out, local)
  <2> SUFFICES ASSUME mode = "body", pc \in {"snapshot", "commit"} PROVE Covers(out, local)
    OBVIOUS
  <2>1. frags = <<>> /\ ~Joining /\ Grows(<<>>, out)
    BY DEF TextInv, BufferInv, StreamInv, Sound, Joining
  <2>2. Reaches(out \o frags, local) BY <2>1 DEF TextInv, BufferInv
  <2>3. out \o frags = out BY <1>0, <2>1
  <2> QED BY <1>0, <2>1, <2>2, <2>3, GrowsCovers
<1> HIDE DEF out
<1>d. RowInv' <=>
      /\ mode' = "body" /\ pc' = "commit" => Covers(snap'.out, local')
      /\ mode' = "body" /\ Finished' => pc' \in {"done", "ended", "down"}
      /\ row'.status = "completed" => Covers(out', local') /\ Covers(row'.out, local')
  BY DEF RowInv, out
<1>e. row' = row => (Finished' <=> Finished)
  BY DEF Finished
<1>f. Finished <=> row.status # "active"
  BY DEF Finished
<1>1. CASE Metadata \/ AgentEvent \/ Error
  <2>1. /\ row' = row /\ local' = local /\ pc \in {"metadata", "event", "error"}
        /\ \/ pc' \in {pc, "agent"} /\ mode' = mode
           \/ mode' # "body"
    BY <1>1, <1>a DEF Metadata, AgentEvent, Error, PublishEvent, RaiseTo
  <2> QED BY <1>a, <1>b, <1>d, <1>e, <2>1
<1>2. CASE AgentNext
  <2>1. /\ row' = row /\ pc = "agent" /\ mode = "body" /\ mode' = "body"
        /\ pc' \in {"adding", "boundary", "close"}
    BY <1>2, <1>a DEF AgentNext
  <2> QED BY <1>a, <1>d, <1>e, <1>f, <2>1
<1>3. CASE AgentRaises \/ Add \/ FlushStarts \/ AppendDone
  <2>1. /\ row' = row /\ local' = local
        /\ \/ mode' # "body"
           \/ /\ pc \in {"adding", "boundary", "close"} /\ mode' = mode
              /\ pc' \in {pc, "agent"}
           \/ pc' = "ended"
    BY <1>3, <1>a DEF AgentRaises, RaiseTo, Add, FlushStarts, FlushCalled, AppendDone
  <2> QED BY <1>a, <1>b, <1>d, <1>e, <2>1
<1>4. CASE FlushNothing \/ StoredFailure
  <2>1. /\ row' = row /\ local' = local /\ pc \in {"adding", "boundary", "close"}
        /\ mode' # "body" \/ (mode' = mode /\ pc' = FlushReturns)
    BY <1>4 DEF FlushNothing, FlushCalled, StoredFailure, FlushRaises, RaiseTo
  <2> QED BY <1>a, <1>b, <1>d, <1>e, <2>1, FlushGoesOn
<1>5. CASE FlushPublishes
  <2>1. /\ row' = row /\ local' = local /\ snap' = snap /\ pc # "down" /\ lock # "free"
        /\ \/ mode' = mode /\ pc' = pc
           \/ mode' = mode /\ pc' = FlushReturns /\ lock = "main"
           \/ mode' # "body"
    BY <1>5 DEF FlushPublishes, FlushRaises, RaiseTo
  <2> QED BY <1>a, <1>b, <1>d, <1>e, <2>1, FlushGoesOn
<1>6. CASE Snapshot
  <2>1. /\ row' = row /\ local' = local /\ mode' = mode /\ pc = "snapshot"
        /\ pc' \in {"error", "commit"}
    BY <1>6 DEF Snapshot
  <2>2. mode = "body" => snap'.out \in {out, Text(local)}
    BY <1>6 DEF Snapshot, FallbackSnap, SnapOutput, out
  <2>3. Covers(Text(local), local) BY <1>0, TextCovers
  <2> QED BY <1>a, <1>b, <1>c, <1>d, <1>e, <2>1, <2>2, <2>3
<1>7. CASE Commit
  <2>1. /\ local' = local /\ pc = "commit" /\ snap' = snap
        /\ row' = row \/ (~Finished /\ row' = Committed(CommitSnap))
        /\ mode' = "body" => mode = "body" /\ pc' = "done"
    BY <1>7 DEF Commit, FinalizeRow, CommitRaises, RaiseTo
  <2>2. row'.status = "completed" /\ row' # row =>
          mode = "body" /\ row'.out = snap.out
    <3>1. mode \in {"body", "cancel", "fail", "direct", "restart"}
      BY <1>0, <2>1 DEF Modes, WriterInv
    <3> QED BY <2>1, <3>1 DEF Committed, CommitSnap, StatusOf
  <2> QED BY <1>a, <1>b, <1>c, <1>d, <2>1, <2>2
<1>8. CASE LateAppend \/ UNCHANGED writerVars \/ TimerFires
  <2>1. /\ row' = row /\ local' = local /\ snap' = snap /\ mode' = mode /\ pc' = pc
    BY <1>8 DEF LateAppend, writerVars, TimerFires
  <2> QED BY <1>a, <1>b, <1>d, <1>e, <2>1
<1>9. CASE CancelBody \/ CancelHandler \/ DirectCancel \/ Crash \/ Restart
  <2>1. /\ row' = row /\ local' = local
        /\ mode' # "body" \/ pc' \in {"down", "ended"}
    BY <1>9 DEF CancelBody, CancelHandler, CancelTask, DirectCancel, Crash, Restart
  <2> QED BY <1>a, <1>b, <1>d, <1>e, <2>1
<1> QED BY <1>1, <1>2, <1>3, <1>4, <1>5, <1>6, <1>7, <1>8, <1>9 DEF WriterNext, TaskStep

\* The stream is empty and nothing was received.
LEMMA InitTextInv == Init => TextInv
<1> SUFFICES ASSUME Init PROVE TextInv
  OBVIOUS
<1>1. StreamInv
  BY DEF Init, EmptyStore, StreamInv, Sound, Grows
<1>2. BufferInv
  BY DEF Init, EmptyStore, BufferInv, Grows, Reaches, Joining
<1>3. RowInv
  BY DEF Init, Unfinished, RowInv, Finished
<1> QED BY <1>1, <1>2, <1>3 DEF TextInv

\* The invariant of stream, buffer and row.
LEMMA TextInvHolds == WriterSpec => [](WriterInv /\ TextInv)
<1>1. WriterInv /\ TextInv /\ [WriterNext]_writerVars => TextInv'
  BY NextStreamInv, NextBufferInv, NextRowInv DEF TextInv
<1> QED BY <1>1, InitWriterInv, NextWriterInv, InitTextInv, PTL DEF WriterSpec

\* Whatever the buffer, its timer, the retries, the lost and late commands and the
\* crashes do, an event of the agent has all the text the agent emitted before it
\* earlier in the stream.
THEOREM TextIsBeforeEvent == WriterSpec => []TextBeforeEvent
<1>1. TextInv => TextBeforeEvent
  BY DEF TextInv, StreamInv, Sound, TextBeforeEvent
<1> QED BY <1>1, TextInvHolds, PTL
=============================================================================
