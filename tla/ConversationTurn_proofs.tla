----------------------- MODULE ConversationTurn_proofs -----------------------
(***************************************************************************)
(* Proofs about ConversationTurn, for any types of artifacts, any          *)
(* configurations, and any number of runs and faults.                      *)
(***************************************************************************)
EXTENDS ConversationTurn, FiniteSetTheorems, SequenceTheorems, WellFoundedInduction, TLAPS

USE DEF askVars, workVars, pastVars, historyVars

-----------------------------------------------------------------------------
(* Shapes                                                                  *)

Graph == {"admitted", "entry", "intake", "context", "plan", "router", "revision", "jobs"}
Pcs == Graph \cup {"new", "accepted", "over", "settled"}

Turns ==
  [pc : Pcs, approval : BOOLEAN, now : Configs \cup {0}, workflow : Configs \cup {0}]

\* the fields of the checkpoint
Shaped(c) ==
  c = [active |-> c.active, model |-> c.model, pending |-> c.pending,
       experience |-> c.experience, catalog |-> c.catalog, sources |-> c.sources,
       targets |-> c.targets, result |-> c.result]

Checkpoint(c) ==
  /\ Shaped(c)
  /\ c.active \in BOOLEAN /\ c.model \in Configs
  /\ c.pending \in Approvals \cup {"none", "input"}

\* Types, and who holds the lock: exactly the run whose graph is at work.
TurnInv ==
  /\ config \in Configs
  /\ Checkpoint(ck)
  /\ turn \in [Runs -> Turns]
  /\ \A r \in Runs : turn[r].pc \in Graph \cup {"accepted"} => turn[r].now \in Configs
  /\ post.pc \in {"none", "asked", "read"} /\ post.approval \in BOOLEAN
  /\ post.workflow \in Configs \cup {0}
  /\ post.pc # "none" => \E r \in Runs : turn[r].pc = "new"
  /\ open \in Runs \cup {0} /\ (open # 0 => turn[open].pc # "new")
  /\ skewed \in BOOLEAN /\ left \in BOOLEAN
  /\ lock \in Runs \cup {0}
  /\ \A r \in Runs : turn[r].pc \in Graph <=> lock = r

\* A nonempty set of naturals has a least element, which Min chooses.
LEMMA MinIsMember ==
  ASSUME NEW S, S \subseteq Nat, S # {}
  PROVE  Min(S) \in S
<1>1. PICK R : IsWellFoundedOn(R, Nat) /\ \A x, y \in Nat : x < y => <<x, y>> \in R
  <2>1. \A x, y \in Nat : x < y => <<x, y>> \in OpToRel(<, Nat)
    BY DEF OpToRel
  <2> QED BY <2>1, NatLessThanWellFounded, Zenon
<1>2. PICK x \in S : \A y \in S : ~(<<y, x>> \in R)
  <2>1. IsWellFoundedOn(R, Nat) BY <1>1
  <2>2. S \subseteq Nat /\ S # {} OBVIOUS
  <2> HIDE DEF IsWellFoundedOn
  <2> QED BY <2>1, <2>2, WFMin, Zenon
<1>3. \A y \in S : x <= y
  <2> TAKE y \in S
  <2>1. x \in Nat /\ y \in Nat OBVIOUS
  <2>2. ~(y < x) BY <1>1, <1>2, <2>1
  <2> QED BY <2>1, <2>2
<1> QED BY <1>3 DEF Min

\* The graph of r goes on or ends.
LEMMA GotoKeepsTurnInv ==
  ASSUME TurnInv, NEW r \in Runs, lock = r \/ (lock = 0 /\ turn[r].pc = "accepted"),
         NEW p \in Graph \cup {"over"}, Goto(r, p),
         UNCHANGED <<askVars, skewed>>, Checkpoint(ck'), left' \in BOOLEAN
  PROVE  /\ TurnInv'
         /\ lock' = IF p = "over" THEN 0 ELSE r
         /\ turn'[r] = [turn[r] EXCEPT !.pc = p]
         /\ turn'[r].pc = p /\ turn'[r].now = turn[r].now
         /\ turn'[r].workflow = turn[r].workflow /\ turn'[r].approval = turn[r].approval
         /\ \A q \in Runs \ {r} : turn'[q] = turn[q] /\ turn[q].pc \notin Graph
<1> USE TurnAssumption
<1>1. /\ turn' = [turn EXCEPT ![r].pc = p]
      /\ lock' = IF p = "over" THEN 0 ELSE r
  BY DEF Goto
<1>2. /\ turn' \in [Runs -> Turns]
      /\ turn'[r] = [turn[r] EXCEPT !.pc = p]
      /\ turn'[r].pc = p /\ turn'[r].now = turn[r].now
      /\ turn'[r].workflow = turn[r].workflow /\ turn'[r].approval = turn[r].approval
      /\ \A q \in Runs \ {r} : turn'[q] = turn[q]
  <2>1. turn[r] \in Turns BY DEF TurnInv
  <2>2. [turn[r] EXCEPT !.pc = p] \in Turns BY <2>1 DEF Turns, Pcs
  <2> QED BY <1>1, <2>1, <2>2 DEF TurnInv, Turns
<1>3. \A q \in Runs \ {r} : turn[q].pc \notin Graph
  BY DEF TurnInv
<1>4. turn[r].now \in Configs
  BY DEF TurnInv
<1>5. \A q \in Runs : turn'[q].pc \in Graph <=> lock' = q
  <2>1. "over" \notin Graph BY DEF Graph
  <2> QED BY <1>1, <1>2, <1>3, <2>1
<1>6. \A q \in Runs : turn'[q].pc \in Graph \cup {"accepted"} => turn'[q].now \in Configs
  BY <1>2, <1>4 DEF TurnInv
<1>7. post.pc # "none" => \E q \in Runs : turn'[q].pc = "new"
  <2> SUFFICES ASSUME post.pc # "none" PROVE \E q \in Runs : turn'[q].pc = "new"
    OBVIOUS
  <2>1. PICK q \in Runs : turn[q].pc = "new" BY DEF TurnInv
  <2>2. q # r BY <2>1 DEF TurnInv, Graph
  <2> QED BY <1>2, <2>1, <2>2
<1>8. open # 0 => turn'[open].pc # "new"
  <2> SUFFICES ASSUME open # 0 PROVE turn'[open].pc # "new"
    OBVIOUS
  <2>1. open \in Runs /\ turn[open].pc # "new" BY DEF TurnInv
  <2>2. p # "new" BY DEF Graph
  <2> QED BY <1>2, <2>1, <2>2
<1> QED BY <1>1, <1>2, <1>3, <1>5, <1>6, <1>7, <1>8 DEF TurnInv

-----------------------------------------------------------------------------
(* Workflows and their questions                                           *)

\* Both properties are about a checkpoint at rest.  While a graph works, a run that has not
\* entered it still carries the configuration the checkpoint pins, no question is pending,
\* and past the entry the workflow is open.
CkInv ==
  ~skewed =>
    /\ \A r \in Runs : turn[r].pc \in Graph \cup {"accepted"} => open = r
    /\ begun # 0 => ck.active /\ ck.model = begun
    /\ \A r \in Runs : turn[r].pc \in {"accepted", "admitted"} => turn[r].workflow = Pinned
    /\ (\A r \in Runs : turn[r].pc \notin Graph \ {"admitted"}) =>
         /\ ck.pending # "none" => ck.active
         /\ ck.active /\ ck.pending = "none" => left
    /\ \A r \in Runs : turn[r].pc \in Graph \ {"admitted"} =>
         /\ ck.pending = "none"
         /\ turn[r].pc \notin {"entry", "jobs"} => ck.active
         /\ turn[r].pc = "entry" /\ ck.active => left

\* The thread starts at rest.
LEMMA InitTurn == Init => TurnInv /\ CkInv
<1> SUFFICES ASSUME Init PROVE TurnInv /\ CkInv
  OBVIOUS
<1> USE TurnAssumption
<1>1. config \in Configs
  <2>1. config = Min(Configs) BY DEF Init
  <2> QED BY <2>1, MinIsMember
<1>2. /\ Shaped(ck) /\ ck.active = FALSE /\ ck.model = config /\ ck.pending = "none"
  BY DEF Init, Shaped
<1>3. NoTurn \in Turns BY DEF NoTurn, Turns, Pcs
<1>4. /\ turn = [r \in Runs |-> NoTurn] /\ \A r \in Runs : turn[r].pc = "new"
      /\ post.pc = "none" /\ post.approval = FALSE /\ post.workflow = 0
      /\ open = 0 /\ lock = 0 /\ skewed = FALSE /\ left = FALSE /\ begun = 0
  BY DEF Init, NoTurn, NoPost
<1>5. TurnInv
  BY <1>1, <1>2, <1>3, <1>4 DEF TurnInv, Checkpoint, Graph
<1>6. CkInv
  BY <1>2, <1>4 DEF CkInv, Graph
<1> QED BY <1>5, <1>6

\* A run that leaves the graph at its entry or later.
LEMMA EndKeepsCkInv ==
  ASSUME TurnInv, CkInv, NEW r \in Runs, lock = r, Goto(r, "over"),
         UNCHANGED <<askVars, skewed>>, Checkpoint(ck'), left' \in BOOLEAN,
         ~skewed => (begun' # 0 => ck'.active /\ ck'.model = begun'),
         ~skewed => (ck'.pending # "none" => ck'.active),
         ~skewed => (ck'.active /\ ck'.pending = "none" => left')
  PROVE  TurnInv' /\ CkInv'
<1>1. /\ TurnInv' /\ turn'[r].pc = "over"
      /\ \A q \in Runs \ {r} : turn'[q] = turn[q] /\ turn[q].pc \notin Graph
  BY GotoKeepsTurnInv
<1>2. ~skewed => \A q \in Runs : turn'[q].pc \notin Graph \cup {"accepted"}
  <2>1. turn[r].pc \in Graph BY DEF TurnInv
  <2> QED BY <1>1, <2>1 DEF CkInv, Graph
<1> QED BY <1>1, <1>2 DEF CkInv, Graph

\* A run that goes on in the graph, past its entry or at it.
LEMMA StepKeepsCkInv ==
  ASSUME TurnInv, CkInv, NEW r \in Runs, lock = r, NEW p \in Graph \ {"admitted"}, Goto(r, p),
         UNCHANGED <<askVars, skewed>>, Checkpoint(ck'), left' \in BOOLEAN,
         ~skewed => (begun' # 0 => ck'.active /\ ck'.model = begun'),
         ~skewed => ck'.pending = "none",
         ~skewed => (p \notin {"entry", "jobs"} => ck'.active),
         ~skewed => (p = "entry" /\ ck'.active => left')
  PROVE  TurnInv' /\ CkInv'
<1>1. /\ TurnInv' /\ turn'[r].pc = p
      /\ \A q \in Runs \ {r} : turn'[q] = turn[q] /\ turn[q].pc \notin Graph
  BY GotoKeepsTurnInv
<1>2. ~skewed => open = r /\ \A q \in Runs \ {r} : turn'[q].pc \notin Graph \cup {"accepted"}
  <2>1. turn[r].pc \in Graph BY DEF TurnInv
  <2> QED BY <1>1, <2>1 DEF CkInv
<1> QED BY <1>1, <1>2 DEF CkInv, Graph

-----------------------------------------------------------------------------
(* Requests, and runs outside their graph                                  *)

\* What a checkpoint becomes at the run's entry.
LEMMA EntryIsShaped ==
  ASSUME TurnInv, NEW r \in Runs, lock = r
  PROVE  Checkpoint(Entered(r)) /\ Selected(r) \in Configs
<1>1. /\ turn[r].now \in Configs /\ turn[r].workflow \in Configs \cup {0}
      /\ Checkpoint(ck)
  BY DEF TurnInv, Turns
<1>2. Selected(r) \in Configs BY <1>1 DEF Selected
<1>3. ck = [active |-> ck.active, model |-> ck.model, pending |-> ck.pending,
             experience |-> ck.experience, catalog |-> ck.catalog, sources |-> ck.sources,
             targets |-> ck.targets, result |-> ck.result]
  BY <1>1 DEF Checkpoint, Shaped
<1>4. PICK a \in BOOLEAN : a = (turn[r].workflow # 0)
  OBVIOUS
<1>5. Entered(r) = [ck EXCEPT !.active = a, !.model = Selected(r), !.pending = "none"]
  BY <1>4 DEF Entered, EntryUpdate
<1>6. Entered(r) = [active |-> a, model |-> Selected(r), pending |-> "none",
                    experience |-> ck.experience, catalog |-> ck.catalog,
                    sources |-> ck.sources, targets |-> ck.targets, result |-> ck.result]
  BY <1>3, <1>5
<1> QED BY <1>2, <1>4, <1>6 DEF Checkpoint, Shaped

\* Whose graph waits at its entry has the configuration the checkpoint pins.
LEMMA EntryKeepsWorkflow ==
  ASSUME TurnInv, CkInv, NEW r \in Runs, At(r, "admitted"), ~skewed
  PROVE  /\ Entered(r).active = ck.active
         /\ begun # 0 => Selected(r) = begun
         /\ ck.pending # "none" => ck.active
         /\ ck.active /\ ck.pending = "none" => left
<1> USE TurnAssumption
<1>1. turn[r].workflow = Pinned /\ ck.model \in Configs /\ Checkpoint(ck)
  BY DEF CkInv, TurnInv, At, Checkpoint
<1>2. ck.model # 0 BY <1>1
<1>3. Entered(r).active = (turn[r].workflow # 0)
  BY <1>1 DEF Entered, EntryUpdate, Checkpoint, Shaped
<1>4. \A q \in Runs : turn[q].pc \notin Graph \ {"admitted"}
  BY DEF At, TurnInv
<1>5. begun # 0 => ck.active /\ ck.model = begun
  BY DEF CkInv
<1>6. ck.active \in BOOLEAN BY <1>1 DEF Checkpoint
<1> QED BY <1>1, <1>2, <1>3, <1>4, <1>5, <1>6 DEF Pinned, Selected, CkInv

\* Requests read the checkpoint, and a run is accepted with what was read.
LEMMA RequestsTurn ==
  ASSUME TurnInv, CkInv, Ask \/ Read \/ Accept \/ Refuse
  PROVE  TurnInv' /\ CkInv'
<1> USE TurnAssumption
<1>1. CASE Ask
  <2>1. /\ post' = [post EXCEPT !.pc = "asked", !.approval = post'.approval]
        /\ post'.pc = "asked" /\ post'.approval \in BOOLEAN /\ post'.workflow = 0
        /\ \E r \in Runs : turn[r].pc = "new"
        /\ UNCHANGED <<config, ck, turn, open, lock, skewed, left, begun>>
    BY <1>1 DEF Ask, NoPost
  <2> QED BY <2>1 DEF TurnInv, CkInv, Checkpoint, Shaped, Pinned
<1>2. CASE Read
  <2>1. Pinned \in Configs \cup {0} BY DEF Pinned, TurnInv, Checkpoint
  <2>2. /\ post.pc = "asked" /\ post' = [post EXCEPT !.pc = "read", !.workflow = Pinned]
        /\ UNCHANGED <<config, ck, turn, open, lock, skewed, left, begun>>
    BY <1>2 DEF Read
  <2> QED BY <2>1, <2>2 DEF TurnInv, CkInv, Checkpoint, Shaped, Pinned
<1>3. CASE Refuse
  <2>1. /\ post' = NoPost
        /\ UNCHANGED <<config, ck, turn, open, lock, skewed, left, begun>>
    BY <1>3 DEF Refuse
  <2> QED BY <2>1 DEF TurnInv, CkInv, Checkpoint, Shaped, Pinned, NoPost
<1>4. CASE Accept
  <2> DEFINE S == {n \in Runs : turn[n].pc = "new"}
  <2>1. PICK r : r = Min(S) OBVIOUS
  <2>2. r \in Runs /\ turn[r].pc = "new"
    <3>1. post.pc = "read" BY <1>4 DEF Accept
    <3>2. S # {} BY <3>1 DEF TurnInv
    <3>3. S \subseteq Nat OBVIOUS
    <3>4. Min(S) \in S BY <3>2, <3>3, MinIsMember
    <3> QED BY <2>1, <3>4
  <2>3. /\ post.pc = "read" /\ open = 0 /\ open' = r /\ post' = NoPost
        /\ turn' = [turn EXCEPT ![r] = [pc |-> "accepted", approval |-> post.approval,
                                        now |-> config, workflow |-> post.workflow]]
        /\ skewed' = (skewed \/ post.workflow # Pinned \/ lock # 0)
        /\ UNCHANGED <<config, ck, lock, begun, left>>
    BY <1>4, <2>1 DEF Accept
  <2>4. /\ turn'[r] = [pc |-> "accepted", approval |-> post.approval,
                       now |-> config, workflow |-> post.workflow]
        /\ \A q \in Runs \ {r} : turn'[q] = turn[q]
        /\ turn'[r].pc = "accepted" /\ turn'[r].now = config
        /\ turn'[r].workflow = post.workflow
    BY <2>2, <2>3 DEF TurnInv
  <2>5. turn' \in [Runs -> Turns]
    <3>1. turn'[r] \in Turns BY <2>4 DEF TurnInv, Turns, Pcs
    <3> QED BY <2>2, <2>3, <2>4, <3>1 DEF TurnInv
  <2>6. \A q \in Runs : turn'[q].pc \in Graph <=> lock' = q
    BY <2>2, <2>3, <2>4 DEF TurnInv, Graph
  <2>7. \A q \in Runs : turn'[q].pc \in Graph \cup {"accepted"} => turn'[q].now \in Configs
    BY <2>4 DEF TurnInv
  <2>8. TurnInv'
    BY <2>2, <2>3, <2>4, <2>5, <2>6, <2>7 DEF TurnInv, Checkpoint, Shaped, NoPost
  <2>9. CkInv'
    <3> SUFFICES ASSUME ~skewed' PROVE CkInv'
      BY DEF CkInv
    <3>1. ~skewed /\ post.workflow = Pinned /\ lock = 0
      BY <2>3 DEF TurnInv
    <3>2. \A q \in Runs : turn[q].pc \notin Graph \cup {"accepted"}
      BY <2>3, <3>1 DEF CkInv
    <3>3. \A q \in Runs \ {r} : turn'[q].pc \notin Graph \cup {"accepted"}
      BY <2>4, <3>2
    <3>4. Pinned' = Pinned BY <2>3 DEF Pinned
    <3> QED BY <2>2, <2>3, <2>4, <3>1, <3>2, <3>3, <3>4 DEF CkInv, Graph
  <2> QED BY <2>8, <2>9
<1> QED BY <1>1, <1>2, <1>3, <1>4

\* A run takes the lock.
LEMMA AdmitTurn ==
  ASSUME TurnInv, CkInv, NEW r \in Runs, Admit(r)
  PROVE  TurnInv' /\ CkInv'
<1>1. /\ turn[r].pc = "accepted" /\ lock = 0 /\ Goto(r, "admitted")
      /\ UNCHANGED <<config, post, open, ck, begun, left, skewed>>
  BY DEF Admit
<1>2. Checkpoint(ck') /\ left' \in BOOLEAN BY <1>1 DEF TurnInv, Checkpoint, Shaped
<1>3. /\ TurnInv' /\ turn'[r].pc = "admitted" /\ turn'[r].workflow = turn[r].workflow
      /\ \A q \in Runs \ {r} : turn'[q] = turn[q] /\ turn[q].pc \notin Graph
  <2>1. "admitted" \in Graph BY DEF Graph
  <2> QED BY <1>1, <1>2, <2>1, GotoKeepsTurnInv
<1>4. \A q \in Runs : turn[q].pc \notin Graph \ {"admitted"}
  BY <1>1, <1>3 DEF Graph
<1>5. Pinned' = Pinned BY <1>1 DEF Pinned
<1> QED BY <1>1, <1>3, <1>4, <1>5 DEF CkInv, Graph

-----------------------------------------------------------------------------
(* The nodes of the graph                                                  *)

\* What is known of a run past its entry.
LEMMA AtWork ==
  ASSUME TurnInv, CkInv, NEW r \in Runs, NEW p \in Graph \ {"admitted"}, At(r, p)
  PROVE  /\ lock = r /\ turn[r].now \in Configs
         /\ ck.model \in Configs /\ ck.active \in BOOLEAN /\ Shaped(ck) /\ Checkpoint(ck)
         /\ begun = 0 \/ begun # 0
         /\ ~skewed => /\ begun # 0 => ck.active /\ ck.model = begun
                       /\ ck.pending = "none"
                       /\ p \notin {"entry", "jobs"} => ck.active
                       /\ p = "entry" /\ ck.active => left
BY DEF At, TurnInv, CkInv, Checkpoint

\* A node that changes at most the pending question, the experience, the catalog and what
\* the fan-out is for, and goes on.
LEMMA NodeGoesOn ==
  ASSUME TurnInv, CkInv, NEW r \in Runs, NEW p \in Graph \ {"admitted", "entry"}, At(r, p),
         NEW q \in Graph \ {"admitted", "entry"}, p \notin {"jobs"} \/ q = "jobs", Goto(r, q),
         UNCHANGED <<askVars, skewed, begun, left>>,
         Shaped(ck'), ck'.active = ck.active, ck'.model = ck.model, ck'.pending = ck.pending
  PROVE  TurnInv' /\ CkInv'
<1>1. /\ lock = r /\ Checkpoint(ck)
      /\ ~skewed => /\ begun # 0 => ck.active /\ ck.model = begun
                    /\ ck.pending = "none"
                    /\ p \notin {"entry", "jobs"} => ck.active
  BY AtWork
<1>2. Checkpoint(ck') /\ left' \in BOOLEAN BY <1>1 DEF Checkpoint, TurnInv
<1>3. ~skewed => (q \notin {"entry", "jobs"} => ck'.active) BY <1>1
<1> QED BY <1>1, <1>2, <1>3, StepKeepsCkInv

\* A node that asks the user.
LEMMA NodeAsks ==
  ASSUME TurnInv, CkInv, NEW r \in Runs, NEW p \in Graph \ {"admitted", "entry", "jobs"},
         At(r, p), Goto(r, "over"), UNCHANGED <<askVars, skewed, begun, left>>,
         Shaped(ck'), ck'.active = ck.active, ck'.model = ck.model,
         ck'.pending \in Approvals \cup {"input"}
  PROVE  TurnInv' /\ CkInv'
<1>1. /\ lock = r /\ Checkpoint(ck)
      /\ ~skewed => (begun # 0 => ck.active /\ ck.model = begun) /\ ck.active
  BY AtWork
<1>2. Checkpoint(ck') /\ left' \in BOOLEAN BY <1>1 DEF Checkpoint, TurnInv
<1>3. ck'.pending # "none" BY DEF Approvals
<1> QED BY <1>1, <1>2, <1>3, EndKeepsCkInv

\* A run whose graph is at its entry ends with the checkpoint it found.
LEMMA FailsAtEntry ==
  ASSUME TurnInv, CkInv, NEW r \in Runs, At(r, "admitted"), Goto(r, "over"),
         UNCHANGED <<askVars, skewed, begun, left, ck>>
  PROVE  TurnInv' /\ CkInv'
<1>1. /\ lock = r /\ Checkpoint(ck) /\ Checkpoint(ck') /\ left' \in BOOLEAN
  BY DEF At, TurnInv, Checkpoint, Shaped
<1>2. ~skewed => /\ begun # 0 => ck.active /\ ck.model = begun
                 /\ ck.pending # "none" => ck.active
                 /\ ck.active /\ ck.pending = "none" => left
  BY EntryKeepsWorkflow DEF CkInv
<1> QED BY <1>1, <1>2, EndKeepsCkInv

\* A run enters its graph with the checkpoint its entry writes.
LEMMA NodeEnters ==
  ASSUME TurnInv, CkInv, NEW r \in Runs, At(r, "admitted"),
         NEW p \in Graph \ {"admitted"}, Goto(r, p),
         p = "entry" \/ p = "jobs" \/ ck.pending # "none",
         p # "entry" \/ ck.pending = "none",
         UNCHANGED <<askVars, skewed, begun, left>>,
         Shaped(ck'), ck'.active = Entered(r).active, ck'.model = Selected(r),
         ck'.pending = "none"
  PROVE  TurnInv' /\ CkInv'
<1>1. lock = r BY DEF At
<1>2. /\ Checkpoint(Entered(r)) /\ Selected(r) \in Configs
  BY <1>1, EntryIsShaped
<1>3. Checkpoint(ck') /\ left' \in BOOLEAN BY <1>2 DEF Checkpoint, TurnInv
<1>4. ~skewed => /\ ck'.active = ck.active
                 /\ begun # 0 => ck'.model = begun
                 /\ ck.pending # "none" => ck.active
                 /\ ck.active /\ ck.pending = "none" => left
  BY EntryKeepsWorkflow
<1>5. ~skewed => (begun # 0 => ck.active)
  BY DEF CkInv
<1> QED BY <1>1, <1>3, <1>4, <1>5, StepKeepsCkInv

\* The nodes a run enters its graph by.
LEMMA EntryNodes ==
  ASSUME TurnInv, CkInv, NEW r \in Runs,
         \/ Fresh(r) \/ ApprovesNothing(r) \/ Answered(r)
         \/ MetadataApproved(r) \/ DesignApproved(r) \/ ClarifyApproved(r)
  PROVE  TurnInv' /\ CkInv'
<1>1. /\ At(r, "admitted") /\ lock = r
      /\ ck.pending \in Approvals \cup {"none", "input"} /\ Shaped(ck)
      /\ Checkpoint(Entered(r)) /\ Selected(r) \in Configs
  <2>1. At(r, "admitted") /\ lock = r
    BY DEF Fresh, ApprovesNothing, Answered, MetadataApproved, DesignApproved,
           ClarifyApproved, At
  <2> QED BY <2>1, EntryIsShaped DEF TurnInv, Checkpoint
<1>2. /\ Shaped(Entered(r)) /\ Entered(r).model = Selected(r) /\ Entered(r).pending = "none"
  <2>1. Entered(r).model = Selected(r) /\ Entered(r).pending = "none"
    BY <1>1 DEF Entered, EntryUpdate, Shaped
  <2> QED BY <1>1, <2>1 DEF Checkpoint
<1> DEFINE Keeps == UNCHANGED <<askVars, skewed, begun, left>>
           Enters == /\ Shaped(ck') /\ ck'.active = Entered(r).active
                     /\ ck'.model = Selected(r) /\ ck'.pending = "none"
<1>3. CASE Fresh(r)
  <2>1. Keeps /\ Goto(r, "entry") /\ ck.pending = "none"
    BY <1>3 DEF Fresh, Resumable
  <2>2. PICK e \in Aged : ck' = [Entered(r) EXCEPT !.catalog = Catalog, !.experience = e]
    BY <1>3 DEF Fresh
  <2>3. Enters BY <1>2, <2>2 DEF Shaped
  <2>4. "entry" \in Graph \ {"admitted"} BY DEF Graph
  <2> QED BY <1>1, <2>1, <2>3, <2>4, NodeEnters
<1>4. CASE ApprovesNothing(r)
  <2>1. Keeps /\ Goto(r, "over") /\ UNCHANGED ck
    BY <1>4 DEF ApprovesNothing
  <2> QED BY <1>1, <2>1, FailsAtEntry
<1>5. CASE Answered(r)
  <2>1. Keeps /\ ck.pending # "none"
    BY <1>5 DEF Answered, Resumable
  <2>2. PICK e \in Aged : ck' = [Entered(r) EXCEPT !.experience = e]
    BY <1>5 DEF Answered
  <2>3. Enters BY <1>2, <2>2 DEF Shaped
  <2>4. PICK p \in {"intake", "context", "router"} : Goto(r, p)
    BY <1>1, <1>5, <2>1 DEF Answered, Approvals
  <2>5. p \in Graph \ {"admitted"} /\ p # "entry" BY <2>4 DEF Graph
  <2> QED BY <1>1, <2>1, <2>3, <2>4, <2>5, NodeEnters
<1>6. CASE MetadataApproved(r)
  <2>1. Keeps /\ ck.pending # "none" /\ Goto(r, "context") /\ ck' = Entered(r)
    BY <1>6 DEF MetadataApproved
  <2>2. "context" \in Graph \ {"admitted"} BY DEF Graph
  <2> QED BY <1>1, <1>2, <2>1, <2>2, NodeEnters
<1>7. CASE ClarifyApproved(r)
  <2>1. Keeps /\ ck.pending # "none" /\ Goto(r, "revision")
    BY <1>7 DEF ClarifyApproved
  <2>2. PICK a : a = Entered(r).active OBVIOUS
  <2>3. ck' = [Reset(Listed, Listed) EXCEPT !.active = a, !.model = Selected(r),
                                            !.pending = "none"]
    BY <1>7, <2>2 DEF ClarifyApproved
  <2>4. Enters BY <1>1, <2>2, <2>3 DEF Shaped, Reset
  <2>5. "revision" \in Graph \ {"admitted"} BY DEF Graph
  <2> QED BY <1>1, <2>1, <2>4, <2>5, NodeEnters
<1>8. CASE DesignApproved(r)
  <2>1. UNCHANGED <<askVars, skewed, begun>> /\ ck.pending # "none"
    BY <1>8 DEF DesignApproved
  <2>2. CASE Goto(r, "over") /\ ck' = Entered(r) /\ left' = TRUE
    <3>1. ~skewed => /\ Entered(r).active = ck.active
                     /\ begun # 0 => Selected(r) = begun
      BY <1>1, EntryKeepsWorkflow
    <3>2. ~skewed => (begun # 0 => ck.active) BY DEF CkInv
    <3> QED BY <1>1, <1>2, <2>1, <2>2, <3>1, <3>2, EndKeepsCkInv
  <2>3. CASE /\ Goto(r, "jobs") /\ UNCHANGED left
             /\ \E types \in (SUBSET Types) \ {{}} :
                  ck' = [Reset(types, {}) EXCEPT !.active = Entered(r).active,
                                                 !.model = Selected(r), !.pending = "none"]
    <3>1. PICK a : a = Entered(r).active OBVIOUS
    <3>2. PICK types : ck' = [Reset(types, {}) EXCEPT !.active = a, !.model = Selected(r),
                                                      !.pending = "none"]
      BY <2>3, <3>1
    <3>3. Enters BY <1>1, <3>1, <3>2 DEF Shaped, Reset
    <3>4. "jobs" \in Graph \ {"admitted"} BY DEF Graph
    <3> QED BY <1>1, <2>1, <2>3, <3>3, <3>4, NodeEnters
  <2> QED BY <1>8, <2>2, <2>3 DEF DesignApproved, Stop
<1> QED BY <1>3, <1>4, <1>5, <1>6, <1>7, <1>8

\* A workflow begins, with the configuration the run was accepted under.
LEMMA BeginTurn ==
  ASSUME TurnInv, CkInv, NEW r \in Runs, NEW p \in {"entry", "intake"}, At(r, p),
         NEW q \in {"intake", "router"}, NEW e, Begin(r, q, e)
  PROVE  TurnInv' /\ CkInv'
<1>1. p \in Graph \ {"admitted"} /\ q \in Graph \ {"admitted", "entry"} BY DEF Graph
<1>2. /\ lock = r /\ turn[r].now \in Configs /\ Checkpoint(ck)
      /\ ~skewed => ck.pending = "none"
  BY <1>1, AtWork
<1>3. PICK n : n = turn[r].now OBVIOUS
<1>4. /\ ck' = [ck EXCEPT !.active = TRUE, !.model = n, !.experience = e]
      /\ begun' = n /\ left' = FALSE /\ Goto(r, q) /\ UNCHANGED <<askVars, skewed>>
  BY <1>3 DEF Begin
<1>5. /\ Shaped(ck') /\ ck'.active = TRUE /\ ck'.model = n /\ ck'.pending = ck.pending
  BY <1>2, <1>4 DEF Checkpoint, Shaped
<1>6. Checkpoint(ck') BY <1>2, <1>3, <1>5 DEF Checkpoint
<1> QED BY <1>1, <1>2, <1>4, <1>5, <1>6, StepKeepsCkInv

\* The nodes that prepare, route and ask.
LEMMA MiddleNodes ==
  ASSUME TurnInv, CkInv, NEW r \in Runs,
         \/ Chat(r) \/ Teach(r) \/ Revise(r) \/ Again(r) \/ AskMore(r) \/ Submit(r)
         \/ GiveUp(r) \/ PrepareContext(r) \/ Design(r) \/ Unclear(r) \/ Route(r)
         \/ NothingToRevise(r) \/ PrepareRevision(r)
  PROVE  TurnInv' /\ CkInv'
<1> DEFINE Keeps == UNCHANGED <<askVars, skewed, begun, left>>
           Same == Shaped(ck') /\ ck'.active = ck.active /\ ck'.model = ck.model
<1>1. Shaped(ck) BY DEF TurnInv, Checkpoint
<1>2. /\ {"entry", "intake", "context", "plan", "router", "revision", "jobs"}
           \subseteq Graph \ {"admitted"}
      /\ {"input", "metadata", "design", "clarify"} \subseteq Approvals \cup {"input"}
  BY DEF Graph, Approvals
<1>3. CASE Chat(r)
  <2>1. At(r, "entry") /\ Goto(r, "over") /\ UNCHANGED ck /\ Keeps
    BY <1>3 DEF Chat, Stop
  <2>2. /\ lock = r /\ Checkpoint(ck)
        /\ ~skewed => /\ begun # 0 => ck.active /\ ck.model = begun
                      /\ ck.pending = "none"
                      /\ ck.active => left
    BY <1>2, <2>1, AtWork
  <2>3. Checkpoint(ck') /\ left' \in BOOLEAN BY <2>1, <2>2 DEF TurnInv
  <2> QED BY <2>1, <2>2, <2>3, EndKeepsCkInv
<1>4. CASE Teach(r)
  BY <1>4, BeginTurn DEF Teach
<1>5. CASE Revise(r)
  BY <1>5, BeginTurn DEF Revise
<1>6. CASE Again(r)
  BY <1>6, BeginTurn DEF Again
<1>7. CASE AskMore(r)
  <2>1. /\ At(r, "intake") /\ Goto(r, "over") /\ Keeps
        /\ ck' = [ck EXCEPT !.pending = "input"]
    BY <1>7 DEF AskMore, Interrupt
  <2>2. Same /\ ck'.pending = "input" BY <1>1, <2>1 DEF Shaped
  <2> QED BY <1>2, <2>1, <2>2, NodeAsks
<1>8. CASE Submit(r)
  <2>1. At(r, "intake") /\ Goto(r, "over") /\ Keeps
    BY <1>8 DEF Submit
  <2>2. PICK e \in Aged : ck' = [ck EXCEPT !.pending = "metadata", !.experience = e]
    BY <1>8 DEF Submit
  <2>3. Same /\ ck'.pending = "metadata" BY <1>1, <2>2 DEF Shaped
  <2> QED BY <1>2, <2>1, <2>3, NodeAsks
<1>9. CASE GiveUp(r)
  <2>1. /\ At(r, "intake") /\ Goto(r, "over") /\ UNCHANGED <<askVars, skewed>>
        /\ ck' = [ck EXCEPT !.active = FALSE] /\ begun' = 0 /\ left' = FALSE
    BY <1>9 DEF GiveUp, Stop
  <2>2. lock = r /\ Checkpoint(ck) /\ (~skewed => ck.pending = "none")
    BY <1>2, <2>1, AtWork
  <2>3. /\ Shaped(ck') /\ ck'.active = FALSE /\ ck'.model = ck.model
        /\ ck'.pending = ck.pending
    BY <1>1, <2>1 DEF Shaped
  <2>4. Checkpoint(ck') BY <2>2, <2>3 DEF Checkpoint
  <2> QED BY <2>1, <2>2, <2>3, <2>4, EndKeepsCkInv
<1>10. CASE PrepareContext(r)
  <2>1. At(r, "context") /\ Goto(r, "plan") /\ Keeps
    BY <1>10 DEF PrepareContext
  <2>2. PICK e : ck' = [ck EXCEPT !.experience = e]
    BY <1>10 DEF PrepareContext
  <2>3. Same /\ ck'.pending = ck.pending BY <1>1, <2>2 DEF Shaped
  <2> QED BY <1>2, <2>1, <2>3, NodeGoesOn
<1>11. CASE Design(r)
  <2>1. At(r, "plan") /\ Goto(r, "over") /\ Keeps
    BY <1>11 DEF Design
  <2>2. PICK e : ck' = [ck EXCEPT !.pending = "design", !.experience = e]
    BY <1>11 DEF Design
  <2>3. Same /\ ck'.pending = "design" BY <1>1, <2>2 DEF Shaped
  <2> QED BY <1>2, <2>1, <2>3, NodeAsks
<1>12. CASE Unclear(r)
  <2>1. /\ At(r, "router") /\ Goto(r, "over") /\ Keeps
        /\ ck' = [ck EXCEPT !.pending = "clarify"]
    BY <1>12 DEF Unclear, Interrupt
  <2>2. Same /\ ck'.pending = "clarify" BY <1>1, <2>1 DEF Shaped
  <2> QED BY <1>2, <2>1, <2>2, NodeAsks
<1>13. CASE Route(r)
  <2>1. At(r, "router") /\ Goto(r, "revision") /\ Keeps
    BY <1>13 DEF Route
  <2>2. PICK types : ck' = Reset(types, types)
    BY <1>13 DEF Route
  <2>3. Same /\ ck'.pending = ck.pending BY <1>1, <2>2 DEF Shaped, Reset
  <2> QED BY <1>2, <2>1, <2>3, NodeGoesOn
<1>14. CASE NothingToRevise(r)
  <2>1. /\ At(r, "router") /\ Goto(r, "over") /\ UNCHANGED <<askVars, skewed, begun, ck>>
        /\ left' = TRUE
    BY <1>14 DEF NothingToRevise, Stop
  <2>2. /\ lock = r /\ Checkpoint(ck)
        /\ ~skewed => /\ begun # 0 => ck.active /\ ck.model = begun
                      /\ ck.pending = "none"
    BY <1>2, <2>1, AtWork
  <2>3. Checkpoint(ck') BY <2>1, <2>2
  <2> QED BY <2>1, <2>2, <2>3, EndKeepsCkInv
<1>15. CASE PrepareRevision(r)
  <2>1. At(r, "revision") /\ Goto(r, "jobs") /\ Keeps
    BY <1>15 DEF PrepareRevision
  <2>2. PICK e : ck' = [ck EXCEPT !.experience = e]
    BY <1>15 DEF PrepareRevision
  <2>3. Same /\ ck'.pending = ck.pending BY <1>1, <2>2 DEF Shaped
  <2> QED BY <1>2, <2>1, <2>3, NodeGoesOn
<1> QED BY <1>3, <1>4, <1>5, <1>6, <1>7, <1>8, <1>9, <1>10, <1>11, <1>12, <1>13, <1>14, <1>15

\* A step of which neither the requests nor the checkpoint nor the runs take part.
LEMMA NothingMoves ==
  ASSUME TurnInv, CkInv, UNCHANGED <<askVars, ck, turn, lock, skewed, begun, left>>
  PROVE  TurnInv' /\ CkInv'
BY DEF TurnInv, CkInv, Checkpoint, Shaped, Pinned

\* The jobs of a fan-out, and its end.
LEMMA JobNodes ==
  ASSUME TurnInv, CkInv, NEW r \in Runs,
         \/ \E t \in Types : JobStarts(r, t) \/ JobReady(r, t) \/ JobFails(r, t)
         \/ FanIn(r)
  PROVE  TurnInv' /\ CkInv'
<1>1. CASE \E t \in Types : JobStarts(r, t) \/ JobReady(r, t) \/ JobFails(r, t)
  <2>1. UNCHANGED <<askVars, ck, turn, lock, skewed, begun, left>>
    BY <1>1 DEF JobStarts, JobReady, JobFails
  <2> QED BY <2>1, NothingMoves
<1>2. CASE FanIn(r)
  <2>1. PICK result : /\ At(r, "jobs") /\ Goto(r, "over")
                      /\ ck' = [ck EXCEPT !.active = FALSE, !.result = result]
                      /\ begun' = 0 /\ left' = FALSE /\ UNCHANGED <<askVars, skewed>>
    BY <1>2 DEF FanIn, Stop
  <2>2. "jobs" \in Graph \ {"admitted"} BY DEF Graph
  <2>3. lock = r /\ Checkpoint(ck) /\ (~skewed => ck.pending = "none")
    BY <2>1, <2>2, AtWork
  <2>4. /\ Shaped(ck') /\ ck'.active = FALSE /\ ck'.model = ck.model
        /\ ck'.pending = ck.pending
    BY <2>1, <2>3 DEF Checkpoint, Shaped
  <2>5. Checkpoint(ck') BY <2>3, <2>4 DEF Checkpoint
  <2> QED BY <2>1, <2>3, <2>4, <2>5, EndKeepsCkInv
<1> QED BY <1>1, <1>2

-----------------------------------------------------------------------------
(* Ends of runs                                                            *)

\* What LeftOpen says once it is clear where the run is.
LEMMA FailureLeaves ==
  ASSUME TurnInv, CkInv, NEW r \in Runs, lock = r
  PROVE  /\ LeftOpen(r) \in BOOLEAN
         /\ ~skewed => /\ ck.pending # "none" => ck.active
                       /\ ck.active /\ ck.pending = "none" => LeftOpen(r)
<1>1. PICK p \in Graph : turn[r].pc = p BY DEF TurnInv
<1>2. ck.active \in BOOLEAN /\ left \in BOOLEAN BY DEF TurnInv, Checkpoint
<1>3. LeftOpen(r) \in BOOLEAN BY <1>2 DEF LeftOpen
<1>4. CASE p = "admitted"
  <2>1. At(r, "admitted") BY <1>1, <1>4 DEF At
  <2> QED BY <1>2, <1>3, <2>1, EntryKeepsWorkflow DEF LeftOpen
<1>5. CASE p # "admitted"
  <2>1. At(r, p) BY <1>1 DEF At
  <2>2. ~skewed => ck.pending = "none" BY <1>5, <2>1, AtWork
  <2> QED BY <1>1, <1>2, <1>3, <1>5, <2>2 DEF LeftOpen
<1> QED BY <1>4, <1>5

\* Errors, settlement and cancels.
LEMMA EndsTurn ==
  ASSUME TurnInv, CkInv, NEW r \in Runs,
         GraphFails(r) \/ Settle(r) \/ Cancel(r) \/ CancelTooEarly(r)
  PROVE  TurnInv' /\ CkInv'
<1> USE TurnAssumption
<1>1. CASE GraphFails(r)
  <2>1. /\ lock = r /\ Goto(r, "over") /\ left' = LeftOpen(r)
        /\ UNCHANGED <<askVars, ck, begun, skewed>>
    BY <1>1 DEF GraphFails, Working
  <2>2. Checkpoint(ck) /\ Checkpoint(ck')
    BY <2>1 DEF TurnInv, Checkpoint, Shaped
  <2>3. /\ left' \in BOOLEAN
        /\ ~skewed => /\ ck.pending # "none" => ck.active
                      /\ ck.active /\ ck.pending = "none" => left'
    BY <2>1, FailureLeaves
  <2>4. ~skewed => (begun # 0 => ck.active /\ ck.model = begun)
    BY DEF CkInv
  <2> QED BY <2>1, <2>2, <2>3, <2>4, EndKeepsCkInv
<1>2. CASE Settle(r)
  <2>1. /\ turn[r].pc = "over" /\ turn' = [turn EXCEPT ![r] = Settled]
        /\ open' = IF open = r THEN 0 ELSE open
        /\ UNCHANGED <<config, post, ck, lock, begun, left, skewed>>
    BY <1>2 DEF Settle
  <2>2. Settled \in Turns /\ Settled.pc = "settled" BY DEF Settled, NoTurn, Turns, Pcs
  <2>3. /\ turn' \in [Runs -> Turns] /\ turn'[r].pc = "settled"
        /\ \A q \in Runs \ {r} : turn'[q] = turn[q]
    BY <2>1, <2>2 DEF TurnInv
  <2>4. TurnInv'
    BY <2>1, <2>3 DEF TurnInv, Checkpoint, Shaped, Graph
  <2>5. CkInv'
    BY <2>1, <2>3 DEF CkInv, Graph, Pinned
  <2> QED BY <2>4, <2>5
<1>3. CASE Cancel(r)
  <2>1. /\ open = r /\ turn' = [turn EXCEPT ![r] = Settled] /\ open' = 0
        /\ lock' = IF lock = r THEN 0 ELSE lock
        /\ ck' = Closed /\ begun' = 0 /\ left' = FALSE
        /\ UNCHANGED <<config, post, skewed>>
    BY <1>3 DEF Cancel, Working
  <2>2. Settled \in Turns /\ Settled.pc = "settled" BY DEF Settled, NoTurn, Turns, Pcs
  <2>3. /\ turn' \in [Runs -> Turns] /\ turn'[r].pc = "settled"
        /\ \A q \in Runs \ {r} : turn'[q] = turn[q]
    BY <2>1, <2>2 DEF TurnInv
  <2>4. /\ Checkpoint(ck') /\ ck'.active = FALSE /\ ck'.pending = "none"
    BY <2>1 DEF Closed, TurnInv, Checkpoint, Shaped
  <2>5. \A q \in Runs : turn'[q].pc \in Graph <=> lock' = q
    BY <2>1, <2>3 DEF TurnInv, Graph
  <2>6. turn[r].pc # "new" /\ r # 0 BY <2>1 DEF TurnInv
  <2>7. post.pc # "none" => \E q \in Runs : turn'[q].pc = "new"
    BY <2>3, <2>6 DEF TurnInv
  <2>8. \A q \in Runs : turn'[q].pc \in Graph \cup {"accepted"} => turn'[q].now \in Configs
    BY <2>3 DEF TurnInv, Graph
  <2>9. TurnInv'
    BY <2>1, <2>3, <2>4, <2>5, <2>7, <2>8 DEF TurnInv
  <2>10. ~skewed => \A q \in Runs : turn'[q].pc \notin Graph \cup {"accepted"}
    BY <2>1, <2>3 DEF CkInv, Graph
  <2>11. CkInv'
    BY <2>1, <2>4, <2>10 DEF CkInv, Graph
  <2> QED BY <2>9, <2>11
<1>4. CASE CancelTooEarly(r)
  <2>1. /\ ck' = Closed /\ begun' = 0 /\ left' = FALSE /\ open' = 0 /\ skewed' = TRUE
        /\ UNCHANGED <<config, post, turn, lock>>
    BY <1>4 DEF CancelTooEarly
  <2>2. Checkpoint(ck')
    BY <2>1 DEF Closed, TurnInv, Checkpoint, Shaped
  <2>3. TurnInv' BY <2>1, <2>2 DEF TurnInv
  <2> QED BY <2>1, <2>3 DEF CkInv
<1> QED BY <1>1, <1>2, <1>3, <1>4

\* The process ends, and the next one starts.
LEMMA RestartTurn ==
  ASSUME TurnInv, CkInv, Restart
  PROVE  TurnInv' /\ CkInv'
<1> USE TurnAssumption
<1>1. /\ config' \in Configs /\ post' = NoPost /\ open' = 0 /\ lock' = 0
      /\ turn' = [r \in Runs |-> IF turn[r].pc = "new" THEN NoTurn ELSE Settled]
      /\ left' = IF lock # 0 THEN LeftOpen(lock) ELSE left
      /\ UNCHANGED <<ck, begun, skewed>>
  BY DEF Restart
<1>2. /\ NoTurn \in Turns /\ Settled \in Turns
      /\ NoTurn.pc = "new" /\ Settled.pc = "settled"
  BY DEF Settled, NoTurn, Turns, Pcs
<1>3. /\ turn' \in [Runs -> Turns] /\ \A q \in Runs : turn'[q].pc \in {"new", "settled"}
  BY <1>1, <1>2
<1>4. /\ left' \in BOOLEAN
      /\ ~skewed => /\ ck.pending # "none" => ck.active
                    /\ ck.active /\ ck.pending = "none" => left'
  <2>1. CASE lock # 0
    <3>1. PICK r \in Runs : r = lock BY <2>1 DEF TurnInv
    <3> QED BY <1>1, <2>1, <3>1, FailureLeaves
  <2>2. CASE lock = 0
    <3>1. \A q \in Runs : turn[q].pc \notin Graph BY <2>2 DEF TurnInv
    <3>2. left \in BOOLEAN BY DEF TurnInv
    <3> QED BY <1>1, <2>2, <3>1, <3>2 DEF CkInv
  <2> QED BY <2>1, <2>2
<1>5. Checkpoint(ck') BY <1>1 DEF TurnInv, Checkpoint, Shaped
<1>6. TurnInv'
  BY <1>1, <1>3, <1>4, <1>5 DEF TurnInv, Graph, NoPost
<1>7. CkInv'
  BY <1>1, <1>3, <1>4 DEF CkInv, Graph
<1> QED BY <1>6, <1>7

-----------------------------------------------------------------------------
(* Every step                                                              *)

\* Every step keeps the invariant.
LEMMA NextTurn == TurnInv /\ CkInv /\ [Next]_vars => TurnInv' /\ CkInv'
<1> SUFFICES ASSUME TurnInv, CkInv, [Next]_vars PROVE TurnInv' /\ CkInv'
  OBVIOUS
<1>1. CASE Ask \/ Read \/ Accept \/ Refuse
  BY <1>1, RequestsTurn
<1>2. ASSUME NEW r \in Runs, Admit(r) PROVE TurnInv' /\ CkInv'
  BY <1>2, AdmitTurn
<1>3. ASSUME NEW r \in Runs, Node(r) PROVE TurnInv' /\ CkInv'
  BY <1>3, EntryNodes, MiddleNodes, JobNodes DEF Node
<1>4. ASSUME NEW r \in Runs, GraphFails(r) \/ Settle(r) \/ Cancel(r) \/ CancelTooEarly(r)
      PROVE TurnInv' /\ CkInv'
  BY <1>4, EndsTurn
<1>5. CASE Restart
  BY <1>5, RestartTurn
<1>6. CASE UNCHANGED vars
  BY <1>6, NothingMoves DEF vars
<1> QED BY <1>1, <1>2, <1>3, <1>4, <1>5, <1>6 DEF Next

\* A run that no other run or too early cancel interfered with keeps the configuration its
\* workflow began with, through questions, approvals, errors and restarts of the process
\* with another configuration (RunModelEnvelope.selected, begin_workflow).
THEOREM ModelIsKept == Spec => []WorkflowKeepsModel
<1>1. CkInv => WorkflowKeepsModel BY DEF CkInv, WorkflowKeepsModel
<1> QED BY <1>1, InitTurn, NextTurn, PTL DEF Spec

\* Between runs a workflow is open exactly as long as a question to the user is pending,
\* unless a run ended without closing it.
THEOREM QuestionsAreOpen == Spec => []OpenWorkflowIsPending
<1>1. TurnInv /\ CkInv => OpenWorkflowIsPending
  <2>1. TurnInv /\ lock = 0 => \A r \in Runs : turn[r].pc \notin Graph
    BY TurnAssumption DEF TurnInv
  <2> QED BY <2>1 DEF CkInv, OpenWorkflowIsPending
<1> QED BY <1>1, InitTurn, NextTurn, PTL DEF Spec

-----------------------------------------------------------------------------
(* Artifacts, their jobs and the report                                    *)

\* where the graph of the run that holds the lock is
Place == IF lock = 0 THEN "idle" ELSE turn[lock].pc

ArtifactRow ==
  [type : Types, run : Runs \cup {0}, status : {"running", "ready", "failed"},
   current : BOOLEAN, revision : Nat, root : Nat]

ArtifactJob ==
  [pc : {"none", "start", "work", "ready", "failed"}, mode : {"none", "create", "revise"},
   id : Nat]

Ready == {i \in DOMAIN artifact : artifact[i].status = "ready"}
Shown == {i \in Ready : artifact[i].current}

\* the ready rows of the root of row i, other than i, are of lower revisions
Tops(i) ==
  \A j \in Ready \ {i} :
    artifact[j].root = artifact[i].root => artifact[j].revision < artifact[i].revision

\* The rows: a root is an earlier row or the row itself, and has one type.
RowsInv ==
  /\ artifact \in Seq(ArtifactRow)
  /\ \A i \in DOMAIN artifact : artifact[i].root \in 1..i
  /\ \A i, j \in DOMAIN artifact :
       artifact[i].root = artifact[j].root => artifact[i].type = artifact[j].type

\* A type with a ready row shows one, unless an artifact of it was lost; what is shown
\* tops its root.
ShownInv ==
  /\ \A i, j \in Shown : artifact[i].type = artifact[j].type => i = j
  /\ \A i \in Ready :
       artifact[i].type \in lost \/ \E j \in Shown : artifact[j].type = artifact[i].type
  /\ \A i \in Shown : Tops(i)

\* what the catalog lists for a type is an artifact of it that tops its root
Good(t) == ck.catalog[t] # 0 => artifact[ck.catalog[t]].type = t /\ Tops(ck.catalog[t])

\* The checkpoint: while a revision may still be asked for, clarified or prepared, the
\* catalog is good.
CatalogInv ==
  /\ ck.catalog \in [Types -> 0..Len(artifact)]
  /\ ck.sources \subseteq Types /\ ck.targets \subseteq Types
  /\ ck.experience \in {"none", "present", "past"}
  /\ Place \notin {"idle", "admitted"} => ck.pending = "none"
  /\ Place \in {"entry", "router", "revision"} \/ ck.pending = "clarify" =>
       \A t \in Types : Good(t)
  /\ ck.pending = "clarify" => Listed # {}
  /\ Place = "revision" => ck.sources # {} /\ ck.sources \subseteq Listed

\* what is known of the job of a type by how far it is
JobKnows(t) ==
  LET id == job[t].id IN
  /\ job[t].pc = "none" => job[t] = NoJob
  /\ job[t].pc = "start" =>
       /\ id = 0 /\ job[t].mode # "none"
       /\ (job[t].mode = "revise" => ck.catalog[t] # 0 /\ Good(t))
  /\ job[t].pc = "work" => id # 0 /\ artifact[id].status = "running" /\ Tops(id)
  /\ job[t].pc \in {"ready", "failed"} /\ id # 0 => artifact[id].status = job[t].pc
  /\ job[t].pc = "ready" => id # 0
  /\ id # 0 => /\ id \in DOMAIN artifact
               /\ artifact[id].type = t /\ artifact[id].run = lock

\* The fan-out has a job for exactly the types it is for.
JobInv ==
  /\ job \in [Types -> ArtifactJob]
  /\ Place = "jobs" =>
       /\ {t \in Types : job[t] # NoJob} = IF ck.sources # {} THEN ck.sources ELSE ck.targets
       /\ \A t \in Types : JobKnows(t)

\* A report is only read while no graph works; a running row has a job that works on it,
\* or was left behind.
ReportInv ==
  /\ lock # 0 => report = NoReport
  /\ {x[1] : x \in report.told} = report.asked
  /\ \A x \in report.told :
       /\ x[2].status \in {"ready", "failed"}
       /\ x[2].id # 0 => /\ x[2].id \in DOMAIN artifact
                         /\ artifact[x[2].id].type = x[1]
                         /\ artifact[x[2].id].run = report.run
                         /\ artifact[x[2].id].status = x[2].status
  /\ \A i \in DOMAIN artifact : artifact[i].status = "running" =>
       \/ artifact[i].run \in cut
       \/ Place = "jobs" /\ artifact[i].run = lock /\ job[artifact[i].type].id = i

\* Who plans has the experience of the present task, or none.
PlanInv ==
  /\ planned # "past"
  /\ Place = "plan" => ck.experience # "past"

WorkInv == RowsInv /\ ShownInv /\ CatalogInv /\ JobInv /\ ReportInv /\ PlanInv

\* A step that leaves the rows alone leaves alone what is said of them.
LEMMA RowsStay ==
  ASSUME RowsInv, ShownInv, artifact' = artifact, lost' = lost
  PROVE  /\ RowsInv' /\ ShownInv' /\ Ready' = Ready
         /\ \A i : Tops(i)' = Tops(i)
<1>1. Ready' = Ready /\ Shown' = Shown BY DEF Ready, Shown
<1>2. \A i : Tops(i)' = Tops(i) BY <1>1 DEF Tops
<1> QED BY <1>1, <1>2 DEF RowsInv, ShownInv

\* A new running row does not change what is ready.
LEMMA RowAppended ==
  ASSUME RowsInv, ShownInv, NEW row \in ArtifactRow, row.status = "running",
         artifact' = Append(artifact, row), lost' = lost,
         row.root \in 1..(Len(artifact) + 1),
         \A i \in DOMAIN artifact : artifact[i].root = row.root => artifact[i].type = row.type
  PROVE  /\ RowsInv' /\ ShownInv' /\ Ready' = Ready
         /\ Len(artifact') = Len(artifact) + 1
         /\ DOMAIN artifact = 1..Len(artifact) /\ Len(artifact) \in Nat
         /\ DOMAIN artifact' = 1..(Len(artifact) + 1)
         /\ \A i \in DOMAIN artifact : artifact'[i] = artifact[i] /\ Tops(i)' = Tops(i)
         /\ artifact'[Len(artifact) + 1] = row
<1> DEFINE n == Len(artifact)
<1>1. /\ artifact \in Seq(ArtifactRow) /\ n \in Nat /\ DOMAIN artifact = 1..n
  BY DEF RowsInv
<1>2. /\ artifact' \in Seq(ArtifactRow) /\ Len(artifact') = n + 1
      /\ DOMAIN artifact' = 1..(n + 1)
      /\ \A i \in 1..n : artifact'[i] = artifact[i]
      /\ artifact'[n + 1] = row
  BY <1>1
<1>3. \A i \in 1..(n + 1) : i \in 1..n \/ i = n + 1
  BY <1>1
<1> HIDE DEF n
<1>4. Ready' = Ready /\ Ready \subseteq 1..n
  <2>1. \A i : i \in Ready' <=> i \in 1..(n + 1) /\ artifact'[i].status = "ready"
    BY <1>2 DEF Ready
  <2>2. \A i : i \in Ready <=> i \in 1..n /\ artifact[i].status = "ready"
    BY <1>1 DEF Ready
  <2>3. \A i \in 1..n : i \in 1..(n + 1) BY <1>1
  <2>4. \A i \in 1..n : i \in Ready' <=> i \in Ready BY <1>2, <2>1, <2>2, <2>3
  <2>5. \A i : i \in Ready' => i \in 1..n BY <1>2, <1>3, <2>1
  <2> QED BY <2>2, <2>4, <2>5
<1>5. Shown' = Shown
  BY <1>2, <1>4 DEF Shown
<1>6. \A i \in 1..n : Tops(i)' = Tops(i)
  BY <1>2, <1>4 DEF Tops
<1>7. RowsInv'
  <2>1. \A i \in 1..n : artifact[i].root \in 1..i /\ artifact[i].root # n + 1
    BY <1>1 DEF RowsInv
  <2>2. \A i \in 1..(n + 1) : artifact'[i].root \in 1..i
    BY <1>2, <1>3, <2>1 DEF n
  <2>3. \A i, j \in 1..(n + 1) :
          artifact'[i].root = artifact'[j].root => artifact'[i].type = artifact'[j].type
    BY <1>1, <1>2, <1>3 DEF RowsInv
  <2> QED BY SMTT(30), <1>2, <2>2, <2>3 DEF RowsInv
<1>8. ShownInv'
  <2>1. \A i \in Ready : artifact'[i] = artifact[i] /\ Tops(i)' = Tops(i)
    BY <1>2, <1>4, <1>6
  <2>2. Shown \subseteq Ready BY DEF Shown
  <2>3. \A i, j \in Shown' : artifact'[i].type = artifact'[j].type => i = j
    <3>1. \A i, j \in Shown : artifact[i].type = artifact[j].type => i = j BY DEF ShownInv
    <3>2. \A i \in Shown : artifact'[i].type = artifact[i].type BY <2>1, <2>2
    <3> TAKE i, j \in Shown'
    <3>3. i \in Shown /\ j \in Shown BY <1>5
    <3>4. artifact'[i].type = artifact[i].type /\ artifact'[j].type = artifact[j].type
      BY <3>2, <3>3
    <3> QED BY <3>1, <3>3, <3>4
  <2>4. \A i \in Ready' :
          artifact'[i].type \in lost' \/ \E j \in Shown' : artifact'[j].type = artifact'[i].type
    <3>1. \A i \in Ready : artifact'[i].type = artifact[i].type BY <2>1
    <3>2. \A i \in Ready :
            artifact[i].type \in lost \/ \E j \in Shown : artifact[j].type = artifact[i].type
      BY DEF ShownInv
    <3> TAKE i \in Ready'
    <3>3. i \in Ready BY <1>4
    <3>4. CASE artifact[i].type \in lost BY <3>1, <3>3, <3>4
    <3>5. CASE \E j \in Shown : artifact[j].type = artifact[i].type
      <4>1. PICK j \in Shown : artifact[j].type = artifact[i].type BY <3>5
      <4>2. j \in Shown' /\ artifact'[j].type = artifact'[i].type
        BY <1>5, <2>2, <3>1, <3>3, <4>1
      <4> QED BY <4>2
    <3> QED BY <3>2, <3>3, <3>4, <3>5
  <2>5. \A i \in Shown' : Tops(i)'
    BY <1>5, <2>1, <2>2 DEF ShownInv
  <2> QED BY <2>3, <2>4, <2>5 DEF ShownInv
<1> QED BY <1>1, <1>2, <1>4, <1>6, <1>7, <1>8 DEF n

\* A row that fails is ready no more; if it was shown, its type is lost.
LEMMA RowFailed ==
  ASSUME RowsInv, ShownInv, NEW id \in DOMAIN artifact,
         artifact' = [artifact EXCEPT ![id] = FailedRow(@)],
         lost' = IF id \in Ready THEN lost \cup {artifact[id].type} ELSE lost
  PROVE  /\ RowsInv' /\ ShownInv' /\ Ready' = Ready \ {id}
         /\ Len(artifact') = Len(artifact) /\ DOMAIN artifact' = DOMAIN artifact
         /\ artifact'[id] = FailedRow(artifact[id])
         /\ \A i \in DOMAIN artifact : i # id => artifact'[i] = artifact[i]
         /\ \A i \in DOMAIN artifact : Tops(i) => Tops(i)'
<1>1. /\ artifact \in Seq(ArtifactRow) /\ Len(artifact) \in Nat
      /\ DOMAIN artifact = 1..Len(artifact) /\ artifact[id] \in ArtifactRow
  BY DEF RowsInv
<1>2. PICK row \in ArtifactRow : row = FailedRow(artifact[id])
  BY <1>1 DEF FailedRow, ArtifactRow
<1>3. /\ row.status = "failed" /\ row.root = artifact[id].root /\ row.type = artifact[id].type
      /\ row.revision = artifact[id].revision
  BY <1>1, <1>2 DEF FailedRow, ArtifactRow
<1>4. /\ artifact' \in Seq(ArtifactRow) /\ Len(artifact') = Len(artifact)
      /\ DOMAIN artifact' = DOMAIN artifact /\ artifact'[id] = row
      /\ \A i \in DOMAIN artifact : i # id => artifact'[i] = artifact[i]
  BY <1>1, <1>2
<1>5. \A i \in DOMAIN artifact : /\ artifact'[i].root = artifact[i].root
                                 /\ artifact'[i].type = artifact[i].type
                                 /\ artifact'[i].revision = artifact[i].revision
  BY <1>3, <1>4
<1>6. Ready' = Ready \ {id}
  BY <1>3, <1>4 DEF Ready
<1>7. Shown' = Shown \ {id}
  BY <1>4, <1>6 DEF Shown, Ready
<1>8. \A i \in DOMAIN artifact : Tops(i) => Tops(i)'
  BY <1>5, <1>6 DEF Tops, Ready
<1>9. RowsInv'
  BY <1>4, <1>5 DEF RowsInv
<1>10. ShownInv'
  <2>1. Shown \subseteq Ready /\ Ready \subseteq DOMAIN artifact BY DEF Shown, Ready
  <2>2. \A i \in Ready \ {id} :
          artifact[i].type \in lost' \/ \E j \in Shown \ {id} : artifact[j].type = artifact[i].type
    <3> SUFFICES ASSUME NEW i \in Ready \ {id}, artifact[i].type \notin lost'
                 PROVE  \E j \in Shown \ {id} : artifact[j].type = artifact[i].type
      OBVIOUS
    <3>1. artifact[i].type \notin lost OBVIOUS
    <3>2. PICK j \in Shown : artifact[j].type = artifact[i].type BY <3>1 DEF ShownInv
    <3>3. j # id BY <2>1, <3>2
    <3> QED BY <3>2, <3>3
  <2>3. \A i, j \in Shown \ {id} : artifact'[i].type = artifact'[j].type => i = j
    BY <1>5, <2>1 DEF ShownInv
  <2>4. \A i \in Shown \ {id} : Tops(i)'
    BY <1>8, <2>1 DEF ShownInv
  <2>5. \A i \in Ready \ {id} :
          artifact'[i].type \in lost' \/ \E j \in Shown \ {id} : artifact'[j].type = artifact'[i].type
    BY <1>5, <2>1, <2>2
  <2> QED BY <1>6, <1>7, <2>3, <2>4, <2>5 DEF ShownInv
<1> QED BY <1>2, <1>4, <1>6, <1>8, <1>9, <1>10

\* A row that tops its root becomes the one its type shows.
LEMMA RowReady ==
  ASSUME RowsInv, ShownInv, NEW t \in Types, NEW id \in DOMAIN artifact,
         artifact[id].type = t, Tops(id), artifact' = MarkedReady(id, t), lost' = lost
  PROVE  /\ RowsInv' /\ ShownInv' /\ Ready' = Ready \cup {id}
         /\ Len(artifact') = Len(artifact) /\ DOMAIN artifact' = DOMAIN artifact
         /\ artifact'[id].status = "ready"
         /\ \A i \in DOMAIN artifact :
              /\ artifact'[i].type = artifact[i].type /\ artifact'[i].run = artifact[i].run
              /\ artifact'[i].root = artifact[i].root
              /\ i # id => artifact'[i].status = artifact[i].status
         /\ \A i \in DOMAIN artifact : artifact[i].type # t /\ Tops(i) => Tops(i)'
<1>1. /\ artifact \in Seq(ArtifactRow) /\ Len(artifact) \in Nat
      /\ DOMAIN artifact = 1..Len(artifact)
      /\ \A i \in DOMAIN artifact : artifact[i] \in ArtifactRow
  BY DEF RowsInv
<1> DEFINE new(i) == IF i = id THEN [artifact[i] EXCEPT !.status = "ready", !.current = TRUE]
                     ELSE [artifact[i] EXCEPT !.current = @ /\ i \notin Superseded(t)]
<1>2. \A i \in DOMAIN artifact :
        /\ new(i) \in ArtifactRow
        /\ new(i).type = artifact[i].type /\ new(i).run = artifact[i].run
        /\ new(i).root = artifact[i].root /\ new(i).revision = artifact[i].revision
        /\ new(i).status = IF i = id THEN "ready" ELSE artifact[i].status
        /\ new(i).current = (i = id \/ (artifact[i].current /\ i \notin Superseded(t)))
  <2> TAKE i \in DOMAIN artifact
  <2>1. artifact[i] \in ArtifactRow BY <1>1
  <2>2. CASE i = id BY <2>1, <2>2 DEF ArtifactRow
  <2>3. CASE i # id
    <3>1. PICK c \in BOOLEAN : c = (artifact[i].current /\ i \notin Superseded(t)) OBVIOUS
    <3>2. new(i) = [artifact[i] EXCEPT !.current = c] BY <2>3, <3>1
    <3> HIDE DEF new
    <3> QED BY <2>1, <2>3, <3>1, <3>2 DEF ArtifactRow
  <2> QED BY <2>2, <2>3
<1>3. /\ artifact' \in Seq(ArtifactRow) /\ Len(artifact') = Len(artifact)
      /\ DOMAIN artifact' = DOMAIN artifact
      /\ \A i \in DOMAIN artifact : artifact'[i] = new(i)
  <2>1. artifact' = [i \in 1..Len(artifact) |-> new(i)] BY <1>1 DEF MarkedReady
  <2> HIDE DEF new
  <2> QED BY <1>1, <1>2, <2>1
<1> HIDE DEF new
<1>4. \A i \in DOMAIN artifact :
        /\ artifact'[i].type = artifact[i].type /\ artifact'[i].run = artifact[i].run
        /\ artifact'[i].root = artifact[i].root /\ artifact'[i].revision = artifact[i].revision
        /\ artifact'[i].status = IF i = id THEN "ready" ELSE artifact[i].status
        /\ artifact'[i].current = (i = id \/ (artifact[i].current /\ i \notin Superseded(t)))
  BY <1>2, <1>3
<1>5. Ready' = Ready \cup {id}
  BY <1>3, <1>4 DEF Ready
<1>6. \A i : i \in Shown' <=> i = id \/ (i \in Shown /\ artifact[i].type # t)
  BY <1>3, <1>4, <1>5 DEF Shown, Ready, Superseded
<1>7. \A i \in DOMAIN artifact : artifact[i].type # t /\ Tops(i) => Tops(i)'
  <2> SUFFICES ASSUME NEW i \in DOMAIN artifact, artifact[i].type # t, Tops(i),
                      NEW j \in Ready' \ {i}, artifact'[j].root = artifact'[i].root
               PROVE  artifact'[j].revision < artifact'[i].revision
    BY DEF Tops
  <2>1. j \in DOMAIN artifact /\ artifact[j].root = artifact[i].root
    BY <1>3, <1>4 DEF Ready
  <2>2. artifact[j].type = artifact[i].type BY <2>1 DEF RowsInv
  <2>3. j \in Ready BY <1>5, <2>2
  <2> QED BY <1>4, <2>1, <2>3 DEF Tops
<1>8. Tops(id)'
  BY <1>4, <1>5 DEF Tops, Ready
<1>9. RowsInv'
  BY <1>3, <1>4 DEF RowsInv
<1>10. ShownInv'
  <2>1. Shown \subseteq Ready /\ Ready \subseteq DOMAIN artifact BY DEF Shown, Ready
  <2>2. \A i, j \in Shown' : artifact'[i].type = artifact'[j].type => i = j
    BY <1>4, <1>6, <2>1 DEF ShownInv
  <2>3. \A i \in Ready' :
          artifact'[i].type \in lost' \/ \E j \in Shown' : artifact'[j].type = artifact'[i].type
    <3> SUFFICES ASSUME NEW i \in Ready', artifact'[i].type \notin lost
                 PROVE  \E j \in Shown' : artifact'[j].type = artifact'[i].type
      OBVIOUS
    <3>1. i \in DOMAIN artifact BY <1>5, <2>1
    <3>2. CASE artifact[i].type = t
      BY <1>4, <1>6, <3>1, <3>2
    <3>3. CASE artifact[i].type # t
      <4>1. i \in Ready BY <1>5, <3>3
      <4>2. PICK j \in Shown : artifact[j].type = artifact[i].type
        BY <1>4, <3>1, <4>1 DEF ShownInv
      <4> QED BY <1>4, <1>6, <2>1, <3>1, <3>3, <4>2
    <3> QED BY <3>2, <3>3
  <2>4. \A i \in Shown' : Tops(i)'
    BY <1>6, <1>7, <1>8, <2>1 DEF ShownInv
  <2> QED BY <2>2, <2>3, <2>4 DEF ShownInv
<1> QED BY <1>3, <1>4, <1>5, <1>7, <1>9, <1>10

\* The lock says where the graph at work is.
LEMMA PlaceIs ==
  ASSUME TurnInv
  PROVE  /\ Place \in Graph \cup {"idle"}
         /\ lock = 0 <=> Place = "idle"
         /\ \A r \in Runs : r # 0
         /\ \A r \in Runs : \A p : At(r, p) => Place = p /\ lock = r /\ lock # 0
<1>1. (\A r \in Runs : r # 0) /\ "idle" \notin Graph
  BY TurnAssumption DEF Graph
<1>2. lock # 0 => lock \in Runs /\ turn[lock].pc \in Graph
  BY DEF TurnInv
<1> QED BY <1>1, <1>2 DEF Place, At

\* Where the graph goes on.
LEMMA PlaceGoes ==
  ASSUME TurnInv, NEW r \in Runs, lock = r \/ (lock = 0 /\ turn[r].pc = "accepted"),
         NEW p \in Graph \cup {"over"}, Goto(r, p)
  PROVE  Place' = (IF p = "over" THEN "idle" ELSE p) /\ lock' = IF p = "over" THEN 0 ELSE r
<1>1. r # 0 /\ "over" \notin Graph
  BY PlaceIs DEF Graph
<1>2. turn' = [turn EXCEPT ![r].pc = p] /\ lock' = IF p = "over" THEN 0 ELSE r
  BY DEF Goto
<1>3. turn'[r].pc = p
  BY <1>2 DEF TurnInv, Turns
<1> QED BY <1>1, <1>2, <1>3 DEF Place

\* A step that leaves rows and report alone, or forgets the report.
LEMMA ReportStays ==
  ASSUME WorkInv, artifact' = artifact, lost' = lost, cut \subseteq cut',
         report' \in {report, NoReport}, lock' # 0 => report' = NoReport,
         Place = "jobs" =>
           lock \in cut' \/ (Place' = "jobs" /\ lock' = lock /\ job' = job)
  PROVE  /\ RowsInv' /\ ShownInv' /\ ReportInv'
         /\ \A i : Tops(i)' = Tops(i)
<1>1. /\ RowsInv' /\ ShownInv'
      /\ \A i : Tops(i)' = Tops(i)
  BY RowsStay DEF WorkInv
<1>2. \A i \in DOMAIN artifact' : artifact'[i].status = "running" =>
        \/ artifact'[i].run \in cut'
        \/ Place' = "jobs" /\ artifact'[i].run = lock' /\ job'[artifact'[i].type].id = i
  BY DEF WorkInv, ReportInv
<1>3. NoReport.told = {} /\ NoReport.asked = {} BY DEF NoReport
<1>4. /\ {x[1] : x \in report'.told} = report'.asked
      /\ \A x \in report'.told :
           /\ x[2].status \in {"ready", "failed"}
           /\ x[2].id # 0 => /\ x[2].id \in DOMAIN artifact'
                             /\ artifact'[x[2].id].type = x[1]
                             /\ artifact'[x[2].id].run = report'.run
                             /\ artifact'[x[2].id].status = x[2].status
  <2>1. CASE report' = report
    BY <2>1 DEF WorkInv, ReportInv
  <2>2. CASE report' = NoReport
    BY <1>3, <2>2
  <2> QED BY <2>1, <2>2
<1>5. ReportInv'
  BY <1>2, <1>4 DEF ReportInv
<1> QED BY <1>1, <1>5

\* A step beside the graph at work: it may forget the question that is pending.
LEMMA WorkBeside ==
  ASSUME WorkInv, Place' = Place, lock' = lock,
         UNCHANGED <<artifact, lost, job, report, planned>>, cut \subseteq cut',
         ck'.catalog = ck.catalog, ck'.sources = ck.sources, ck'.targets = ck.targets,
         ck'.experience = ck.experience, ck'.pending \in {ck.pending, "none"}
  PROVE  WorkInv'
<1>1. report' \in {report, NoReport} /\ (lock' # 0 => report' = NoReport)
  BY DEF WorkInv, ReportInv
<1>2. /\ RowsInv' /\ ShownInv' /\ ReportInv'
      /\ \A i : Tops(i)' = Tops(i)
  BY <1>1, ReportStays
<1>3. Listed' = Listed /\ \A t : Good(t) => Good(t)'
  BY <1>2 DEF Listed, Good
<1>4. CatalogInv'
  BY <1>3 DEF WorkInv, CatalogInv
<1>5. \A t : JobKnows(t) => JobKnows(t)'
  BY <1>2, <1>3 DEF JobKnows
<1>6. JobInv'
  BY <1>5 DEF WorkInv, JobInv
<1>7. PlanInv'
  BY DEF WorkInv, PlanInv
<1> QED BY <1>2, <1>4, <1>6, <1>7 DEF WorkInv

\* The graph at work ends, or is ended.
LEMMA WorkEnds ==
  ASSUME WorkInv, Place' = "idle", lock' = 0, UNCHANGED <<artifact, lost, report>>,
         cut \subseteq cut', Place = "jobs" => lock \in cut', job' \in [Types -> ArtifactJob],
         ck'.catalog = ck.catalog, ck'.sources = ck.sources, ck'.targets = ck.targets,
         ck'.experience \in {"none", "present", "past"}, planned' # "past",
         ck'.pending = "clarify" => ck.pending = "clarify" \/ (Place = "router" /\ Listed # {})
  PROVE  WorkInv'
<1>1. /\ RowsInv' /\ ShownInv' /\ ReportInv'
      /\ \A i : Tops(i)' = Tops(i)
  BY ReportStays
<1>2. Listed' = Listed /\ \A t : Good(t) => Good(t)'
  BY <1>1 DEF Listed, Good
<1>3. CatalogInv'
  BY <1>2 DEF WorkInv, CatalogInv
<1>4. JobInv' /\ PlanInv'
  BY DEF JobInv, PlanInv
<1> QED BY <1>1, <1>3, <1>4 DEF WorkInv

\* The graph at work goes on, not to or from a fan-out.
LEMMA WorkGoesOn ==
  ASSUME WorkInv, Place # "jobs", NEW p \in Graph \ {"jobs"}, Place' = p,
         UNCHANGED <<artifact, lost, cut, job>>, report' = NoReport,
         ck'.catalog \in [Types -> 0..Len(artifact)],
         ck'.sources \subseteq Types, ck'.targets \subseteq Types,
         ck'.experience \in {"none", "present", "past"}, planned' # "past",
         p = "admitted" \/ ck'.pending = "none", p = "plan" => ck'.experience # "past",
         p \in {"entry", "router", "revision"} \/ ck'.pending = "clarify" =>
           \A t \in Types : Good(t)',
         ck'.pending = "clarify" => Listed' # {},
         p = "revision" => ck'.sources # {} /\ ck'.sources \subseteq Listed'
  PROVE  WorkInv'
<1>1. RowsInv' /\ ShownInv' /\ ReportInv'
  BY ReportStays
<1>2. "idle" \notin Graph BY DEF Graph
<1>3. CatalogInv'
  BY <1>2 DEF CatalogInv
<1>4. JobInv' /\ PlanInv'
  BY DEF WorkInv, JobInv, PlanInv
<1> QED BY <1>1, <1>3, <1>4 DEF WorkInv

\* The graph at work starts a fan-out for some types.
LEMMA WorkFansOut ==
  ASSUME WorkInv, Place # "jobs", Place' = "jobs",
         UNCHANGED <<artifact, lost, cut, report, planned>>, report = NoReport,
         NEW types \in SUBSET Types, NEW mode \in {"create", "revise"},
         job' = Jobs(types, mode),
         ck'.catalog = ck.catalog, ck'.sources \subseteq Types, ck'.targets \subseteq Types,
         types = IF ck'.sources # {} THEN ck'.sources ELSE ck'.targets,
         ck'.experience \in {"none", "present", "past"}, ck'.pending = "none",
         mode = "revise" => \A t \in types : ck.catalog[t] # 0 /\ Good(t)
  PROVE  WorkInv'
<1>1. /\ RowsInv' /\ ShownInv' /\ ReportInv'
      /\ \A i : Tops(i)' = Tops(i)
  BY ReportStays
<1>2. \A t : Good(t) => Good(t)'
  BY <1>1 DEF Good
<1>3. CatalogInv'
  BY DEF WorkInv, CatalogInv
<1>4. \A t \in Types : job'[t] = IF t \in types THEN [pc |-> "start", mode |-> mode, id |-> 0]
                                               ELSE NoJob
  BY DEF Jobs
<1>5. /\ job' \in [Types -> ArtifactJob]
      /\ \A t \in Types : job'[t] # NoJob <=> t \in types
  BY <1>4 DEF Jobs, ArtifactJob, NoJob
<1>6. \A t \in Types : JobKnows(t)'
  <2> TAKE t \in Types
  <2>1. CASE t \notin types
    BY <1>4, <2>1 DEF JobKnows, NoJob
  <2>2. CASE t \in types
    <3>1. mode = "revise" => ck'.catalog[t] # 0 /\ Good(t)' BY <1>2, <2>2
    <3> QED BY <1>4, <2>2, <3>1 DEF JobKnows
  <2> QED BY <2>1, <2>2
<1>7. JobInv'
  BY <1>5, <1>6 DEF JobInv
<1>8. PlanInv'
  BY DEF WorkInv, PlanInv
<1> QED BY <1>1, <1>3, <1>7, <1>8 DEF WorkInv

\* Another run's turn does not move the graph at work.
LEMMA PlaceStays ==
  ASSUME TurnInv, lock' = lock, NEW r, NEW x, r # lock \/ lock = 0,
         turn' = [turn EXCEPT ![r] = x] \/ turn' = turn
  PROVE  Place' = Place
<1>1. lock # 0 => lock \in Runs /\ turn \in [Runs -> Turns]
  BY DEF TurnInv
<1>2. lock # 0 => turn'[lock] = turn[lock]
  BY <1>1
<1> QED BY <1>2 DEF Place

\* Requests, the settlement of runs and cancels beside the graph at work.
LEMMA OthersWork ==
  ASSUME TurnInv, WorkInv, NEW r \in Runs,
         \/ Ask \/ Read \/ Accept \/ Refuse \/ Settle(r) \/ CancelTooEarly(r)
         \/ (Cancel(r) /\ lock # r) \/ UNCHANGED vars
  PROVE  WorkInv'
<1>0. Shaped(ck) /\ Place \in Graph \cup {"idle"} BY PlaceIs DEF TurnInv, Checkpoint
<1>1. CASE Ask \/ Read \/ Refuse \/ UNCHANGED vars
  <2>1. UNCHANGED <<ck, turn, lock, job, artifact, report, cut, lost, planned>>
    BY <1>1 DEF Ask, Read, Refuse, vars
  <2>2. Place' = Place BY <2>1 DEF Place
  <2> QED BY <2>1, <2>2, WorkBeside
<1>2. CASE Accept
  <2> DEFINE S == {n \in Runs : turn[n].pc = "new"}
  <2>1. PICK q : q = Min(S) OBVIOUS
  <2>2. q \in Runs /\ turn[q].pc = "new"
    <3>1. post.pc = "read" BY <1>2 DEF Accept
    <3>2. S # {} BY <3>1 DEF TurnInv
    <3>3. S \subseteq Nat BY TurnAssumption
    <3> QED BY <2>1, <3>2, <3>3, MinIsMember
  <2>3. q # lock BY <2>2 DEF TurnInv, Graph
  <2>4. PICK x : turn' = [turn EXCEPT ![q] = x] BY <1>2, <2>1 DEF Accept
  <2>5. UNCHANGED <<ck, lock, job, artifact, report, cut, lost, planned>> BY <1>2 DEF Accept
  <2>6. Place' = Place BY <2>3, <2>4, <2>5, PlaceStays
  <2> QED BY <2>5, <2>6, WorkBeside
<1>3. CASE Settle(r)
  <2>1. /\ turn[r].pc = "over" /\ turn' = [turn EXCEPT ![r] = Settled]
        /\ UNCHANGED <<ck, lock, job, artifact, report, cut, lost, planned>>
    BY <1>3 DEF Settle
  <2>2. r # lock BY <2>1 DEF TurnInv, Graph
  <2>3. Place' = Place BY <2>1, <2>2, PlaceStays
  <2> QED BY <2>1, <2>3, WorkBeside
<1>4. CASE CancelTooEarly(r)
  <2>1. ck' = Closed /\ UNCHANGED <<turn, lock, job, artifact, report, cut, lost, planned>>
    BY <1>4 DEF CancelTooEarly
  <2>2. Place' = Place BY <2>1 DEF Place
  <2>3. /\ ck'.catalog = ck.catalog /\ ck'.sources = ck.sources /\ ck'.targets = ck.targets
        /\ ck'.experience = ck.experience /\ ck'.pending = "none"
    BY <1>0, <2>1 DEF Closed, Shaped
  <2> QED BY <2>1, <2>2, <2>3, WorkBeside
<1>5. CASE Cancel(r) /\ lock # r
  <2>1. /\ ck' = Closed /\ turn' = [turn EXCEPT ![r] = Settled] /\ lock' = lock
        /\ cut' = cut \cup {r} /\ UNCHANGED <<job, artifact, report, lost, planned>>
    BY <1>5 DEF Cancel, Working
  <2>2. Place' = Place BY <1>5, <2>1, PlaceStays
  <2>3. /\ ck'.catalog = ck.catalog /\ ck'.sources = ck.sources /\ ck'.targets = ck.targets
        /\ ck'.experience = ck.experience /\ ck'.pending = "none"
    BY <1>0, <2>1 DEF Closed, Shaped
  <2> QED BY <2>1, <2>2, <2>3, WorkBeside
<1> QED BY <1>1, <1>2, <1>3, <1>4, <1>5

\* no job is one
LEMMA NoJobs == [t \in Types |-> NoJob] \in [Types -> ArtifactJob]
BY DEF NoJob, ArtifactJob

\* The graph at work fails, is cancelled, or ends with its process.
LEMMA EndsWork ==
  ASSUME TurnInv, WorkInv, NEW r \in Runs,
         \/ GraphFails(r) \/ (Cancel(r) /\ lock = r) \/ Restart
  PROVE  WorkInv'
<1>0. /\ Shaped(ck) /\ ck.experience \in {"none", "present", "past"} /\ planned # "past"
      /\ r # 0
  BY PlaceIs DEF TurnInv, Checkpoint, WorkInv, CatalogInv, PlanInv
<1>1. CASE GraphFails(r)
  <2>1. /\ lock = r /\ Goto(r, "over") /\ job' = [t \in Types |-> NoJob]
        /\ cut' = cut \cup {r} /\ UNCHANGED <<ck, artifact, report, lost, planned>>
    BY <1>1 DEF GraphFails, Working
  <2>2. Place' = "idle" /\ lock' = 0 BY <2>1, PlaceGoes
  <2> QED BY <1>0, <2>1, <2>2, NoJobs, WorkEnds
<1>2. CASE Cancel(r) /\ lock = r
  <2>1. /\ ck' = Closed /\ lock' = 0 /\ job' = [t \in Types |-> NoJob]
        /\ cut' = cut \cup {r} /\ UNCHANGED <<artifact, report, lost, planned>>
    BY <1>2 DEF Cancel, Working
  <2>2. Place' = "idle" BY <2>1 DEF Place
  <2>3. /\ ck'.catalog = ck.catalog /\ ck'.sources = ck.sources /\ ck'.targets = ck.targets
        /\ ck'.experience = ck.experience /\ ck'.pending = "none"
    BY <1>0, <2>1 DEF Closed, Shaped
  <2> QED BY <1>0, <1>2, <2>1, <2>2, <2>3, NoJobs, WorkEnds
<1>3. CASE Restart
  <2>1. /\ lock' = 0 /\ job' = [t \in Types |-> NoJob]
        /\ cut' = cut \cup {q \in Runs : turn[q].pc \notin {"new", "over", "settled"}}
        /\ UNCHANGED <<ck, artifact, report, lost, planned>>
    BY <1>3 DEF Restart
  <2>2. Place' = "idle" BY <2>1 DEF Place
  <2>3. Place = "jobs" => lock \in cut'
    <3>1. Place = "jobs" => lock \in Runs /\ turn[lock].pc = "jobs" BY DEF Place, TurnInv
    <3> QED BY <2>1, <3>1
  <2> QED BY <1>0, <2>1, <2>2, <2>3, NoJobs, WorkEnds
<1> QED BY <1>1, <1>2, <1>3

\* the experience kept in the checkpoint stays one of its kind
LEMMA AgedIs == WorkInv => Aged \subseteq {"none", "present", "past"}
BY DEF Aged, WorkInv, CatalogInv

\* what an entry writes, besides the workflow
LEMMA EntryKeepsWork ==
  ASSUME TurnInv, NEW r \in Runs
  PROVE  /\ Shaped(Entered(r)) /\ Entered(r).catalog = ck.catalog
         /\ Entered(r).sources = ck.sources /\ Entered(r).targets = ck.targets
         /\ Entered(r).experience = ck.experience /\ Entered(r).pending = "none"
<1>1. Shaped(ck) BY DEF TurnInv, Checkpoint
<1>2. PICK a : a = (turn[r].workflow # 0) OBVIOUS
<1>3. Entered(r) = [ck EXCEPT !.active = a, !.model = Selected(r), !.pending = "none"]
  BY <1>2 DEF Entered, EntryUpdate
<1>4. PICK c : c = Entered(r) OBVIOUS
<1>5. c = [active |-> a, model |-> Selected(r), pending |-> "none",
           experience |-> ck.experience, catalog |-> ck.catalog,
           sources |-> ck.sources, targets |-> ck.targets, result |-> ck.result]
  BY <1>1, <1>3, <1>4 DEF Shaped
<1> QED BY <1>4, <1>5 DEF Shaped

\* list_latest_ready_current_artifacts_by_thread lists what the types show.
LEMMA CatalogIsGood ==
  ASSUME WorkInv
  PROVE  /\ Catalog \in [Types -> 0..Len(artifact)]
         /\ \A t \in Types : Catalog[t] # 0 =>
              artifact[Catalog[t]].type = t /\ Tops(Catalog[t])
<1>1. /\ DOMAIN artifact = 1..Len(artifact) /\ Len(artifact) \in Nat
      /\ \A i, j \in Shown : artifact[i].type = artifact[j].type => i = j
      /\ \A i \in Shown : Tops(i)
  BY DEF WorkInv, RowsInv, ShownInv
<1>2. ASSUME NEW t \in Types, ReadyCurrent(t) # {}
      PROVE  /\ Max(ReadyCurrent(t)) \in 1..Len(artifact)
             /\ artifact[Max(ReadyCurrent(t))].type = t /\ Tops(Max(ReadyCurrent(t)))
  <2>1. \A i \in ReadyCurrent(t) : i \in Shown /\ artifact[i].type = t /\ i \in 1..Len(artifact)
    BY <1>1 DEF ReadyCurrent, Shown, Ready
  <2>2. PICK i \in ReadyCurrent(t) : \A j \in ReadyCurrent(t) : j = i
    BY <1>1, <1>2, <2>1
  <2>3. i >= i BY <1>1, <2>1
  <2>4. Max(ReadyCurrent(t)) = i BY <2>2, <2>3 DEF Max
  <2> QED BY <1>1, <2>1, <2>2, <2>4
<1>3. \A t \in Types : Catalog[t] = IF ReadyCurrent(t) = {} THEN 0 ELSE Max(ReadyCurrent(t))
  BY DEF Catalog
<1>4. 0 \in 0..Len(artifact) /\ \A i \in 1..Len(artifact) : i \in 0..Len(artifact)
  BY <1>1
<1>5. \A t \in Types : Catalog[t] \in 0..Len(artifact)
  BY <1>2, <1>3, <1>4
<1>6. Catalog = [t \in Types |-> Catalog[t]]
  BY DEF Catalog
<1>7. Catalog \in [Types -> 0..Len(artifact)]
  BY <1>5, <1>6
<1> QED BY <1>2, <1>3, <1>7

\* A run takes the lock and enters its graph.
LEMMA EntryWork ==
  ASSUME TurnInv, WorkInv, NEW r \in Runs,
         \/ Admit(r) \/ Fresh(r) \/ ApprovesNothing(r) \/ Answered(r)
         \/ MetadataApproved(r) \/ DesignApproved(r) \/ ClarifyApproved(r)
  PROVE  WorkInv'
<1>0. /\ ck.catalog \in [Types -> 0..Len(artifact)]
      /\ ck.sources \subseteq Types /\ ck.targets \subseteq Types
      /\ ck.experience \in {"none", "present", "past"} /\ planned # "past"
      /\ job \in [Types -> ArtifactJob] /\ Listed \subseteq Types
      /\ Aged \subseteq {"none", "present", "past"} /\ Shaped(ck)
      /\ ck.pending \in Approvals \cup {"none", "input"}
      /\ ck.pending = "clarify" => Listed # {} /\ \A t \in Types : Good(t)
  BY AgedIs DEF WorkInv, CatalogInv, JobInv, PlanInv, Listed, TurnInv, Checkpoint
<1>1. /\ Shaped(Entered(r)) /\ Entered(r).catalog = ck.catalog
      /\ Entered(r).sources = ck.sources /\ Entered(r).targets = ck.targets
      /\ Entered(r).experience = ck.experience /\ Entered(r).pending = "none"
  BY EntryKeepsWork
<1>2. \A p : At(r, p) => Place = p /\ lock = r /\ lock # 0 /\ report = NoReport
  BY PlaceIs DEF WorkInv, ReportInv
<1>3. \A p \in Graph : At(r, "admitted") /\ Goto(r, p) => Place' = p
  BY <1>2, PlaceGoes DEF Graph
<1>4. {"admitted", "entry", "intake", "context", "router", "revision", "jobs"} \subseteq Graph
  BY DEF Graph
<1>5. CASE Admit(r)
  <2>1. /\ turn[r].pc = "accepted" /\ lock = 0 /\ Goto(r, "admitted")
        /\ report' = NoReport /\ planned' = "none"
        /\ UNCHANGED <<ck, job, artifact, cut, lost>>
    BY <1>5 DEF Admit
  <2>2. Place' = "admitted" /\ Place = "idle" BY <1>4, <2>1, PlaceGoes, PlaceIs DEF Graph
  <2>3. Listed' = Listed /\ \A t : Good(t)' = Good(t) BY <2>1 DEF Listed, Good, Tops, Ready
  <2> QED BY <1>0, <1>4, <2>1, <2>2, <2>3, WorkGoesOn
<1>6. CASE Fresh(r)
  <2>1. /\ At(r, "admitted") /\ Goto(r, "entry") /\ ck.pending = "none"
        /\ UNCHANGED <<job, artifact, cut, lost, report, planned>>
    BY <1>6 DEF Fresh, Resumable
  <2>2. PICK e \in Aged : ck' = [Entered(r) EXCEPT !.catalog = Catalog, !.experience = e]
    BY <1>6 DEF Fresh
  <2>3. /\ ck'.catalog = Catalog /\ ck'.experience = e /\ ck'.sources = ck.sources
        /\ ck'.targets = ck.targets /\ ck'.pending = "none"
    BY <1>1, <2>2 DEF Shaped
  <2>4. Place' = "entry" /\ Place = "admitted" BY <1>2, <1>3, <1>4, <2>1
  <2>5. \A t \in Types : Good(t)'
    BY <2>1, <2>3, CatalogIsGood DEF Good, Tops, Ready
  <2> QED BY <1>0, <1>2, <1>4, <2>1, <2>3, <2>4, <2>5, CatalogIsGood, WorkGoesOn
<1>7. CASE ApprovesNothing(r)
  <2>1. /\ At(r, "admitted") /\ Goto(r, "over")
        /\ UNCHANGED <<ck, job, artifact, cut, lost, report, planned>>
    BY <1>7 DEF ApprovesNothing
  <2>2. Place' = "idle" /\ lock' = 0 /\ Place = "admitted" BY <1>2, <2>1, PlaceGoes
  <2> QED BY <1>0, <2>1, <2>2, WorkEnds
<1>8. CASE Answered(r)
  <2>1. /\ At(r, "admitted") /\ ck.pending # "none"
        /\ UNCHANGED <<job, artifact, cut, lost, report, planned>>
    BY <1>8 DEF Answered, Resumable
  <2>2. PICK e \in Aged : ck' = [Entered(r) EXCEPT !.experience = e]
    BY <1>8 DEF Answered
  <2>3. /\ ck'.catalog = ck.catalog /\ ck'.experience = e /\ ck'.sources = ck.sources
        /\ ck'.targets = ck.targets /\ ck'.pending = "none"
    BY <1>1, <2>2 DEF Shaped
  <2>4. PICK p \in {"intake", "context", "router"} :
          Goto(r, p) /\ (p = "router" => ck.pending = "clarify")
    BY <1>0, <1>8, <2>1 DEF Answered, Approvals
  <2>5. Place' = p /\ Place = "admitted" BY <1>2, <1>3, <1>4, <2>1, <2>4
  <2>6. \A t : Good(t)' = Good(t) BY <2>1, <2>3 DEF Good, Tops, Ready
  <2> QED BY <1>0, <1>2, <1>4, <2>1, <2>3, <2>4, <2>5, <2>6, WorkGoesOn
<1>9. CASE MetadataApproved(r)
  <2>1. /\ At(r, "admitted") /\ Goto(r, "context") /\ ck' = Entered(r)
        /\ UNCHANGED <<job, artifact, cut, lost, report, planned>>
    BY <1>9 DEF MetadataApproved
  <2>2. Place' = "context" /\ Place = "admitted" BY <1>2, <1>3, <1>4, <2>1
  <2> QED BY <1>0, <1>1, <1>2, <1>4, <2>1, <2>2, WorkGoesOn
<1>10. CASE DesignApproved(r)
  <2>1. At(r, "admitted") /\ UNCHANGED <<artifact, cut, lost, report, planned>>
    BY <1>10 DEF DesignApproved
  <2>2. CASE Stop(r, Entered(r)) /\ UNCHANGED job
    <3>1. Place' = "idle" /\ lock' = 0 /\ Place = "admitted"
      BY <1>2, <2>1, <2>2, PlaceGoes DEF Stop
    <3>2. ck' = Entered(r) BY <2>2 DEF Stop
    <3> QED BY <1>0, <1>1, <2>1, <2>2, <3>1, <3>2, WorkEnds
  <2>3. CASE \E types \in (SUBSET Types) \ {{}} :
               /\ Goto(r, "jobs") /\ job' = Jobs(types, "create")
               /\ ck' = [Reset(types, {}) EXCEPT !.active = Entered(r).active,
                                                 !.model = Selected(r), !.pending = "none"]
    <3>1. PICK a : a = Entered(r).active OBVIOUS
    <3>2. PICK types \in SUBSET Types :
            /\ Goto(r, "jobs") /\ job' = Jobs(types, "create")
            /\ ck' = [Reset(types, {}) EXCEPT !.active = a, !.model = Selected(r),
                                              !.pending = "none"]
      BY <2>3, <3>1
    <3>3. /\ ck'.catalog = ck.catalog /\ ck'.experience = ck.experience /\ ck'.sources = {}
          /\ ck'.targets = types /\ ck'.pending = "none"
      BY <1>0, <3>2 DEF Shaped, Reset
    <3>4. Place' = "jobs" /\ Place = "admitted" BY <1>2, <1>3, <1>4, <2>1, <3>2
    <3>5. types = IF ck'.sources # {} THEN ck'.sources ELSE ck'.targets BY <3>3
    <3> QED BY <1>0, <1>2, <2>1, <3>2, <3>3, <3>4, <3>5, WorkFansOut
  <2> QED BY <1>10, <2>2, <2>3 DEF DesignApproved
<1>11. CASE ClarifyApproved(r)
  <2>1. /\ At(r, "admitted") /\ Goto(r, "revision") /\ ck.pending = "clarify"
        /\ UNCHANGED <<job, artifact, cut, lost, report, planned>>
    BY <1>11 DEF ClarifyApproved
  <2>2. PICK a : a = Entered(r).active OBVIOUS
  <2>3. ck' = [Reset(Listed, Listed) EXCEPT !.active = a, !.model = Selected(r),
                                            !.pending = "none"]
    BY <1>11, <2>2 DEF ClarifyApproved
  <2>4. /\ ck'.catalog = ck.catalog /\ ck'.experience = ck.experience /\ ck'.sources = Listed
        /\ ck'.targets \subseteq Types /\ ck'.pending = "none"
    BY <1>0, <2>3 DEF Shaped, Reset
  <2>5. Place' = "revision" /\ Place = "admitted" BY <1>2, <1>3, <1>4, <2>1
  <2>6. Listed' = Listed /\ \A t : Good(t)' = Good(t)
    BY <2>1, <2>4 DEF Listed, Good, Tops, Ready
  <2> QED BY <1>0, <1>2, <1>4, <2>1, <2>4, <2>5, <2>6, WorkGoesOn
<1> QED BY <1>5, <1>6, <1>7, <1>8, <1>9, <1>10, <1>11

\* The nodes that prepare, route and ask.
LEMMA MiddleWork ==
  ASSUME TurnInv, WorkInv, NEW r \in Runs,
         \/ Chat(r) \/ Teach(r) \/ Revise(r) \/ Again(r) \/ AskMore(r) \/ Submit(r)
         \/ GiveUp(r) \/ PrepareContext(r) \/ Design(r) \/ Unclear(r) \/ Route(r)
         \/ NothingToRevise(r) \/ PrepareRevision(r)
  PROVE  WorkInv'
<1> DEFINE Rest == UNCHANGED <<artifact, lost, cut, report>>
           Kept == /\ ck'.catalog = ck.catalog /\ ck'.sources = ck.sources
                   /\ ck'.targets = ck.targets
<1>0. /\ ck.catalog \in [Types -> 0..Len(artifact)]
      /\ ck.sources \subseteq Types /\ ck.targets \subseteq Types
      /\ ck.experience \in {"none", "present", "past"} /\ planned # "past"
      /\ job \in [Types -> ArtifactJob] /\ Listed \subseteq Types
      /\ Aged \subseteq {"none", "present", "past"} /\ Shaped(ck)
  BY AgedIs DEF WorkInv, CatalogInv, JobInv, PlanInv, Listed, TurnInv, Checkpoint
<1>1. \A p : At(r, p) => Place = p /\ lock = r /\ lock # 0 /\ report = NoReport
  BY PlaceIs DEF WorkInv, ReportInv
<1>2. /\ Place \in {"entry", "router", "revision"} => \A t \in Types : Good(t)
      /\ Place \notin {"idle", "admitted"} => ck.pending = "none"
      /\ Place = "revision" => ck.sources # {} /\ ck.sources \subseteq Listed
      /\ Place = "plan" => ck.experience # "past"
  BY DEF WorkInv, CatalogInv, PlanInv
<1>3. {"entry", "intake", "context", "plan", "router", "revision", "jobs"} \subseteq Graph
  BY DEF Graph
<1>4. ASSUME Rest, Kept PROVE Listed' = Listed /\ \A t : Good(t)' = Good(t)
  BY <1>4 DEF Listed, Good, Tops, Ready
<1>5. CASE Chat(r)
  <2>1. At(r, "entry") /\ Goto(r, "over") /\ Rest /\ UNCHANGED <<ck, job, planned>>
    BY <1>5 DEF Chat, Stop
  <2>2. Place' = "idle" /\ lock' = 0 /\ Place = "entry" BY <1>1, <2>1, PlaceGoes
  <2> QED BY <1>0, <2>1, <2>2, WorkEnds
<1>6. CASE Teach(r) \/ Revise(r) \/ Again(r)
  <2>1. PICK p \in {"entry", "intake"}, q \in {"intake", "router"}, e \in {"none", ck.experience} :
          At(r, p) /\ Begin(r, q, e) /\ (q = "router" => p = "entry")
    BY <1>6 DEF Teach, Revise, Again
  <2>2. PICK n : n = turn[r].now OBVIOUS
  <2>3. /\ Goto(r, q) /\ Rest /\ UNCHANGED <<job, planned>>
        /\ ck' = [ck EXCEPT !.active = TRUE, !.model = n, !.experience = e]
    BY <2>1, <2>2 DEF Begin
  <2>4. Kept /\ ck'.experience = e /\ ck'.pending = ck.pending
    BY <1>0, <2>3 DEF Shaped
  <2>5. Place' = q /\ Place = p BY <1>1, <1>3, <2>1, <2>3, PlaceGoes DEF Graph
  <2>6. ck'.pending = "none" BY <1>2, <2>4, <2>5
  <2>7. Listed' = Listed /\ \A t : Good(t)' = Good(t) BY <1>4, <2>3, <2>4
  <2> QED BY <1>0, <1>1, <1>2, <1>3, <2>1, <2>3, <2>4, <2>5, <2>6, <2>7, WorkGoesOn
<1>7. CASE AskMore(r)
  <2>1. /\ At(r, "intake") /\ Goto(r, "over") /\ Rest /\ UNCHANGED <<job, planned>>
        /\ ck' = [ck EXCEPT !.pending = "input"]
    BY <1>7 DEF AskMore, Interrupt
  <2>2. Kept /\ ck'.experience = ck.experience /\ ck'.pending = "input"
    BY <1>0, <2>1 DEF Shaped
  <2>3. Place' = "idle" /\ lock' = 0 /\ Place = "intake" BY <1>1, <2>1, PlaceGoes
  <2> QED BY <1>0, <2>1, <2>2, <2>3, WorkEnds
<1>8. CASE Submit(r)
  <2>1. At(r, "intake") /\ Goto(r, "over") /\ Rest /\ UNCHANGED <<job, planned>>
    BY <1>8 DEF Submit
  <2>2. PICK e \in Aged : ck' = [ck EXCEPT !.pending = "metadata", !.experience = e]
    BY <1>8 DEF Submit
  <2>3. Kept /\ ck'.experience = e /\ ck'.pending = "metadata"
    BY <1>0, <2>2 DEF Shaped
  <2>4. Place' = "idle" /\ lock' = 0 /\ Place = "intake" BY <1>1, <2>1, PlaceGoes
  <2> QED BY <1>0, <2>1, <2>3, <2>4, WorkEnds
<1>9. CASE GiveUp(r)
  <2>1. /\ At(r, "intake") /\ Goto(r, "over") /\ Rest /\ UNCHANGED <<job, planned>>
        /\ ck' = [ck EXCEPT !.active = FALSE]
    BY <1>9 DEF GiveUp, Stop
  <2>2. Kept /\ ck'.experience = ck.experience /\ ck'.pending = ck.pending
    BY <1>0, <2>1 DEF Shaped
  <2>3. Place' = "idle" /\ lock' = 0 /\ Place = "intake" BY <1>1, <2>1, PlaceGoes
  <2> QED BY <1>0, <2>1, <2>2, <2>3, WorkEnds
<1>10. CASE PrepareContext(r)
  <2>1. At(r, "context") /\ Goto(r, "plan") /\ Rest /\ UNCHANGED <<job, planned>>
    BY <1>10 DEF PrepareContext
  <2>2. PICK e \in {"present", "none"} : ck' = [ck EXCEPT !.experience = e]
    BY <1>10 DEF PrepareContext, Ensured
  <2>3. Kept /\ ck'.experience = e /\ ck'.pending = ck.pending
    BY <1>0, <2>2 DEF Shaped
  <2>4. Place' = "plan" /\ Place = "context" BY <1>1, <1>3, <2>1, PlaceGoes DEF Graph
  <2>5. ck'.pending = "none" BY <1>2, <2>3, <2>4
  <2> QED BY <1>0, <1>1, <1>3, <2>1, <2>3, <2>4, <2>5, WorkGoesOn
<1>11. CASE Design(r)
  <2>1. PICK e : e = IF ck.experience = "none" THEN Ensured ELSE ck.experience OBVIOUS
  <2>2. /\ At(r, "plan") /\ Goto(r, "over") /\ Rest /\ job' = job /\ planned' = e
        /\ ck' = [ck EXCEPT !.pending = "design", !.experience = e]
    BY <1>11, <2>1 DEF Design
  <2>3. Kept /\ ck'.experience = e /\ ck'.pending = "design"
    BY <1>0, <2>2 DEF Shaped
  <2>4. Place' = "idle" /\ lock' = 0 /\ Place = "plan" BY <1>1, <2>2, PlaceGoes
  <2>5. e \in {"none", "present", "past"} /\ e # "past" BY <1>0, <1>2, <2>1, <2>4 DEF Ensured
  <2> QED BY <1>0, <2>2, <2>3, <2>4, <2>5, WorkEnds
<1>12. CASE Unclear(r)
  <2>1. /\ At(r, "router") /\ Goto(r, "over") /\ Rest /\ UNCHANGED <<job, planned>>
        /\ ck' = [ck EXCEPT !.pending = "clarify"] /\ Cardinality(Listed) > 1
    BY <1>12 DEF Unclear, Interrupt
  <2>2. Kept /\ ck'.experience = ck.experience /\ ck'.pending = "clarify"
    BY <1>0, <2>1 DEF Shaped
  <2>3. Listed # {} BY <2>1, FS_EmptySet
  <2>4. Place' = "idle" /\ lock' = 0 /\ Place = "router" BY <1>1, <2>1, PlaceGoes
  <2> QED BY <1>0, <2>1, <2>2, <2>3, <2>4, WorkEnds
<1>13. CASE Route(r)
  <2>1. At(r, "router") /\ Goto(r, "revision") /\ Rest /\ UNCHANGED <<job, planned>>
    BY <1>13 DEF Route
  <2>2. PICK types \in (SUBSET Listed) \ {{}} : ck' = Reset(types, types)
    BY <1>13 DEF Route
  <2>3. /\ ck'.catalog = ck.catalog /\ ck'.sources = types /\ ck'.targets \subseteq Types
        /\ ck'.experience = ck.experience /\ ck'.pending = ck.pending
    <3>1. types \subseteq Types /\ types # {} BY <1>0
    <3> QED BY <1>0, <2>2, <3>1 DEF Shaped, Reset
  <2>4. Place' = "revision" /\ Place = "router" BY <1>1, <1>3, <2>1, PlaceGoes DEF Graph
  <2>5. ck'.pending = "none" BY <1>2, <2>3, <2>4
  <2>6. Listed' = Listed /\ \A t : Good(t)' = Good(t)
    BY <2>1, <2>3 DEF Listed, Good, Tops, Ready
  <2>7. \A t \in Types : Good(t)' BY <1>2, <2>4, <2>6
  <2>8. ck'.sources # {} /\ ck'.sources \subseteq Types /\ ck'.sources \subseteq Listed'
    BY <1>0, <2>3, <2>6
  <2> QED BY <1>0, <1>1, <1>3, <2>1, <2>3, <2>4, <2>5, <2>7, <2>8, WorkGoesOn
<1>14. CASE NothingToRevise(r)
  <2>1. At(r, "router") /\ Goto(r, "over") /\ Rest /\ UNCHANGED <<ck, job, planned>>
    BY <1>14 DEF NothingToRevise, Stop
  <2>2. Place' = "idle" /\ lock' = 0 /\ Place = "router" BY <1>1, <2>1, PlaceGoes
  <2> QED BY <1>0, <2>1, <2>2, WorkEnds
<1>15. CASE PrepareRevision(r)
  <2>1. /\ At(r, "revision") /\ Goto(r, "jobs") /\ Rest /\ planned' = planned
        /\ job' = Jobs(ck.sources, "revise")
    BY <1>15 DEF PrepareRevision
  <2>2. PICK e \in {"none", "present", "past"} : ck' = [ck EXCEPT !.experience = e]
    BY <1>0, <1>15 DEF PrepareRevision
  <2>3. Kept /\ ck'.experience = e /\ ck'.pending = ck.pending
    BY <1>0, <2>2 DEF Shaped
  <2>4. Place' = "jobs" /\ Place = "revision" BY <1>1, <1>3, <2>1, PlaceGoes DEF Graph
  <2>5. ck'.pending = "none" /\ ck.sources # {} BY <1>2, <2>3, <2>4
  <2>6. \A t \in ck.sources : ck.catalog[t] # 0 /\ Good(t) BY <1>0, <1>2, <2>4 DEF Listed
  <2> QED BY <1>0, <1>1, <2>1, <2>3, <2>4, <2>5, <2>6, WorkFansOut
<1> QED BY <1>5, <1>6, <1>7, <1>8, <1>9, <1>10, <1>11, <1>12, <1>13, <1>14, <1>15

\* What a step of the jobs leaves of the checkpoint: nobody revises meanwhile.
LEMMA JobsKeepCatalog ==
  ASSUME TurnInv, WorkInv, Place = "jobs", Place' = "jobs", ck' = ck,
         Len(artifact') \in Nat, Len(artifact) <= Len(artifact')
  PROVE  CatalogInv'
<1>1. ck.catalog \in [Types -> 0..Len(artifact)] /\ ck.pending = "none"
  BY DEF WorkInv, CatalogInv
<1>2. Len(artifact) \in Nat BY DEF WorkInv, RowsInv
<1>3. \A i \in 0..Len(artifact) : i \in 0..Len(artifact') BY <1>2
<1>4. ck'.catalog \in [Types -> 0..Len(artifact')]
  <2>1. \A t \in Types : ck.catalog[t] \in 0..Len(artifact') BY <1>1, <1>3
  <2> QED BY <1>1, <2>1
<1> QED BY <1>1, <1>4 DEF WorkInv, CatalogInv

\* The job of a type starts on a new row.
LEMMA RowIsNew ==
  ASSUME TurnInv, WorkInv, NEW r \in Runs, NEW t \in Types, Place = "jobs",
         job[t].pc = "start"
  PROVE  /\ Row(r, t) \in ArtifactRow /\ Row(r, t).status = "running"
         /\ Row(r, t).type = t /\ Row(r, t).run = r
         /\ Row(r, t).root \in 1..(Len(artifact) + 1)
         /\ \A i \in DOMAIN artifact : artifact[i].root = Row(r, t).root =>
              /\ artifact[i].type = t
              /\ i \in Ready => artifact[i].revision < Row(r, t).revision
<1>0. /\ artifact \in Seq(ArtifactRow) /\ Len(artifact) \in Nat
      /\ DOMAIN artifact = 1..Len(artifact)
      /\ \A i \in DOMAIN artifact : artifact[i] \in ArtifactRow /\ artifact[i].root \in 1..i
  BY DEF WorkInv, RowsInv
<1>1. /\ job[t].mode \in {"create", "revise"}
      /\ job[t].mode = "revise" => ck.catalog[t] # 0 /\ Good(t)
      /\ ck.catalog[t] \in 0..Len(artifact)
  BY DEF WorkInv, JobInv, JobKnows, ArtifactJob, CatalogInv
<1>2. CASE job[t].mode = "create"
  <2>1. Row(r, t) = [type |-> t, run |-> r, status |-> "running", current |-> TRUE,
                     revision |-> 1, root |-> Len(artifact) + 1]
    BY <1>2 DEF Row
  <2>2. \A i \in DOMAIN artifact : artifact[i].root # Len(artifact) + 1
    BY <1>0
  <2>3. Len(artifact) + 1 \in 1..(Len(artifact) + 1) /\ Len(artifact) + 1 \in Nat BY <1>0
  <2> QED BY <2>1, <2>2, <2>3 DEF ArtifactRow
<1>3. CASE job[t].mode = "revise"
  <2>1. PICK c \in DOMAIN artifact : c = ck.catalog[t]
    BY <1>0, <1>1, <1>3
  <2>2. Row(r, t) = [type |-> t, run |-> r, status |-> "running", current |-> FALSE,
                     revision |-> artifact[c].revision + 1, root |-> artifact[c].root]
    BY <1>3, <2>1 DEF Row
  <2>3. /\ artifact[c].type = t /\ Tops(c) /\ artifact[c] \in ArtifactRow
        /\ artifact[c].root \in 1..(Len(artifact) + 1)
    <3>1. artifact[c].type = t /\ Tops(c) BY <1>1, <1>3, <2>1 DEF Good
    <3>2. artifact[c].root \in 1..c /\ c \in 1..Len(artifact) BY <1>0
    <3>3. artifact[c].root \in 1..(Len(artifact) + 1) BY <1>0, <3>2
    <3> QED BY <1>0, <3>1, <3>3
  <2>4. artifact[c].revision \in Nat /\ artifact[c].root \in Nat BY <2>3 DEF ArtifactRow
  <2>5. \A i \in DOMAIN artifact : artifact[i].root = artifact[c].root =>
          /\ artifact[i].type = t
          /\ i \in Ready => artifact[i].revision < artifact[c].revision + 1
    <3> SUFFICES ASSUME NEW i \in DOMAIN artifact, artifact[i].root = artifact[c].root
                 PROVE  /\ artifact[i].type = t
                        /\ i \in Ready => artifact[i].revision < artifact[c].revision + 1
      OBVIOUS
    <3>1. artifact[i].type = t BY <2>3 DEF WorkInv, RowsInv
    <3>2. artifact[i].revision \in Nat BY <1>0 DEF ArtifactRow
    <3>3. i \in Ready => artifact[i].revision < artifact[c].revision \/ i = c
      BY <2>3 DEF Tops
    <3> QED BY <2>4, <3>1, <3>2, <3>3
  <2>6. artifact[c].revision + 1 \in Nat BY <2>4
  <2> HIDE DEF Row
  <2> QED BY <2>2, <2>3, <2>4, <2>5, <2>6 DEF ArtifactRow
<1> QED BY <1>1, <1>2, <1>3

\* A job starts.
LEMMA StartsWork ==
  ASSUME TurnInv, WorkInv, NEW r \in Runs, NEW t \in Types, JobStarts(r, t)
  PROVE  WorkInv'
<1>0. PICK n \in Nat : n = Len(artifact) BY DEF WorkInv, RowsInv
<1> DEFINE row == Row(r, t)
<1>1. /\ At(r, "jobs") /\ job[t].pc = "start" /\ artifact' = Append(artifact, row)
      /\ job' = [job EXCEPT ![t].pc = "work", ![t].id = n + 1]
      /\ UNCHANGED <<ck, turn, lock, report, cut, lost, planned>>
  BY <1>0 DEF JobStarts
<1>2. Place = "jobs" /\ Place' = "jobs" /\ lock = r /\ lock # 0
  BY <1>1, PlaceIs DEF Place
<1>3. /\ row \in ArtifactRow /\ row.status = "running" /\ row.type = t /\ row.run = r
      /\ row.root \in 1..(n + 1)
      /\ \A i \in DOMAIN artifact : artifact[i].root = row.root =>
           /\ artifact[i].type = t
           /\ i \in Ready => artifact[i].revision < row.revision
  BY <1>0, <1>1, <1>2, RowIsNew
<1> HIDE DEF row
<1>4. /\ RowsInv' /\ ShownInv' /\ Ready' = Ready
      /\ Len(artifact') = n + 1
      /\ DOMAIN artifact = 1..n /\ n \in Nat
      /\ DOMAIN artifact' = 1..(n + 1)
      /\ \A i \in DOMAIN artifact : artifact'[i] = artifact[i] /\ Tops(i)' = Tops(i)
      /\ artifact'[n + 1] = row
  BY <1>0, <1>1, <1>3, RowAppended DEF WorkInv
<1>5. Tops(n + 1)'
  <2>1. \A j \in Ready : j \in DOMAIN artifact BY DEF Ready
  <2>2. \A j \in Ready' \ {n + 1} :
          artifact'[j].root = artifact'[n + 1].root =>
            artifact'[j].revision < artifact'[n + 1].revision
    <3> TAKE j \in Ready' \ {n + 1}
    <3>1. j \in DOMAIN artifact /\ j \in Ready BY <1>4, <2>1
    <3>2. artifact'[j] = artifact[j] BY <1>4, <3>1
    <3> QED BY <1>3, <1>4, <3>1, <3>2
  <2> QED BY <2>2 DEF Tops
<1>6. CatalogInv'
  <2>1. Len(artifact') \in Nat /\ Len(artifact) <= Len(artifact') BY <1>0, <1>4
  <2> QED BY <1>1, <1>2, <2>1, JobsKeepCatalog
<1>7. /\ job \in [Types -> ArtifactJob] /\ \A u \in Types : JobKnows(u)
      /\ {u \in Types : job[u] # NoJob} = IF ck.sources # {} THEN ck.sources ELSE ck.targets
  BY <1>2 DEF WorkInv, JobInv
<1>8. /\ job' \in [Types -> ArtifactJob]
      /\ job'[t].pc = "work" /\ job'[t].id = n + 1 /\ job'[t].mode = job[t].mode
      /\ \A u \in Types : u # t => job'[u] = job[u]
  <2>1. n + 1 \in Nat /\ job[t] \in ArtifactJob BY <1>4, <1>7
  <2> QED BY <1>1, <1>7, <2>1 DEF ArtifactJob
<1>9. ck.catalog \in [Types -> 0..n] /\ n + 1 \in DOMAIN artifact' /\ n + 1 # 0
  BY <1>0, <1>4 DEF WorkInv, CatalogInv
<1>10. \A u \in Types : ck.catalog[u] # 0 /\ Good(u) => Good(u)'
  <2> TAKE u \in Types
  <2>1. ck.catalog[u] # 0 => ck.catalog[u] \in DOMAIN artifact BY <1>4, <1>9
  <2> QED BY <1>1, <1>4, <2>1 DEF Good
<1>11. \A u \in Types : JobKnows(u)'
  <2> TAKE u \in Types
  <2>1. CASE u = t
    <3>1. /\ job'[t].pc = "work" /\ job'[t].id = n + 1 /\ n + 1 # 0 /\ Tops(n + 1)'
          /\ artifact'[n + 1].status = "running" /\ n + 1 \in DOMAIN artifact'
          /\ artifact'[n + 1].type = t /\ artifact'[n + 1].run = lock'
      BY <1>1, <1>2, <1>3, <1>4, <1>5, <1>8, <1>9
    <3> QED BY <2>1, <3>1 DEF JobKnows
  <2>2. CASE u # t
    <3>1. JobKnows(u) /\ job'[u] = job[u] BY <1>7, <1>8, <2>2
    <3>2. PICK k : k = job[u].id OBVIOUS
    <3>3. k # 0 => k \in DOMAIN artifact BY <3>1, <3>2 DEF JobKnows
    <3>4. \A i \in DOMAIN artifact : i \in DOMAIN artifact' BY <1>4
    <3>5. k # 0 => artifact'[k] = artifact[k] /\ Tops(k)' = Tops(k) /\ k \in DOMAIN artifact'
      BY <1>4, <3>3, <3>4
    <3> QED BY <1>1, <1>10, <3>1, <3>2, <3>5 DEF JobKnows
  <2> QED BY <2>1, <2>2
<1>12. JobInv'
  <2>1. {u \in Types : job'[u] # NoJob} = {u \in Types : job[u] # NoJob}
    <3>1. NoJob.pc = "none" BY DEF NoJob
    <3>2. job[t] # NoJob /\ job'[t] # NoJob BY <1>1, <1>8, <3>1
    <3> QED BY <1>8, <3>2
  <2> QED BY <1>1, <1>7, <1>8, <1>11, <2>1 DEF JobInv
<1>13. ReportInv'
  <2>1. \A i \in DOMAIN artifact' : artifact'[i].status = "running" =>
          \/ artifact'[i].run \in cut'
          \/ Place' = "jobs" /\ artifact'[i].run = lock' /\ job'[artifact'[i].type].id = i
    <3> TAKE i \in DOMAIN artifact'
    <3>1. CASE i = n + 1
      BY <1>1, <1>2, <1>3, <1>4, <1>8, <3>1
    <3>2. CASE i # n + 1
      <4>1. i \in DOMAIN artifact BY <1>4, <3>2
      <4>2. artifact'[i] = artifact[i] /\ artifact[i] \in ArtifactRow
        BY <1>4, <4>1 DEF WorkInv, RowsInv
      <4>3. artifact[i].status = "running" =>
              artifact[i].run \in cut \/ (artifact[i].run = lock /\ job[artifact[i].type].id = i)
        BY <4>1 DEF WorkInv, ReportInv
      <4>4. i # 0 /\ job[t].id = 0 BY <1>1, <1>4, <1>7, <4>1 DEF JobKnows
      <4>5. artifact[i].type \in Types BY <4>2 DEF ArtifactRow
      <4> QED BY <1>1, <1>2, <1>8, <4>2, <4>3, <4>4, <4>5
    <3> QED BY <3>1, <3>2
  <2>2. report = NoReport /\ report' = NoReport BY <1>1, <1>2 DEF WorkInv, ReportInv
  <2>3. NoReport.told = {} /\ NoReport.asked = {} BY DEF NoReport
  <2> QED BY <2>1, <2>2, <2>3 DEF ReportInv
<1>14. PlanInv'
  BY <1>1, <1>2 DEF WorkInv, PlanInv
<1> QED BY <1>4, <1>6, <1>12, <1>13, <1>14 DEF WorkInv

\* the job of a type is done with its row id, which is now p
Done(t, p, id) ==
  /\ Place = "jobs" /\ Place' = "jobs" /\ UNCHANGED <<lock, ck, report, planned, cut>>
  /\ job[t].pc \in {"work", "ready"} /\ job[t].id = id
  /\ job' = [job EXCEPT ![t].pc = p]
  /\ RowsInv' /\ ShownInv'
  /\ Len(artifact') = Len(artifact) /\ DOMAIN artifact' = DOMAIN artifact
  /\ artifact'[id].status = p
  /\ \A i \in DOMAIN artifact :
       /\ artifact'[i].type = artifact[i].type /\ artifact'[i].run = artifact[i].run
       /\ i # id => artifact'[i].status = artifact[i].status
       /\ artifact[i].type # t /\ Tops(i) => Tops(i)'

\* The job of a type is done with its row, in whichever way.
LEMMA JobGoesOn ==
  ASSUME TurnInv, WorkInv, NEW t \in Types, NEW p \in {"ready", "failed"}, NEW id,
         Done(t, p, id)
  PROVE  WorkInv'
<1> USE DEF Done
<1>1. /\ job \in [Types -> ArtifactJob] /\ \A u \in Types : JobKnows(u)
      /\ {u \in Types : job[u] # NoJob} = IF ck.sources # {} THEN ck.sources ELSE ck.targets
      /\ Len(artifact) \in Nat /\ DOMAIN artifact = 1..Len(artifact)
      /\ ck.catalog \in [Types -> 0..Len(artifact)]
  BY DEF WorkInv, JobInv, RowsInv, CatalogInv
<1>2. id # 0 /\ id \in DOMAIN artifact /\ artifact[id].type = t /\ artifact[id].run = lock
  BY <1>1 DEF JobKnows
<1>3. /\ job' \in [Types -> ArtifactJob] /\ job'[t].pc = p /\ job'[t].id = id
      /\ \A u \in Types : u # t => job'[u] = job[u]
      /\ \A u \in Types : job'[u].id = job[u].id
  <2>1. job[t] \in ArtifactJob BY <1>1
  <2> QED BY <1>1, <2>1 DEF ArtifactJob
<1>4. CatalogInv'
  <2>1. Len(artifact') \in Nat /\ Len(artifact) <= Len(artifact') BY <1>1
  <2> QED BY <2>1, JobsKeepCatalog
<1>5. \A u \in Types : u # t /\ ck.catalog[u] # 0 /\ Good(u) => Good(u)'
  <2> TAKE u \in Types
  <2>1. PICK c : c = ck.catalog[u] OBVIOUS
  <2>2. c # 0 => c \in DOMAIN artifact BY <1>1, <2>1
  <2> QED BY <2>1, <2>2 DEF Good
<1>6. \A u \in Types : JobKnows(u)'
  <2> TAKE u \in Types
  <2>1. CASE u = t
    <3>1. /\ job'[t].pc = p /\ job'[t].id = id /\ id # 0 /\ artifact'[id].status = p
          /\ id \in DOMAIN artifact' /\ artifact'[id].type = t /\ artifact'[id].run = lock'
      BY <1>2, <1>3
    <3> QED BY <2>1, <3>1 DEF JobKnows
  <2>2. CASE u # t
    <3>1. JobKnows(u) /\ job'[u] = job[u] BY <1>1, <1>3, <2>2
    <3>2. PICK k : k = job[u].id OBVIOUS
    <3>3. k # 0 => k \in DOMAIN artifact /\ artifact[k].type = u /\ artifact[k].run = lock
      BY <3>1, <3>2 DEF JobKnows
    <3>4. k # 0 => /\ artifact'[k].status = artifact[k].status
                   /\ artifact'[k].type = u /\ artifact'[k].run = lock'
                   /\ k \in DOMAIN artifact' /\ (Tops(k) => Tops(k)')
      BY <1>2, <2>2, <3>3
    <3> QED BY <1>5, <2>2, <3>1, <3>2, <3>4 DEF JobKnows
  <2> QED BY <2>1, <2>2
<1>7. JobInv'
  <2>1. {u \in Types : job'[u] # NoJob} = {u \in Types : job[u] # NoJob}
    <3>1. NoJob.pc = "none" BY DEF NoJob
    <3>2. job[t] # NoJob /\ job'[t] # NoJob BY <1>3, <3>1
    <3> QED BY <1>3, <3>2
  <2> QED BY <1>1, <1>3, <1>6, <2>1 DEF JobInv
<1>8. ReportInv'
  <2>1. \A i \in DOMAIN artifact' : artifact'[i].status = "running" =>
          \/ artifact'[i].run \in cut'
          \/ Place' = "jobs" /\ artifact'[i].run = lock' /\ job'[artifact'[i].type].id = i
    <3> TAKE i \in DOMAIN artifact'
    <3>1. artifact'[i].status = "running" => i # id OBVIOUS
    <3>2. artifact[i] \in ArtifactRow BY DEF WorkInv, RowsInv
    <3>3. artifact[i].type \in Types BY <3>2 DEF ArtifactRow
    <3>4. artifact[i].status = "running" =>
            artifact[i].run \in cut \/ (artifact[i].run = lock /\ job[artifact[i].type].id = i)
      BY DEF WorkInv, ReportInv
    <3> QED BY <1>3, <3>1, <3>3, <3>4
  <2>2. report = NoReport /\ report' = NoReport BY PlaceIs DEF WorkInv, ReportInv
  <2>3. NoReport.told = {} /\ NoReport.asked = {} BY DEF NoReport
  <2> QED BY <2>1, <2>2, <2>3 DEF ReportInv
<1>9. PlanInv'
  BY DEF WorkInv, PlanInv
<1> QED BY <1>4, <1>7, <1>8, <1>9 DEF WorkInv

\* A job fails before the creation of its row has returned.
LEMMA FailsEarly ==
  ASSUME TurnInv, WorkInv, NEW r \in Runs, NEW t \in Types, At(r, "jobs"),
         job[t].pc = "start", job' = [job EXCEPT ![t].pc = "failed"],
         UNCHANGED <<ck, turn, lock, report, planned, lost>>,
         \/ artifact' = artifact /\ cut' = cut
         \/ artifact' = Append(artifact, Row(r, t)) /\ cut' = cut \cup {r}
  PROVE  WorkInv'
<1>1. Place = "jobs" /\ Place' = "jobs" /\ lock = r /\ lock # 0
  BY PlaceIs DEF Place
<1>2. /\ job \in [Types -> ArtifactJob] /\ \A u \in Types : JobKnows(u)
      /\ {u \in Types : job[u] # NoJob} = IF ck.sources # {} THEN ck.sources ELSE ck.targets
      /\ Len(artifact) \in Nat /\ DOMAIN artifact = 1..Len(artifact)
      /\ ck.catalog \in [Types -> 0..Len(artifact)]
  BY <1>1 DEF WorkInv, JobInv, RowsInv, CatalogInv
<1>3. /\ RowsInv' /\ ShownInv' /\ Len(artifact') \in Nat /\ Len(artifact) <= Len(artifact')
      /\ \A i \in DOMAIN artifact : /\ artifact'[i] = artifact[i] /\ Tops(i)' = Tops(i)
                                    /\ i \in DOMAIN artifact'
      /\ \A i \in DOMAIN artifact' : i \in DOMAIN artifact \/ artifact'[i].run \in cut'
  <2>1. CASE artifact' = artifact /\ cut' = cut
    <3>1. RowsInv' /\ ShownInv' /\ \A i : Tops(i)' = Tops(i) BY <2>1, RowsStay DEF WorkInv
    <3> QED BY <1>2, <2>1, <3>1
  <2>2. CASE artifact' = Append(artifact, Row(r, t)) /\ cut' = cut \cup {r}
    <3> DEFINE row == Row(r, t)
    <3>1. /\ row \in ArtifactRow /\ row.status = "running" /\ row.run = r
          /\ row.root \in 1..(Len(artifact) + 1)
          /\ \A i \in DOMAIN artifact :
               artifact[i].root = row.root => artifact[i].type = row.type
      BY <1>1, RowIsNew
    <3> HIDE DEF row
    <3>2. artifact' = Append(artifact, row) BY <2>2 DEF row
    <3>3. /\ RowsInv' /\ ShownInv'
          /\ Len(artifact') = Len(artifact) + 1
          /\ DOMAIN artifact' = 1..(Len(artifact) + 1)
          /\ \A i \in DOMAIN artifact : artifact'[i] = artifact[i] /\ Tops(i)' = Tops(i)
          /\ artifact'[Len(artifact) + 1] = row
      BY <3>1, <3>2, RowAppended DEF WorkInv
    <3>4. /\ Len(artifact') \in Nat /\ Len(artifact) <= Len(artifact')
          /\ \A i \in 1..Len(artifact) : i \in 1..(Len(artifact) + 1)
          /\ \A i \in 1..(Len(artifact) + 1) : i \in 1..Len(artifact) \/ i = Len(artifact) + 1
      BY <1>2, <3>3
    <3> QED BY <1>2, <2>2, <3>1, <3>3, <3>4
  <2> QED BY <2>1, <2>2
<1>4. /\ job' \in [Types -> ArtifactJob] /\ job'[t].pc = "failed" /\ job'[t].id = job[t].id
      /\ \A u \in Types : u # t => job'[u] = job[u]
      /\ \A u \in Types : job'[u].id = job[u].id
  <2>1. job[t] \in ArtifactJob BY <1>2
  <2> QED BY <1>2, <2>1 DEF ArtifactJob
<1>5. CatalogInv'
  BY <1>1, <1>3, JobsKeepCatalog
<1>6. \A u \in Types : ck.catalog[u] # 0 /\ Good(u) => Good(u)'
  <2> TAKE u \in Types
  <2>1. PICK c : c = ck.catalog[u] OBVIOUS
  <2>2. c # 0 => c \in DOMAIN artifact BY <1>2, <2>1
  <2> QED BY <1>3, <2>1, <2>2 DEF Good
<1>7. \A u \in Types : JobKnows(u)'
  <2> TAKE u \in Types
  <2>1. CASE u = t
    <3>1. job'[t].id = 0 BY <1>2, <1>4 DEF JobKnows
    <3> QED BY <1>4, <2>1, <3>1 DEF JobKnows
  <2>2. CASE u # t
    <3>1. JobKnows(u) /\ job'[u] = job[u] BY <1>2, <1>4, <2>2
    <3>2. PICK k : k = job[u].id OBVIOUS
    <3>3. k # 0 => k \in DOMAIN artifact BY <3>1, <3>2 DEF JobKnows
    <3>4. k # 0 => artifact'[k] = artifact[k] /\ Tops(k)' = Tops(k) /\ k \in DOMAIN artifact'
      BY <1>3, <3>3
    <3> QED BY <1>6, <3>1, <3>2, <3>4 DEF JobKnows
  <2> QED BY <2>1, <2>2
<1>8. JobInv'
  <2>1. {u \in Types : job'[u] # NoJob} = {u \in Types : job[u] # NoJob}
    <3>1. NoJob.pc = "none" BY DEF NoJob
    <3>2. job[t] # NoJob /\ job'[t] # NoJob BY <1>4, <3>1
    <3> QED BY <1>4, <3>2
  <2> QED BY <1>2, <1>4, <1>7, <2>1 DEF JobInv
<1>9. ReportInv'
  <2>1. \A i \in DOMAIN artifact' : artifact'[i].status = "running" =>
          \/ artifact'[i].run \in cut'
          \/ Place' = "jobs" /\ artifact'[i].run = lock' /\ job'[artifact'[i].type].id = i
    <3> TAKE i \in DOMAIN artifact'
    <3>1. CASE i \in DOMAIN artifact
      <4>1. artifact'[i] = artifact[i] /\ artifact[i] \in ArtifactRow
        BY <1>3, <3>1 DEF WorkInv, RowsInv
      <4>2. artifact[i].type \in Types BY <4>1 DEF ArtifactRow
      <4>3. artifact[i].status = "running" =>
              artifact[i].run \in cut \/ (artifact[i].run = lock /\ job[artifact[i].type].id = i)
        BY <3>1 DEF WorkInv, ReportInv
      <4> QED BY <1>1, <1>4, <4>1, <4>2, <4>3
    <3> QED BY <1>3, <3>1
  <2>2. report = NoReport /\ report' = NoReport BY <1>1 DEF WorkInv, ReportInv
  <2>3. NoReport.told = {} /\ NoReport.asked = {} BY DEF NoReport
  <2> QED BY <2>1, <2>2, <2>3 DEF ReportInv
<1>10. PlanInv'
  BY <1>1 DEF WorkInv, PlanInv
<1> QED BY <1>3, <1>5, <1>8, <1>9, <1>10 DEF WorkInv

\* A job marks its row ready.
LEMMA ReadyWork ==
  ASSUME TurnInv, WorkInv, NEW r \in Runs, NEW t \in Types, JobReady(r, t)
  PROVE  WorkInv'
<1>1. PICK id : id = job[t].id OBVIOUS
<1>2. /\ At(r, "jobs") /\ job[t].pc = "work" /\ artifact' = MarkedReady(id, t)
      /\ job' = [job EXCEPT ![t].pc = "ready"]
      /\ UNCHANGED <<ck, turn, lock, report, planned, cut, lost>>
  BY <1>1 DEF JobReady
<1>3. Place = "jobs" /\ Place' = "jobs" BY <1>2, PlaceIs DEF Place
<1>4. id \in DOMAIN artifact /\ artifact[id].type = t /\ Tops(id)
  BY <1>1, <1>2, <1>3 DEF WorkInv, JobInv, JobKnows
<1>5. /\ RowsInv' /\ ShownInv'
      /\ Len(artifact') = Len(artifact) /\ DOMAIN artifact' = DOMAIN artifact
      /\ artifact'[id].status = "ready"
      /\ \A i \in DOMAIN artifact :
           /\ artifact'[i].type = artifact[i].type /\ artifact'[i].run = artifact[i].run
           /\ i # id => artifact'[i].status = artifact[i].status
      /\ \A i \in DOMAIN artifact : artifact[i].type # t /\ Tops(i) => Tops(i)'
  BY <1>2, <1>4, RowReady DEF WorkInv
<1>6. Done(t, "ready", id) BY <1>1, <1>2, <1>3, <1>5 DEF Done
<1> QED BY <1>6, JobGoesOn

\* A job fails, before, while or after its row is made ready.
LEMMA FailsWork ==
  ASSUME TurnInv, WorkInv, NEW r \in Runs, NEW t \in Types, JobFails(r, t)
  PROVE  WorkInv'
<1>1. PICK id : id = job[t].id OBVIOUS
<1>2. /\ At(r, "jobs") /\ job[t].pc \in {"start", "work", "ready"}
      /\ \/ artifact' = (IF id = 0 THEN artifact ELSE [artifact EXCEPT ![id] = FailedRow(@)])
            /\ cut' = cut
         \/ id = 0 /\ artifact' = Append(artifact, Row(r, t)) /\ cut' = cut \cup {r}
      /\ job' = [job EXCEPT ![t].pc = "failed"]
      /\ lost' = IF job[t].pc = "ready" THEN lost \cup {t} ELSE lost
      /\ UNCHANGED <<ck, turn, lock, report, planned>>
  BY <1>1 DEF JobFails
<1>3. Place = "jobs" /\ Place' = "jobs" BY <1>2, PlaceIs DEF Place
<1>4. /\ id = 0 <=> job[t].pc = "start"
      /\ id # 0 => /\ id \in DOMAIN artifact /\ artifact[id].type = t
                   /\ artifact[id].status = "ready" <=> job[t].pc = "ready"
  BY <1>1, <1>2, <1>3 DEF WorkInv, JobInv, JobKnows
<1>5. CASE id = 0
  BY <1>2, <1>4, <1>5, FailsEarly
<1>6. CASE id # 0
  <2>1. artifact' = [artifact EXCEPT ![id] = FailedRow(@)] /\ cut' = cut
    BY <1>2, <1>6
  <2>2. lost' = IF id \in Ready THEN lost \cup {artifact[id].type} ELSE lost
    BY <1>2, <1>4, <1>6 DEF Ready
  <2>3. /\ RowsInv' /\ ShownInv'
        /\ Len(artifact') = Len(artifact) /\ DOMAIN artifact' = DOMAIN artifact
        /\ artifact'[id] = FailedRow(artifact[id])
        /\ \A i \in DOMAIN artifact : i # id => artifact'[i] = artifact[i]
        /\ \A i \in DOMAIN artifact : Tops(i) => Tops(i)'
    BY <1>4, <1>6, <2>1, <2>2, RowFailed DEF WorkInv
  <2>4. artifact[id] \in ArtifactRow BY <1>4, <1>6 DEF WorkInv, RowsInv
  <2>5. /\ artifact'[id].status = "failed" /\ artifact'[id].type = artifact[id].type
        /\ artifact'[id].run = artifact[id].run
    BY <2>3, <2>4 DEF FailedRow, ArtifactRow
  <2>6. \A i \in DOMAIN artifact :
          /\ artifact'[i].type = artifact[i].type /\ artifact'[i].run = artifact[i].run
          /\ i # id => artifact'[i].status = artifact[i].status
    BY <2>3, <2>5
  <2>7. Done(t, "failed", id)
    BY <1>1, <1>2, <1>3, <1>4, <1>6, <2>1, <2>3, <2>5, <2>6 DEF Done
  <2> QED BY <2>7, JobGoesOn
<1> QED BY <1>5, <1>6

\* What the jobs return is what their rows are.
LEMMA ResultsAreRows ==
  ASSUME TurnInv, WorkInv, NEW r \in Runs, At(r, "jobs"),
         \A t \in Types : job[t].pc \in {"none", "ready", "failed"},
         NEW t \in Types, job[t] # NoJob
  PROVE  /\ JobResult(t).status \in {"ready", "failed"}
         /\ JobResult(t).id # 0 => /\ JobResult(t).id \in DOMAIN artifact
                                   /\ artifact[JobResult(t).id].type = t
                                   /\ artifact[JobResult(t).id].run = r
                                   /\ artifact[JobResult(t).id].status = JobResult(t).status
<1>1. Place = "jobs" /\ lock = r BY PlaceIs
<1>2. JobKnows(t) BY <1>1 DEF WorkInv, JobInv
<1>3. PICK id, pc : id = job[t].id /\ pc = job[t].pc OBVIOUS
<1>4. JobResult(t) = [status |-> pc, id |-> id] BY <1>3 DEF JobResult
<1>5. JobResult(t).status = pc /\ JobResult(t).id = id BY <1>4
<1>6. pc \in {"ready", "failed"} BY <1>2, <1>3 DEF JobKnows
<1>7. id # 0 => /\ id \in DOMAIN artifact /\ artifact[id].type = t /\ artifact[id].run = r
                /\ artifact[id].status = pc
  BY <1>1, <1>2, <1>3, <1>6 DEF JobKnows
<1> QED BY <1>5, <1>6, <1>7

\* The fan-in reports them and closes the workflow.
LEMMA FanInWork ==
  ASSUME TurnInv, WorkInv, NEW r \in Runs, FanIn(r)
  PROVE  WorkInv'
<1> DEFINE types == IF ck.sources # {} THEN ck.sources ELSE ck.targets
           result(t) == JobResult(t)
<1>1. /\ At(r, "jobs") /\ \A t \in Types : job[t].pc \in {"none", "ready", "failed"}
      /\ Goto(r, "over")
      /\ report' = [run |-> r, asked |-> {t \in Types : job[t] # NoJob},
                    told |-> {<<t, [u \in Types |-> JobResult(u)][t]>> : t \in types}]
      /\ UNCHANGED <<job, artifact, cut, lost, planned>>
  BY DEF FanIn, Stop
<1>2. Place = "jobs" /\ Place' = "idle" /\ lock = r /\ lock' = 0
  BY <1>1, PlaceIs, PlaceGoes
<1>3. /\ job \in [Types -> ArtifactJob] /\ \A t \in Types : JobKnows(t)
      /\ types \subseteq Types /\ types = {t \in Types : job[t] # NoJob}
  BY <1>2 DEF WorkInv, JobInv, CatalogInv
<1>4. PICK f : ck' = [ck EXCEPT !.active = FALSE, !.result = f]
  BY DEF FanIn, Stop
<1>5. /\ ck'.catalog = ck.catalog /\ ck'.sources = ck.sources /\ ck'.targets = ck.targets
      /\ ck'.experience = ck.experience /\ ck'.pending = ck.pending
  <2>1. Shaped(ck) BY DEF TurnInv, Checkpoint
  <2> QED BY <1>4, <2>1 DEF Shaped
<1>6. /\ RowsInv' /\ ShownInv' /\ \A i : Tops(i)' = Tops(i)
  BY <1>1, RowsStay DEF WorkInv
<1>7. CatalogInv'
  <2>1. ck.pending = "none" BY <1>2 DEF WorkInv, CatalogInv
  <2> QED BY <1>1, <1>2, <1>5, <2>1 DEF WorkInv, CatalogInv
<1>8. JobInv' /\ PlanInv'
  BY <1>1, <1>2, <1>3 DEF JobInv, PlanInv, WorkInv
<1>9. \A t \in types :
        /\ result(t).status \in {"ready", "failed"}
        /\ result(t).id # 0 => /\ result(t).id \in DOMAIN artifact
                               /\ artifact[result(t).id].type = t
                               /\ artifact[result(t).id].run = r
                               /\ artifact[result(t).id].status = result(t).status
  BY <1>1, <1>3, ResultsAreRows
<1>10. report'.told = {<<t, result(t)>> : t \in types} /\ report'.asked = types /\ report'.run = r
  <2>1. \A t \in types : [u \in Types |-> JobResult(u)][t] = result(t) BY <1>3
  <2> HIDE DEF types
  <2> QED BY <1>1, <1>3, <2>1
<1>11. \A i \in DOMAIN artifact : artifact[i].status = "running" => artifact[i].run \in cut
  <2> SUFFICES ASSUME NEW i \in DOMAIN artifact, artifact[i].status = "running",
                      artifact[i].run \notin cut
               PROVE  FALSE
    OBVIOUS
  <2>1. artifact[i] \in ArtifactRow BY DEF WorkInv, RowsInv
  <2>2. PICK t \in Types : t = artifact[i].type BY <2>1 DEF ArtifactRow
  <2>3. job[t].id = i BY <2>2 DEF WorkInv, ReportInv
  <2>4. JobKnows(t) /\ job[t].pc \in {"none", "ready", "failed"} BY <1>1, <1>3
  <2>5. i # 0 BY DEF WorkInv, RowsInv
  <2>6. NoJob.id = 0 BY DEF NoJob
  <2> QED BY <2>3, <2>4, <2>5, <2>6 DEF JobKnows
<1> HIDE DEF types, result
<1>12. ReportInv'
  <2>1. {x[1] : x \in report'.told} = report'.asked
    <3>1. \A t \in types : <<t, result(t)>> \in report'.told /\ <<t, result(t)>>[1] = t
      BY <1>10
    <3>2. \A x \in report'.told : x[1] \in types
      BY <1>10
    <3>3. \A t \in types : \E x \in report'.told : x[1] = t
      BY <3>1
    <3> QED BY <1>10, <3>2, <3>3
  <2>2. ASSUME NEW x \in report'.told
        PROVE  /\ x[2].status \in {"ready", "failed"}
               /\ x[2].id # 0 => /\ x[2].id \in DOMAIN artifact'
                                 /\ artifact'[x[2].id].type = x[1]
                                 /\ artifact'[x[2].id].run = report'.run
                                 /\ artifact'[x[2].id].status = x[2].status
    <3>1. PICK t \in types : x = <<t, result(t)>> BY <1>10
    <3>2. x[1] = t /\ x[2] = result(t) BY <3>1
    <3> QED BY <1>1, <1>9, <1>10, <3>2
  <2>3. \A i \in DOMAIN artifact' : artifact'[i].status = "running" => artifact'[i].run \in cut'
    BY <1>1, <1>11
  <2> QED BY <1>2, <2>1, <2>2, <2>3 DEF ReportInv
<1> QED BY <1>6, <1>7, <1>8, <1>12 DEF WorkInv

-----------------------------------------------------------------------------
(* The thread at first                                                     *)

\* SetToSeq lists each element of a finite set once.
LEMMA ListedOnce ==
  ASSUME NEW S, IsFiniteSet(S)
  PROVE  \E n \in Nat : /\ SetToSeq(S) \in [1..n -> S]
                        /\ \A i, j \in 1..n : SetToSeq(S)[i] = SetToSeq(S)[j] => i = j
<1> DEFINE n == Cardinality(S)
           Lists(f) == f \in [1..n -> S] /\ IsInjective(f)
<1>1. n \in Nat /\ ExistsBijection(1..n, S)
  BY FS_CardinalityType
<1>2. PICK f : f \in Bijection(1..n, S)
  BY <1>1 DEF ExistsBijection
<1>3. Lists(f)
  <2>1. f \in [1..n -> S] /\ IsInjective(f)
    BY <1>2 DEF Bijection, Injection, IsInjective
  <2> QED BY <2>1
<1>4. SetToSeq(S) = CHOOSE g : Lists(g)
  BY DEF SetToSeq
<1> HIDE DEF Lists
<1>5. Lists(SetToSeq(S))
  BY <1>3, <1>4, Zenon
<1> QED BY <1>1, <1>5 DEF Lists, IsInjective

\* The rows of an earlier workflow, of which the last n are shown.
Past(s, n, m) ==
  /\ n \in Nat /\ m \in {0, n} /\ s \in [1..n -> Types]
  /\ \A i, j \in 1..n : s[i] = s[j] => i = j
  /\ Len(artifact) = m + n /\ artifact \in Seq(ArtifactRow)
  /\ \A i \in 1..m : /\ artifact[i].type = s[i] /\ artifact[i].root = i
                     /\ artifact[i].revision = 1 /\ artifact[i].status = "ready"
                     /\ artifact[i].current = FALSE
  /\ \A i \in 1..n : /\ artifact[m + i].type = s[i] /\ artifact[m + i].root = i
                     /\ artifact[m + i].revision = (IF m = 0 THEN 1 ELSE 2)
                     /\ artifact[m + i].status = "ready" /\ artifact[m + i].current = TRUE

\* the place of t in the list of types, 0 when it is not one of them
Index(types, t) ==
  LET I == {i \in 1..Len(SetToSeq(types)) : SetToSeq(types)[i] = t} IN
  IF I # {} THEN Min(I) ELSE 0

\* Both ways to begin are of this form.
LEMMA InitIsPast ==
  ASSUME Init
  PROVE  \E s, n, m : Past(s, n, m) /\ ck.catalog \in [Types -> 0..Len(artifact)]
<1>1. PICK types \in Earlier, revised \in BOOLEAN :
        /\ artifact = IF revised THEN Version(types, 1, FALSE) \o Version(types, 2, TRUE)
                      ELSE Version(types, 1, TRUE)
        /\ ck.catalog = [t \in Types |-> IF revised /\ t \in types THEN Index(types, t) ELSE 0]
  <2>1. \E types \in Earlier, revised \in BOOLEAN :
          /\ artifact = IF revised THEN Version(types, 1, FALSE) \o Version(types, 2, TRUE)
                        ELSE Version(types, 1, TRUE)
          /\ ck = [active |-> FALSE, model |-> config, pending |-> "none",
                   experience |-> "none",
                   catalog |-> [t \in Types |->
                                  IF revised /\ t \in types THEN Index(types, t) ELSE 0],
                   sources |-> IF revised THEN types ELSE {}, targets |-> types,
                   result |-> [t \in Types |-> Pending]]
    BY Zenon DEF Init, SelectInSeq, Index
  <2>2. PICK types, revised :
          /\ types \in Earlier /\ revised \in BOOLEAN
          /\ artifact = IF revised THEN Version(types, 1, FALSE) \o Version(types, 2, TRUE)
                        ELSE Version(types, 1, TRUE)
          /\ ck = [active |-> FALSE, model |-> config, pending |-> "none",
                   experience |-> "none",
                   catalog |-> [t \in Types |->
                                  IF revised /\ t \in types THEN Index(types, t) ELSE 0],
                   sources |-> IF revised THEN types ELSE {}, targets |-> types,
                   result |-> [t \in Types |-> Pending]]
    BY <2>1, Zenon
  <2>3. ck.catalog = [t \in Types |-> IF revised /\ t \in types THEN Index(types, t) ELSE 0]
    BY <2>2
  <2> QED BY <2>2, <2>3, Zenon
<1>2. types \subseteq Types /\ IsFiniteSet(types)
  BY TurnAssumption, FS_Subset
<1>3. PICK n \in Nat : /\ SetToSeq(types) \in [1..n -> types]
                       /\ \A i, j \in 1..n : SetToSeq(types)[i] = SetToSeq(types)[j] => i = j
  BY <1>2, ListedOnce
<1>4. PICK s : s = SetToSeq(types) OBVIOUS
<1>5. s \in [1..n -> Types] /\ \A i, j \in 1..n : s[i] = s[j] => i = j
  BY <1>2, <1>3, <1>4
<1>6. ASSUME NEW t \in Types PROVE Index(types, t) \in 0..n
  <2> DEFINE I == {i \in 1..Len(s) : s[i] = t}
  <2>1. Index(types, t) = IF I # {} THEN Min(I) ELSE 0
    BY <1>4 DEF Index
  <2>2. Len(s) = n BY <1>3, <1>5
  <2>3. I \subseteq 1..n /\ I \subseteq Nat BY <2>2
  <2>4. I # {} => Min(I) \in I BY <2>3, MinIsMember
  <2> QED BY <1>3, <2>1, <2>3, <2>4
<1> DEFINE first == [i \in 1..n |-> [type |-> s[i], run |-> 0, status |-> "ready",
                                     current |-> FALSE, revision |-> 1, root |-> i]]
           only == [i \in 1..n |-> [type |-> s[i], run |-> 0, status |-> "ready",
                                    current |-> TRUE, revision |-> 1, root |-> i]]
           second == [i \in 1..n |-> [type |-> s[i], run |-> 0, status |-> "ready",
                                      current |-> TRUE, revision |-> 2, root |-> i]]
<1>7. artifact = IF revised THEN first \o second ELSE only
  <2>1. DOMAIN SetToSeq(types) = 1..n BY <1>3
  <2> QED BY <1>1, <1>4, <2>1 DEF Version
<1>8. /\ first \in Seq(ArtifactRow) /\ Len(first) = n
      /\ only \in Seq(ArtifactRow) /\ Len(only) = n
      /\ second \in Seq(ArtifactRow) /\ Len(second) = n
  <2>1. /\ first \in [1..n -> ArtifactRow] /\ only \in [1..n -> ArtifactRow]
        /\ second \in [1..n -> ArtifactRow]
    BY <1>5 DEF ArtifactRow
  <2>2. \A f \in [1..n -> ArtifactRow] : f \in Seq(ArtifactRow) /\ Len(f) = n
    BY <1>3
  <2> QED BY <2>1, <2>2
<1>9. \A i \in 1..n :
        /\ first[i].type = s[i] /\ first[i].root = i /\ first[i].revision = 1
        /\ first[i].status = "ready" /\ first[i].current = FALSE
        /\ only[i].type = s[i] /\ only[i].root = i /\ only[i].revision = 1
        /\ only[i].status = "ready" /\ only[i].current = TRUE
        /\ second[i].type = s[i] /\ second[i].root = i /\ second[i].revision = 2
        /\ second[i].status = "ready" /\ second[i].current = TRUE
  OBVIOUS
<1> HIDE DEF first, only, second
<1>10. CASE revised
  <2>1. artifact = first \o second BY <1>7, <1>10
  <2>2. /\ artifact \in Seq(ArtifactRow) /\ Len(artifact) = n + n
        /\ \A i \in 1..n : artifact[i] = first[i] /\ artifact[n + i] = second[i]
    <3>1. artifact \in Seq(ArtifactRow) /\ Len(artifact) = n + n
      <4>1. /\ first \o second \in Seq(ArtifactRow)
            /\ Len(first \o second) = Len(first) + Len(second)
        BY <1>8, ConcatProperties, Zenon
      <4> QED BY <1>8, <2>1, <4>1
    <3>2. \A i \in 1..n : artifact[i] = first[i] BY <1>8, <2>1, ConcatProperties
    <3>3. \A j \in 1..(n + n) : j > n => artifact[j] = second[j - n]
      BY <1>3, <1>8, <2>1, ConcatProperties
    <3>4. \A i \in 1..n : n + i \in 1..(n + n) /\ n + i > n /\ (n + i) - n = i BY <1>3
    <3> QED BY <3>1, <3>2, <3>3, <3>4
  <2>3. ck.catalog \in [Types -> 0..Len(artifact)]
    <3>1. 0 \in 0..(n + n) /\ \A i \in 0..n : i \in 0..(n + n) BY <1>3
    <3> QED BY <1>1, <1>6, <2>2, <3>1
  <2>4. CASE n # 0
    <3>1. Past(s, n, n) BY SMTT(30), <1>5, <1>9, <2>2, <2>4 DEF Past
    <3> QED BY <2>3, <3>1
  <2>5. CASE n = 0
    <3>1. Past(s, n, 0) BY <1>5, <2>2, <2>5 DEF Past
    <3> QED BY <2>3, <3>1
  <2> QED BY <2>4, <2>5
<1>11. CASE ~revised
  <2>1. artifact = only BY <1>7, <1>11
  <2>2. Past(s, n, 0)
    BY <1>5, <1>8, <1>9, <2>1 DEF Past
  <2>3. ck.catalog \in [Types -> 0..Len(artifact)]
    <3>1. 0 \in 0..Len(artifact) BY <1>8, <2>1
    <3> QED BY <1>1, <1>11, <3>1
  <2> QED BY <2>2, <2>3
<1> QED BY <1>10, <1>11

\* Such rows are in order.
LEMMA PastInOrder ==
  ASSUME NEW s, NEW n, NEW m, Past(s, n, m), artifact \in Seq(ArtifactRow)
  PROVE  RowsInv /\ ShownInv /\ \A i \in DOMAIN artifact : artifact[i].status = "ready"
<1>1. PICK k \in 1..2 : k = IF m = 0 THEN 1 ELSE 2
  OBVIOUS
<1>2. /\ n \in Nat /\ m \in {0, n} /\ DOMAIN artifact = 1..(m + n) /\ Len(artifact) = m + n
      /\ \A i, j \in 1..n : s[i] = s[j] => i = j
  BY DEF Past
<1>3. \A i \in 1..(m + n) : i \in 1..m \/ (i > m /\ i - m \in 1..n /\ i = m + (i - m))
  BY <1>2
<1>4. \A i \in 1..m : /\ artifact[i].type = s[i] /\ artifact[i].root = i /\ i \in 1..n
                      /\ artifact[i].revision = 1 /\ artifact[i].status = "ready"
                      /\ artifact[i].current = FALSE /\ m = n /\ k = 2
  BY <1>1, <1>2 DEF Past
<1>5. \A i \in 1..(m + n) : i > m =>
        /\ artifact[i].type = s[i - m] /\ artifact[i].root = i - m /\ i - m \in 1..n
        /\ artifact[i].revision = k /\ artifact[i].status = "ready"
        /\ artifact[i].current = TRUE
  <2> TAKE i \in 1..(m + n)
  <2> SUFFICES ASSUME i > m PROVE /\ artifact[i].type = s[i - m] /\ artifact[i].root = i - m
                                  /\ i - m \in 1..n
                                  /\ artifact[i].revision = k /\ artifact[i].status = "ready"
                                  /\ artifact[i].current = TRUE
    OBVIOUS
  <2>1. PICK j \in 1..n : j = i - m /\ i = m + j BY <1>2
  <2>2. /\ artifact[m + j].type = s[j] /\ artifact[m + j].root = j
        /\ artifact[m + j].revision = k
        /\ artifact[m + j].status = "ready" /\ artifact[m + j].current = TRUE
    BY <1>1 DEF Past
  <2> QED BY <2>1, <2>2
<1>6. \A i \in DOMAIN artifact : artifact[i].status = "ready"
  <2> TAKE i \in DOMAIN artifact
  <2>1. i \in 1..(m + n) /\ (i \in 1..m \/ i > m) BY <1>2, <1>3
  <2> QED BY <1>4, <1>5, <2>1
<1>7. \A i \in DOMAIN artifact : /\ artifact[i].root \in 1..n /\ artifact[i].root <= i
                                 /\ artifact[i].type = s[artifact[i].root]
  <2> TAKE i \in DOMAIN artifact
  <2>1. CASE i \in 1..m BY <1>2, <1>4, <2>1
  <2>2. CASE i \in 1..(m + n) /\ i > m
    <3>1. artifact[i].root = i - m /\ i - m \in 1..n /\ artifact[i].type = s[i - m]
      BY <1>5, <2>2
    <3>2. i - m <= i BY <1>2, <2>2
    <3> QED BY <3>1, <3>2
  <2> QED BY <1>2, <1>3, <2>1, <2>2
<1>8. RowsInv
  <2>1. \A i \in DOMAIN artifact : artifact[i].root \in 1..i
    BY <1>2, <1>7
  <2>2. \A i, j \in DOMAIN artifact :
          artifact[i].root = artifact[j].root => artifact[i].type = artifact[j].type
    BY <1>7
  <2> QED BY <2>1, <2>2 DEF RowsInv
<1>9. Ready = 1..(m + n)
  BY <1>2, <1>6 DEF Ready
<1>10. \A i \in 1..(m + n) : i \in Shown <=> i > m
  BY <1>2, <1>3, <1>4, <1>5, <1>9 DEF Shown
<1>11. Shown \subseteq 1..(m + n) BY <1>9 DEF Shown
<1>12. \A i, j \in Shown : artifact[i].type = artifact[j].type => i = j
  <2> SUFFICES ASSUME NEW i \in Shown, NEW j \in Shown, artifact[i].type = artifact[j].type
               PROVE  i = j
    OBVIOUS
  <2>1. i \in 1..(m + n) /\ j \in 1..(m + n) /\ i > m /\ j > m BY <1>10, <1>11
  <2>2. i - m \in 1..n /\ j - m \in 1..n /\ s[i - m] = s[j - m] BY <1>5, <2>1
  <2>3. i - m = j - m BY <1>2, <2>2
  <2> QED BY <1>2, <2>1, <2>3
<1>13. \A i \in Ready : \E j \in Shown : artifact[j].type = artifact[i].type
  <2> TAKE i \in Ready
  <2>1. CASE i > m BY <1>9, <1>10, <2>1
  <2>2. CASE i \in 1..m
    <3>1. PICK j : j = m + i OBVIOUS
    <3>2. j \in 1..(m + n) /\ j > m /\ j - m = i BY <1>2, <1>4, <2>2, <3>1
    <3> QED BY <1>4, <1>5, <1>10, <2>2, <3>2
  <2> QED BY <1>3, <1>9, <2>1, <2>2
<1>14. \A i \in Shown : Tops(i)
  <2> SUFFICES ASSUME NEW i \in Shown, NEW j \in Ready \ {i}, artifact[j].root = artifact[i].root
               PROVE  artifact[j].revision < artifact[i].revision
    BY DEF Tops
  <2>1. i \in 1..(m + n) /\ j \in 1..(m + n) /\ i > m BY <1>9, <1>10, <1>11
  <2>2. j \in 1..m
    <3>1. ~(j > m) BY <1>2, <1>5, <2>1
    <3> QED BY <1>3, <2>1, <3>1
  <2> QED BY <1>4, <1>5, <2>1, <2>2
<1>15. ShownInv
  BY <1>12, <1>13, <1>14 DEF ShownInv
<1> QED BY <1>6, <1>8, <1>15

\* A thread begins with the artifacts of an earlier workflow, if any.
LEMMA InitWork == Init => WorkInv
<1> SUFFICES ASSUME Init PROVE WorkInv
  OBVIOUS
<1>1. PICK s, n, m : Past(s, n, m) /\ ck.catalog \in [Types -> 0..Len(artifact)]
  BY InitIsPast
<1>2. artifact \in Seq(ArtifactRow) BY <1>1 DEF Past
<1>3. RowsInv /\ ShownInv /\ \A i \in DOMAIN artifact : artifact[i].status = "ready"
  BY <1>1, <1>2, PastInOrder
<1>4. /\ ck.pending = "none" /\ ck.experience = "none" /\ ck.sources \subseteq Types
      /\ ck.targets \subseteq Types
      /\ lock = 0 /\ report = NoReport /\ planned = "none" /\ job = [t \in Types |-> NoJob]
  BY TurnAssumption DEF Init
<1>5. Place = "idle" BY <1>4 DEF Place
<1>6. CatalogInv
  BY <1>1, <1>4, <1>5 DEF CatalogInv
<1>7. JobInv /\ PlanInv
  BY <1>4, <1>5, NoJobs DEF JobInv, PlanInv
<1>8. ReportInv
  <2>1. NoReport.told = {} /\ NoReport.asked = {} BY DEF NoReport
  <2> QED BY <1>3, <1>4, <2>1 DEF ReportInv
<1> QED BY <1>3, <1>6, <1>7, <1>8 DEF WorkInv

-----------------------------------------------------------------------------
(* Every step                                                              *)

\* The active run of the thread is not settled.
OpenInv == open # 0 => turn[open].pc # "settled"

\* A node, the entry and a failure of the graph move the run and leave the active run alone.
LEMMA RunMoves ==
  ASSUME TurnInv, NEW r \in Runs, Admit(r) \/ Node(r) \/ GraphFails(r)
  PROVE  /\ open' = open
         /\ \/ turn' = turn
            \/ \E p : p # "settled" /\ turn' = [turn EXCEPT ![r].pc = p]
<1>1. ASSUME NEW p, Goto(r, p), p # "settled", open' = open
      PROVE  /\ open' = open
             /\ \E q : q # "settled" /\ turn' = [turn EXCEPT ![r].pc = q]
  BY <1>1 DEF Goto
<1>2. CASE Admit(r) \/ GraphFails(r) \/ Fresh(r) \/ ApprovesNothing(r)
  BY <1>1, <1>2 DEF Admit, GraphFails, Fresh, ApprovesNothing
<1>3. CASE Answered(r)
  <2>1. ck.pending \in {"none", "input", "metadata", "design", "clarify"}
    BY DEF TurnInv, Checkpoint, Approvals
  <2>2. PICK p \in {"intake", "context", "router"} : Goto(r, p) /\ open' = open
    BY <1>3, <2>1 DEF Answered, Resumable
  <2> QED BY <1>1, <2>2
<1>4. CASE MetadataApproved(r) \/ DesignApproved(r) \/ ClarifyApproved(r)
  BY <1>1, <1>4 DEF MetadataApproved, DesignApproved, ClarifyApproved, Stop
<1>5. CASE Chat(r) \/ Teach(r) \/ Revise(r) \/ Again(r)
  BY <1>1, <1>5 DEF Chat, Teach, Revise, Again, Begin, Stop
<1>6. CASE AskMore(r) \/ Submit(r) \/ GiveUp(r) \/ PrepareContext(r) \/ Design(r)
  BY <1>1, <1>6 DEF AskMore, Submit, GiveUp, PrepareContext, Design, Interrupt, Stop
<1>7. CASE Unclear(r) \/ Route(r) \/ NothingToRevise(r) \/ PrepareRevision(r) \/ FanIn(r)
  BY <1>1, <1>7 DEF Unclear, Route, NothingToRevise, PrepareRevision, FanIn, Interrupt, Stop
<1>8. CASE \E t \in Types : JobStarts(r, t) \/ JobReady(r, t) \/ JobFails(r, t)
  BY <1>8 DEF JobStarts, JobReady, JobFails
<1> QED BY <1>2, <1>3, <1>4, <1>5, <1>6, <1>7, <1>8 DEF Node

\* Every step keeps it.
LEMMA NextOpen == TurnInv /\ OpenInv /\ [Next]_vars => OpenInv'
<1> SUFFICES ASSUME TurnInv, OpenInv, [Next]_vars PROVE OpenInv'
  OBVIOUS
<1>0. turn \in [Runs -> Turns] /\ open \in Runs \cup {0} BY DEF TurnInv
<1>1. CASE Ask \/ Read \/ Refuse \/ UNCHANGED vars
  BY <1>1 DEF Ask, Read, Refuse, vars, OpenInv
<1>2. CASE Accept
  <2>1. PICK q : q = Min({n \in Runs : turn[n].pc = "new"}) OBVIOUS
  <2>2. PICK x : x.pc = "accepted" /\ turn' = [turn EXCEPT ![q] = x] /\ open' = q
    BY <1>2, <2>1 DEF Accept
  <2>3. q \in Runs
    <3>1. {n \in Runs : turn[n].pc = "new"} # {} BY <1>2 DEF Accept, TurnInv
    <3>2. {n \in Runs : turn[n].pc = "new"} \subseteq Nat BY TurnAssumption
    <3> QED BY <2>1, <3>1, <3>2, MinIsMember
  <2> QED BY <1>0, <2>2, <2>3 DEF OpenInv
<1>3. ASSUME NEW r \in Runs, Admit(r) \/ Node(r) \/ GraphFails(r) PROVE OpenInv'
  <2>1. open' = open BY <1>3, RunMoves
  <2>2. CASE turn' = turn BY <2>1, <2>2 DEF OpenInv
  <2>3. CASE \E p : p # "settled" /\ turn' = [turn EXCEPT ![r].pc = p]
    BY <1>0, <2>1, <2>3 DEF OpenInv, Turns
  <2> QED BY <1>3, <2>2, <2>3, RunMoves
<1>4. ASSUME NEW r \in Runs, Settle(r) PROVE OpenInv'
  <2>1. turn' = [turn EXCEPT ![r] = Settled] /\ open' = IF open = r THEN 0 ELSE open
    BY <1>4 DEF Settle
  <2> QED BY <1>0, <2>1 DEF OpenInv
<1>5. ASSUME NEW r \in Runs, Cancel(r) \/ CancelTooEarly(r) PROVE OpenInv'
  BY <1>5 DEF Cancel, CancelTooEarly, OpenInv
<1>6. CASE Restart
  BY <1>6 DEF Restart, OpenInv
<1> QED BY <1>1, <1>2, <1>3, <1>4, <1>5, <1>6 DEF Next

\* Every step keeps what is said of artifacts, jobs and the report.
LEMMA NextWork == TurnInv /\ WorkInv /\ [Next]_vars => WorkInv'
<1> SUFFICES ASSUME TurnInv, WorkInv, [Next]_vars PROVE WorkInv'
  OBVIOUS
<1>1. ASSUME NEW r \in Runs,
             \/ Ask \/ Read \/ Accept \/ Refuse \/ Settle(r) \/ CancelTooEarly(r)
             \/ (Cancel(r) /\ lock # r) \/ UNCHANGED vars
      PROVE  WorkInv'
  BY <1>1, OthersWork
<1>2. ASSUME NEW r \in Runs, GraphFails(r) \/ (Cancel(r) /\ lock = r) \/ Restart
      PROVE  WorkInv'
  BY <1>2, EndsWork
<1>3. ASSUME NEW r \in Runs, Admit(r) \/ Node(r) PROVE WorkInv'
  <2>1. CASE \/ Admit(r) \/ Fresh(r) \/ ApprovesNothing(r) \/ Answered(r)
             \/ MetadataApproved(r) \/ DesignApproved(r) \/ ClarifyApproved(r)
    BY <2>1, EntryWork
  <2>2. CASE \/ Chat(r) \/ Teach(r) \/ Revise(r) \/ Again(r) \/ AskMore(r) \/ Submit(r)
             \/ GiveUp(r) \/ PrepareContext(r) \/ Design(r) \/ Unclear(r) \/ Route(r)
             \/ NothingToRevise(r) \/ PrepareRevision(r)
    BY <2>2, MiddleWork
  <2>3. ASSUME NEW t \in Types, JobStarts(r, t) \/ JobReady(r, t) \/ JobFails(r, t)
        PROVE  WorkInv'
    BY <2>3, StartsWork, ReadyWork, FailsWork
  <2>4. CASE FanIn(r)
    BY <2>4, FanInWork
  <2> QED BY <1>3, <2>1, <2>2, <2>3, <2>4 DEF Node
<1>4. CASE \E r \in Runs : \/ Admit(r) \/ Node(r) \/ GraphFails(r) \/ Settle(r)
                          \/ Cancel(r) \/ CancelTooEarly(r)
  BY <1>1, <1>2, <1>3, <1>4
<1>5. CASE Ask \/ Read \/ Accept \/ Refuse \/ Restart \/ UNCHANGED vars
  <2>1. CASE Runs # {}
    BY <1>1, <1>2, <1>5, <2>1
  <2>2. CASE Runs = {}
    <3>1. post.pc = "none" /\ \A r \in Runs : turn[r].pc # "new" BY <2>2 DEF TurnInv
    <3>2. ~(Ask \/ Read \/ Accept \/ Refuse)
      BY <2>2, <3>1 DEF Ask, Read, Accept, Refuse
    <3>3. lock = 0 BY <2>2 DEF TurnInv
    <3>4. CASE Restart
      <4>1. /\ lock' = 0 /\ job' = [t \in Types |-> NoJob] /\ cut \subseteq cut'
            /\ UNCHANGED <<ck, artifact, report, lost, planned>>
        BY <3>4 DEF Restart
      <4>2. Place = "idle" /\ Place' = "idle" BY <3>3, <4>1 DEF Place
      <4>3. ck.experience \in {"none", "present", "past"} /\ planned # "past"
        BY DEF WorkInv, CatalogInv, PlanInv
      <4> QED BY <4>1, <4>2, <4>3, NoJobs, WorkEnds
    <3>5. CASE UNCHANGED vars
      <4>1. UNCHANGED <<ck, turn, lock, job, artifact, report, cut, lost, planned>>
        BY <3>5 DEF vars
      <4>2. Place' = Place BY <4>1 DEF Place
      <4> QED BY <4>1, <4>2, WorkBeside
    <3> QED BY <1>5, <3>2, <3>4, <3>5
  <2> QED BY <2>1, <2>2
<1> QED BY <1>4, <1>5 DEF Next

\* What holds of every turn.
LEMMA TurnsHold == Spec => [](TurnInv /\ WorkInv /\ OpenInv)
<1>1. Init => OpenInv BY DEF Init, OpenInv
<1> QED BY <1>1, InitTurn, InitWork, NextTurn, NextWork, NextOpen, PTL DEF Spec

\* The thread's state keeps its types: the catalog lists rows, the lock is held by the run
\* whose graph is at work and the thread's active run is neither new nor settled.
THEOREM TurnTypeCorrect == Spec => []TypeOK
<1>1. TurnInv /\ WorkInv /\ OpenInv => TypeOK
  <2> SUFFICES ASSUME TurnInv, WorkInv, OpenInv PROVE TypeOK
    OBVIOUS
  <2>1. /\ config \in Configs /\ ck.active \in BOOLEAN /\ ck.model \in Configs
        /\ ck.pending \in Approvals \cup {"none", "input"}
    BY DEF TurnInv, Checkpoint
  <2>2. /\ ck.experience \in {"none", "present", "past"}
        /\ ck.sources \subseteq Types /\ ck.targets \subseteq Types
    BY DEF WorkInv, CatalogInv
  <2>3. \A t \in Types : ck.catalog[t] \in {0} \cup DOMAIN artifact
    <3>1. Len(artifact) \in Nat /\ DOMAIN artifact = 1..Len(artifact)
      BY DEF WorkInv, RowsInv
    <3>2. \A i \in 0..Len(artifact) : i = 0 \/ i \in 1..Len(artifact) BY <3>1
    <3>3. \A t \in Types : ck.catalog[t] \in 0..Len(artifact) BY DEF WorkInv, CatalogInv
    <3> QED BY <3>1, <3>2, <3>3
  <2>4. \A r \in Runs : turn[r].pc \in Pcs BY DEF TurnInv, Turns
  <2>5. lock # 0 => turn[lock].pc \in Graph BY DEF TurnInv
  <2>6. open # 0 => turn[open].pc \notin {"new", "settled"} BY DEF TurnInv, OpenInv
  <2> QED BY <2>1, <2>2, <2>3, <2>4, <2>5, <2>6 DEF TypeOK, Pcs, Graph
<1> QED BY <1>1, TurnsHold, PTL

\* Whatever jobs fail, in whatever order, and whatever is cut short, a type with a ready
\* artifact shows exactly one, the highest revision of its root, unless something failed
\* after that one had been marked ready (mark_artifact_ready, create_revision_artifact).
THEOREM LatestIsCurrent == Spec => []CurrentArtifactIsLatest
<1>1. WorkInv => CurrentArtifactIsLatest
  <2> SUFFICES ASSUME WorkInv, NEW i \in DOMAIN artifact, artifact[i].status = "ready"
               PROVE  /\ \/ Cardinality(ReadyCurrent(artifact[i].type)) = 1
                         \/ /\ artifact[i].type \in lost
                            /\ ReadyCurrent(artifact[i].type) = {}
                      /\ \A j \in ReadyCurrent(artifact[i].type) :
                           i # j /\ artifact[i].root = artifact[j].root =>
                             artifact[i].revision < artifact[j].revision
    BY DEF CurrentArtifactIsLatest
  <2> DEFINE S == ReadyCurrent(artifact[i].type)
  <2>1. i \in Ready BY DEF Ready
  <2>2. \A j : j \in S <=> j \in Shown /\ artifact[j].type = artifact[i].type
    BY DEF ReadyCurrent, Shown, Ready
  <2> HIDE DEF S
  <2>3. CASE S = {}
    <3>1. artifact[i].type \in lost BY <2>1, <2>2, <2>3 DEF WorkInv, ShownInv
    <3> QED BY <2>3, <3>1 DEF S
  <2>4. CASE S # {}
    <3>1. PICK j : j \in S BY <2>4
    <3>2. \A k \in S : k = j BY <2>2, <3>1 DEF WorkInv, ShownInv
    <3>3. S = {j} BY <3>1, <3>2
    <3>4. Cardinality(S) = 1 BY <3>3, FS_Singleton
    <3>5. Tops(j) BY <2>2, <3>1 DEF WorkInv, ShownInv
    <3> QED BY <2>1, <3>2, <3>4, <3>5 DEF Tops, S
  <2> QED BY <2>3, <2>4
<1> QED BY <1>1, TurnsHold, PTL

\* The fan-in tells about exactly the artifacts asked for, as their rows are, and no row is
\* left running that nobody works on or cut short (artifact_fan_in_node).
THEOREM ReportIsTrue == Spec => []ReportMatchesRows
<1>1. TurnInv /\ WorkInv => ReportMatchesRows
  <2> SUFFICES ASSUME TurnInv, WorkInv PROVE ReportMatchesRows
    OBVIOUS
  <2>1. ReportInv BY DEF WorkInv
  <2>2. \A i \in DOMAIN artifact : artifact[i].status = "running" =>
          artifact[i].run \in cut \/ (lock = artifact[i].run /\ job[artifact[i].type].id = i)
    BY <2>1 DEF ReportInv
  <2> QED BY <2>1, <2>2 DEF ReportInv, ReportMatchesRows
<1> QED BY <1>1, TurnsHold, PTL

\* A design is made with the experience of the present task, whatever earlier tasks and
\* wordings left in the checkpoint (teaching_context_prepare_node).
THEOREM PlanIsPresent == Spec => []PlanUsesPresentExperience
<1>1. WorkInv => PlanUsesPresentExperience
  BY DEF WorkInv, PlanInv, PlanUsesPresentExperience
<1> QED BY <1>1, TurnsHold, PTL
=============================================================================
