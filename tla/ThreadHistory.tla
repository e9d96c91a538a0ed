--------------------------- MODULE ThreadHistory ---------------------------
(***************************************************************************)
(* The messages of one thread: what a turn adds to them, which part of     *)
(* them the nodes show to a model, and what compression makes of them      *)
(* (core/graph.py, core/conversation_orchestration.py,                     *)
(* core/context_compression.py, core/model_access/messages.py).            *)
(*                                                                         *)
(* A message is its place in "said", everything that was ever put into the *)
(* thread; "history" lists the messages of the checkpoint.  Which answer a *)
(* model gives is arbitrary.                                               *)
(***************************************************************************)
EXTENDS Naturals, Sequences, FiniteSets, SequencesExt, FiniteSetsExt

CONSTANTS
  Turns,       \* bound on the messages of the user
  Restarts,    \* bound on restarts of the intake
  KeepTurns,   \* CompressionSettings.keep_recent_turns
  ViewLimit,   \* recent messages an entry or an intake looks at
  FallbackOn   \* is_structured_fallback_enabled()

ASSUME HistoryAssumption ==
  /\ Turns \in Nat /\ Restarts \in Nat
  /\ KeepTurns \in Nat \ {0}
  /\ ViewLimit \in Nat
  /\ FallbackOn \in BOOLEAN

VARIABLES
  said,      \* every message of the thread, in the order of their creation
  history,   \* the messages of the checkpoint, as places in "said"
  at,        \* the node that is next, "idle" after the graph's end or a failure
  running,   \* a run executes the graph
  start,     \* teaching_task_start_message_index
  opened,    \* the message that opened the teaching task
  asked,     \* the first message of the user's last input
  stray,     \* the user saw text in this run that is in no message
  refused,   \* this run threw a memory-assisted answer away
  restarts

historyVars == <<said, history, at, running, start, opened, asked, stray, refused, restarts>>

HistoryInit ==
  /\ said = <<>> /\ history = <<>>
  /\ at = "idle" /\ running = FALSE
  /\ start = 0 /\ opened = 0 /\ asked = 0
  /\ stray = FALSE /\ refused = FALSE
  /\ restarts = 0

-----------------------------------------------------------------------------
\* Messages

\* "call" is an AI message with one tool call, "text" one without; "reply" is a tool message
Kind(i) == said[i].kind
Human(i) == Kind(i) = "human"
System(i) == Kind(i) \in {"attachment", "summary"}

Plain(kind) == [kind |-> kind, of |-> {}]

\* build_input_messages
Input(attached) ==
  (IF attached THEN <<Plain("attachment")>> ELSE <<>>) \o <<Plain("human")>>

\* A call of a model, which the provider may have given an empty identifier: "of" is what
\* the identifier stands for.  An action is one call (parse_action_message).
Call(named) == [kind |-> "call", of |-> IF named THEN {Len(said) + 1} ELSE {}]

\* _visible_action_messages: the response and a reply to its call, whose identifier nobody looks at
Exchange(named) == <<Call(named), [kind |-> "reply", of |-> {Len(said) + 1}]>>

\* a call of the history has no identifier
Nameless == \E i \in ToSet(history) : Kind(i) = "call" /\ said[i].of = {}

\* the members of a set of numbers, in ascending order
Ascending(places) ==
  [n \in 1..Cardinality(places) |->
     CHOOSE p \in places : Cardinality({q \in places : q <= p}) = n]

\* what stands in h at these places, in the order of h
Picked(h, places) == LET order == Ascending(places) IN [n \in DOMAIN order |-> h[order[n]]]

\* langgraph's add_messages: what is known keeps its place, what is not comes last
AddMessages(removed, added) ==
  Picked(history, {n \in DOMAIN history : history[n] \notin removed \/ history[n] \in ToSet(added)})
    \o Picked(added, {n \in DOMAIN added : added[n] \notin ToSet(history)})

Say(messages) ==
  /\ said' = said \o messages
  /\ history' = AddMessages({}, [i \in DOMAIN messages |-> Len(said) + i])

-----------------------------------------------------------------------------
\* Views of the history (model_access/messages.py)

\* the calls among the first n messages of h that have no reply there
Pending(h, n) ==
  {h[i] : i \in {j \in 1..n : Kind(h[j]) = "call"}}
    \ UNION {said[h[i]].of : i \in {j \in 1..n : Kind(h[j]) = "reply"}}

\* exchange_boundaries does not raise; as nothing is pending when a call comes, its
\* identifier is none of those that are
Valid(h) ==
  \A n \in DOMAIN h :
    /\ Kind(h[n]) \in {"human", "text", "call"} => Pending(h, n - 1) = {}
    /\ Kind(h[n]) = "call" => said[h[n]].of # {}
    /\ Kind(h[n]) = "reply" => said[h[n]].of \subseteq Pending(h, n - 1)

\* the cuts that separate no call from its reply
Boundaries(h) == {n \in 0..Len(h) : Pending(h, n) = {}}

BoundaryUpTo(h, n) == Max({b \in Boundaries(h) : b <= n})

FaultyRecentHistory(h, limit) == SubSeq(h, Max({Len(h) - limit, 0}) + 1, Len(h))

\* recent_history
RecentHistory(h, limit) ==
  LET cut == BoundaryUpTo(h, Max({Len(h) - limit, 0})) IN
  Picked(h, {n \in 1..cut : System(h[n])}) \o SubSeq(h, cut + 1, Len(h))

\* the messages of the teaching task
Task == SubSeq(history, start + 1, Len(history))

\* nothing is cut out of h in the middle of an exchange (prepare_history)
Whole(h) == Valid(h) /\ Len(h) \in Boundaries(h)

\* the view of a node can be built, and converted for any provider
EntryView == Whole(history) /\ Whole(RecentHistory(history, ViewLimit))
IntakeView == Whole(Task) /\ Whole(RecentHistory(Task, ViewLimit))

-----------------------------------------------------------------------------
\* The answer of a model (_invoke_action_protocol, ProtocolHistoryMixin)

\* What a request may bring: a text, an action alone or below a text, an answer the parser
\* refuses or a broken stream, either after visible text or not, an error before the first
\* chunk that may pass, and an error that forbids a second attempt.
Replies ==
  {"text", "action", "action below text", "bad", "bad text", "transient", "denied"}

\* One attempt: the mixin repeats it after an error that may pass; both attempts together
\* make two requests (RequestBudget).
Attempt(replies, used) ==
  IF used = 2 THEN [reply |-> "denied", used |-> 2]
  ELSE IF replies[used + 1] = "transient" /\ used = 0 THEN [reply |-> replies[2], used |-> 2]
  ELSE [reply |-> replies[used + 1], used |-> used + 1]

FaultyAgain(reply) == reply \in {"bad", "bad text", "transient"}

\* fallback_allowed, and no text is visible yet
Again(reply) == reply \in {"bad", "transient"}

\* the reply that counts, and whether an earlier one left text on the screen
Answer(replies) ==
  LET first == Attempt(replies, 0)
      second == Attempt(replies, first.used)
  IN
  IF ~Again(first.reply) THEN [reply |-> first.reply, seen |-> FALSE]
  ELSE IF FallbackOn THEN [reply |-> second.reply, seen |-> first.reply = "bad text"]
  ELSE [reply |-> first.reply, seen |-> first.reply = "bad text"]

Answers == {Answer(replies) : replies \in [1..2 -> Replies]}

TextOf(a) == a.reply = "text"
ActionOf(a) == a.reply \in {"action", "action below text"}
\* ActionProtocolError: no attempt was accepted
Rejected(a) == Again(a.reply)

-----------------------------------------------------------------------------
\* A run

Goto(node) ==
  /\ at' = node
  /\ UNCHANGED <<running, asked, restarts>>

KeepTask == UNCHANGED <<start, opened>>

\* the user's message comes with a new run, for the entry or for the interrupt it answers
Listen(node) ==
  /\ ~running
  /\ Cardinality({i \in DOMAIN said : Human(i)}) < Turns
  /\ \E attached \in BOOLEAN : Say(Input(attached))
  /\ asked' = Len(said) + 1
  /\ at' = node /\ running' = TRUE
  /\ stray' = FALSE /\ refused' = FALSE
  /\ UNCHANGED <<start, opened, restarts>>

\* an approval resumes the run without a message
Consent(node) ==
  /\ ~running
  /\ at' = node /\ running' = TRUE
  /\ stray' = FALSE /\ refused' = FALSE
  /\ UNCHANGED <<said, history, start, opened, asked, restarts>>

Ask == at = "idle" /\ Listen("entry")

\* the interrupts: interrupt_for_userinput and the three reviews
AnswerInput == at = "input" /\ Listen("intake")
AnswerMetadata == at = "metadata" /\ (Listen("intake") \/ Consent("planner"))
AnswerDesign == at = "design" /\ (Listen("planner") \/ Consent("jobs") \/ Consent("nothing"))
AnswerClarify == at = "clarify" /\ (Listen("router") \/ Consent("jobs"))

\* A node raises, its view cannot be built, or the run is cancelled: what the run had put
\* into the checkpoint before stays there.
Fail ==
  /\ running
  /\ at' = "idle" /\ running' = FALSE
  /\ UNCHANGED <<said, history, start, opened, asked, stray, refused, restarts>>

Working(node) == running /\ at = node

\* a node gets an answer of its model
Hears(a) == stray' = (stray \/ a.seen)

FaultyTaskStart == Max({n \in 0..Len(history) - 1 : Human(history[n + 1])})

\* new_teaching_task_update: the latest message of the user, or its attachments
TaskStart ==
  LET latest == Max({n \in 0..Len(history) - 1 : Human(history[n + 1])}) IN
  IF latest > 0 /\ Kind(history[latest]) = "attachment" THEN latest - 1 ELSE latest

NewTask == start' = TaskStart /\ opened' = asked

\* conversation_entry_agent: a text ends the turn
EntryText ==
  /\ Working("entry") /\ EntryView
  /\ \E a \in Answers : TextOf(a) /\ Hears(a)
  /\ Say(<<Plain("text")>>)
  /\ Goto("end") /\ KeepTask /\ UNCHANGED refused

\* an action starts a teaching task, or the revision of artifacts
EntryAction ==
  /\ Working("entry") /\ EntryView
  /\ \E a \in Answers : ActionOf(a) /\ Hears(a)
  /\ \E named \in BOOLEAN : Say(Exchange(named))
  /\ \/ Goto("intake") /\ NewTask
     \/ Goto("router") /\ KeepTask
  /\ UNCHANGED refused

\* search_experience: a second answer is made with what was found; it must be a text, and
\* none is made for a call without an identifier
EntrySearch ==
  /\ Working("entry") /\ EntryView
  /\ \E a, b \in Answers :
       /\ ActionOf(a)
       /\ \/ /\ TextOf(b)
             /\ Say(Exchange(TRUE) \o <<Plain("text")>>)
             /\ stray' = (stray \/ a.seen \/ b.seen)
             /\ UNCHANGED refused
          \/ /\ Rejected(b) \/ ActionOf(b)
             /\ Say(<<Plain("text")>>)
             /\ stray' = (stray \/ a.seen \/ b.seen \/ "action below text" \in {a.reply, b.reply})
             /\ refused' = TRUE
  /\ Goto("end") /\ KeepTask

\* a safe answer when no action or text could be accepted
EntrySafe ==
  /\ Working("entry") /\ EntryView
  /\ \E a \in Answers : Rejected(a) /\ Hears(a)
  /\ Say(<<Plain("text")>>)
  /\ Goto("end") /\ KeepTask /\ UNCHANGED refused

\* teaching_intake_agent: the user cancels by a known word
IntakeCancelled ==
  /\ Working("intake")
  /\ Say(<<Plain("text")>>)
  /\ Goto("end") /\ KeepTask /\ UNCHANGED <<stray, refused>>

\* a question, or the standard one when no answer could be accepted
IntakeAsks ==
  /\ Working("intake") /\ IntakeView
  /\ \E a \in Answers : (TextOf(a) \/ Rejected(a)) /\ Hears(a)
  /\ Say(<<Plain("text")>>)
  /\ Goto("input") /\ KeepTask /\ UNCHANGED refused

\* an action: submit the metadata, cancel, or restart with another task
IntakeActs ==
  /\ Working("intake") /\ IntakeView
  /\ \E a \in Answers : ActionOf(a) /\ Hears(a)
  /\ \E named \in BOOLEAN :
       \/ Say(Exchange(named)) /\ Goto("metadata") /\ KeepTask
       \/ Say(Exchange(named) \o <<Plain("text")>>) /\ Goto("end") /\ KeepTask
       \/ /\ restarts < Restarts
          /\ restarts' = restarts + 1
          /\ Say(Exchange(named)) /\ NewTask
          /\ UNCHANGED <<at, running, asked>>
  /\ UNCHANGED refused

\* teaching_design_planner sees the whole history and adds the design
Plan ==
  /\ Working("planner") /\ Valid(history)
  /\ Say(<<Plain("text")>>)
  /\ Goto("design") /\ KeepTask /\ UNCHANGED <<stray, refused>>

\* artifact_revision_router_node
RouterAsks ==
  /\ Working("router")
  /\ Goto("clarify")
  /\ UNCHANGED <<said, history, start, opened, stray, refused>>

RouterRoutes ==
  /\ Working("router")
  /\ Goto("jobs")
  /\ UNCHANGED <<said, history, start, opened, stray, refused>>

\* what ends with a message to the user: nothing selected, nothing to revise, the summary
\* of the fan-in
Report ==
  /\ \E node \in {"nothing", "router", "jobs"} : Working(node)
  /\ Say(<<Plain("text")>>)
  /\ Goto("end") /\ KeepTask /\ UNCHANGED <<stray, refused>>

-----------------------------------------------------------------------------
\* The end of a run, with compression (_maybe_compress_thread_context)

Interrupts == {"input", "metadata", "design", "clarify"}

FaultyResumable == FALSE

\* _has_resumable_interrupt, and the approvals after which compression is not tried
Resumable == at \in Interrupts

\* _recent_turn_cutoff and build_compression_plan: 0 when there is nothing to compress
Cutoff ==
  LET humans == Ascending({n \in DOMAIN history : Human(history[n])}) IN
  IF ~Whole(history) \/ Len(humans) <= KeepTurns THEN 0
  ELSE BoundaryUpTo(history, humans[Len(humans) - KeepTurns + 1] - 1)

\* what a message stands for: a summary of a summary covers what that one covered
Covered(i) == IF Kind(i) = "summary" THEN said[i].of ELSE {i}

FaultyReplacement(summary, retained) == AddMessages(ToSet(history), <<summary>>)

\* build_replacement_update: everything is removed, the summary and the rest are added
Replacement(summary, retained) == AddMessages(ToSet(history), <<summary>> \o retained)

\* compress_state_messages: the messages before the cut are replaced by their summary
Compress ==
  /\ Cutoff > 0
  /\ said' = Append(said, [kind |-> "summary",
                           of |-> UNION {Covered(history[n]) : n \in 1..Cutoff}])
  /\ history' = Replacement(Len(said) + 1, SubSeq(history, Cutoff + 1, Len(history)))

\* The run ends; compression may be off, below its threshold, fail, or replace old messages.
End ==
  /\ running /\ at \in Interrupts \cup {"end"}
  /\ running' = FALSE
  /\ at' = IF at = "end" THEN "idle" ELSE at
  /\ \/ UNCHANGED <<said, history>>
     \/ ~Resumable /\ Compress
  /\ UNCHANGED <<start, opened, asked, stray, refused, restarts>>

-----------------------------------------------------------------------------
HistoryNext ==
  \/ Ask \/ AnswerInput \/ AnswerMetadata \/ AnswerDesign \/ AnswerClarify
  \/ EntryText \/ EntryAction \/ EntrySearch \/ EntrySafe
  \/ IntakeCancelled \/ IntakeAsks \/ IntakeActs
  \/ Plan \/ RouterAsks \/ RouterRoutes \/ Report
  \/ End \/ Fail

-----------------------------------------------------------------------------
\* what people, models and tools said
Spoken(i) == Kind(i) # "summary"

\* Every view a node builds keeps calls and replies together, so that a thread never becomes
\* one whose turns all fail, unless a provider gave a call an empty identifier: it is stored
\* as it came, and every later view is refused.
ViewsAreValid == EntryView \/ Nameless

\* The history is in the order in which its messages were made, and what follows a message of
\* it is in it; whatever was said is there or in a summary that is; and at least the last
\* KeepTurns turns are there word for word.
NothingForgotten ==
  /\ \A m, n \in DOMAIN history : m < n => history[m] < history[n]
  /\ \A i, j \in {k \in DOMAIN said : Spoken(k)} :
       i < j /\ i \in ToSet(history) => j \in ToSet(history)
  /\ {i \in DOMAIN said : Spoken(i)} \subseteq UNION {Covered(i) : i \in ToSet(history)}
  /\ \A i \in {k \in DOMAIN said : Human(k)} :
       Cardinality({j \in DOMAIN said : Human(j) /\ j >= i}) <= KeepTurns => i \in ToSet(history)

\* Repeated compression keeps no more summaries than turns: a summary comes after the turns
\* that are kept (SummaryInFront is not so), and goes when they do.
SummariesBounded == Cardinality({i \in ToSet(history) : Kind(i) = "summary"}) <= KeepTurns

\* While a teaching task collects its metadata its window begins with the input that opened
\* it, and can be shown to the model unless a call has no identifier.
TaskWindowKept ==
  at \in {"intake", "input", "metadata"} => (IntakeView \/ Nameless) /\ Head(Task) = opened

\* Text the user saw in a run that goes on is in a message, unless a memory-assisted answer
\* was thrown away.
SeenIsSaid == stray => refused

\* Compression leaves one summary, followed by the turns that are kept
\* (docs/context-compression.md:42).  It does not: the turns are known messages to the
\* checkpoint and keep their places, and the summary is appended behind them.
SummaryInFront == \A n \in DOMAIN history : Kind(history[n]) = "summary" => n = 1

HistoryKept ==
  /\ ViewsAreValid
  /\ NothingForgotten
  /\ SummariesBounded
  /\ TaskWindowKept
  /\ SeenIsSaid
=============================================================================
