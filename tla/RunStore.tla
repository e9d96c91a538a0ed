------------------------------ MODULE RunStore ------------------------------
(***************************************************************************)
(* The Redis keys of one chat run and the scripts of core/chat_run_events  *)
(* that work on them, each an atomic operator on a store: the stream, the  *)
(* last_sequence field of the metadata hash and the output string.  A      *)
(* token payload is the sequence of the fragments it carries, so that the  *)
(* output string is the concatenation of fragments.                        *)
(***************************************************************************)
EXTENDS Naturals, Sequences

\* an event to be appended: its text, and for an event the agent emitted
\* after some fragments how many of them there were
Event(type, text, mark) == [type |-> type, text |-> text, mark |-> mark]

EmptyStore == [log |-> <<>>, last |-> 0, output |-> <<>>]

\* one entry of the stream under the id <seq>-0
Entry(seq, e) == [id |-> seq, type |-> e.type, text |-> e.text, mark |-> e.mark]

\* _APPEND_SCRIPT: HINCRBY, XADD under the new sequence, APPEND the text
Appended(st, e) ==
  [log    |-> Append(st.log, Entry(st.last + 1, e)),
   last   |-> st.last + 1,
   output |-> st.output \o e.text]

FaultyTerminalAccepts(st, seq) == st.last <= seq

\* _TERMINAL_SCRIPT inserts done only right after the last sequence, or when
\* the keys are gone
TerminalAccepts(st, seq) == st.last < seq /\ st.last \in {0, seq - 1}

Terminated(st, seq) ==
  IF TerminalAccepts(st, seq)
    THEN [st EXCEPT !.log = Append(@, Entry(seq, Event("done", <<>>, 0))),
                    !.last = seq]
    ELSE st

\* get_snapshot returns None when neither key exists
HasSnapshot(st) == st.last # 0

\* read_after: the positions of the stream a cursor has not passed
After(st, cursor) == {i \in 1..Len(st.log) : st.log[i].id > cursor}
=============================================================================
