------------------------- MODULE ExperienceRetrieval -------------------------
(***************************************************************************)
(* One look into the user's experiences for a request: search, choice and  *)
(* reading, while the user and the reflection worker change the same store *)
(* (core/memory_retrieval.py, core/memory.py).                             *)
(***************************************************************************)
EXTENDS Naturals, Sequences, FiniteSets, SequencesExt

CONSTANTS
  Ids,          \* ids of experiences; one that was deleted is not used again
  ItemLimit,    \* MemoryRequest.max_items
  MaxChanges    \* bound on the changes of the store

ASSUME RetrievalAssumption ==
  IsFiniteSet(Ids) /\ ItemLimit \in Nat \ {0} /\ MaxChanges \in Nat

VARIABLES
  store,       \* the experiences of the user
  semantic,    \* get_experience_memory_semantic_enabled()
  phase,       \* where the request is
  candidates,  \* the bounded summaries, as they were found
  chosen,      \* selected_ids
  bundle,      \* the items of the MemoryBundle
  degraded,    \* MemoryBundle.degraded
  then,        \* the store when the choice was made
  changes

retrievalVars == <<store, semantic, phase, candidates, chosen, bundle, degraded, then, changes>>

\* "exact" is an experience whose title the request contains, "close" one whose score is
\* high, "bare" one without a summary
Kinds == {"exact", "close", "other", "bare"}
\* not yet, or no longer, in the store
Gone == {"new", "deleted"}

Item(kind, stamp) == [kind |-> kind, stamp |-> stamp]

RetrievalInit ==
  /\ store \in [Ids -> {Item(k, 0) : k \in Kinds \cup {"new"}}]
  /\ semantic \in BOOLEAN
  /\ phase = "asked"
  /\ candidates = <<>> /\ chosen = <<>> /\ bundle = <<>>
  /\ degraded = FALSE
  /\ then = store
  /\ changes = 0

Present(id) == store[id].kind \notin Gone

-----------------------------------------------------------------------------
\* The store

Write(id, kind) ==
  /\ changes < MaxChanges
  /\ changes' = changes + 1
  /\ store' = [store EXCEPT ![id] = Item(kind, changes + 1)]
  /\ UNCHANGED <<semantic, phase, candidates, chosen, bundle, degraded, then>>

\* put_memory_item: a new experience or new content
Put(id) == store[id].kind # "deleted" /\ \E kind \in Kinds : Write(id, kind)

\* delete_memory_item
Delete(id) == Present(id) /\ Write(id, "deleted")

-----------------------------------------------------------------------------
\* The request (MemoryContextProvider.resolve)

\* experience_summaries
Listed == {id \in Ids : Present(id) /\ store[id].kind # "bare"}

\* Found by their scores, or the latest first; a score that is high comes before one that is not.
Ordered(ids) ==
  \A i, j \in DOMAIN ids : i < j =>
    IF semantic
      THEN ~(store[ids[i]].kind = "other" /\ store[ids[j]].kind = "close")
      ELSE store[ids[i]].stamp >= store[ids[j]].stamp

\* semantic_search_experience_items, search_memory_items
Found == {ids \in [1..Cardinality(Listed) -> Listed] : IsInjective(ids) /\ Ordered(ids)}

\* _bounded_summaries: as many of the first as there is room for, one at least
Bounded(ids) == {SubSeq(ids, 1, n) : n \in 1..Len(ids)}

\* the places of those of a kind
OfKind(ids, kind) == {i \in DOMAIN ids : store[ids[i]].kind = kind}

FaultyCapped(ids) == ids

Capped(ids) == IF Len(ids) > ItemLimit THEN SubSeq(ids, 1, ItemLimit) ELSE ids

\* _select_ids without the selector: exact titles, else scores that are high
Confident(ids) ==
  IF OfKind(ids, "exact") # {} THEN OfKind(ids, "exact")
  ELSE IF semantic THEN OfKind(ids, "close") ELSE {}

\* the ids at these places, in their order
InOrder(ids, places) ==
  {[i \in DOMAIN s |-> ids[s[i]]] :
     s \in {s \in [1..Cardinality(places) -> places] : \A i, j \in DOMAIN s : i < j => s[i] < s[j]}}

Finish(items, failed) ==
  /\ phase' = "over"
  /\ bundle' = items
  /\ degraded' = failed
  /\ UNCHANGED <<store, semantic, changes>>

\* the query is empty, or nothing was found
SearchEmpty ==
  /\ phase = "asked"
  /\ Finish(<<>>, FALSE)
  /\ UNCHANGED <<candidates, chosen, then>>

Search ==
  /\ phase = "asked" /\ Listed # {}
  /\ \E ids \in Found : candidates' \in Bounded(ids)
  /\ phase' = IF Confident(candidates') = {} THEN "selecting" ELSE "reading"
  /\ chosen' \in {Capped(ids) : ids \in InOrder(candidates', Confident(candidates'))}
  /\ then' = store
  /\ UNCHANGED <<store, semantic, bundle, degraded, changes>>

\* Some of the candidates the selector names; what it makes up or repeats is left out.
Select ==
  /\ phase = "selecting"
  /\ \E ids \in UNION {[1..n -> ToSet(candidates)] : n \in 0..Len(candidates)} :
       IsInjective(ids) /\ chosen' = Capped(ids)
  /\ phase' = "reading"
  /\ then' = store
  /\ UNCHANGED <<store, semantic, candidates, bundle, degraded, changes>>

FaultyRead(id) == <<[id |-> id, stamp |-> then[id].stamp]>>

\* get_memory_item
Read(id) == IF Present(id) THEN <<[id |-> id, stamp |-> store[id].stamp]>> ELSE <<>>

ReadNext ==
  /\ phase = "reading" /\ chosen # <<>>
  /\ bundle' = bundle \o Read(Head(chosen))
  /\ chosen' = Tail(chosen)
  /\ UNCHANGED <<store, semantic, phase, candidates, degraded, then, changes>>

ReadAll ==
  /\ phase = "reading" /\ chosen = <<>>
  /\ Finish(bundle, FALSE)
  /\ UNCHANGED <<candidates, chosen, then>>

\* The store, its index or the selector fails; no request of the code says it is required.
Degrade ==
  /\ phase # "over"
  /\ Finish(<<>>, TRUE)
  /\ UNCHANGED <<candidates, chosen, then>>

RetrievalNext ==
  \/ SearchEmpty \/ Search \/ Select \/ ReadNext \/ ReadAll \/ Degrade
  \/ \E id \in Ids : Put(id) \/ Delete(id)

-----------------------------------------------------------------------------
\* What a model is shown of the experiences had not been deleted when the choice was made
\* and is not older than it was then, comes once, was a candidate and stays within the limit.
ExperienceIsUsable ==
  phase = "over" =>
    /\ Len(bundle) <= ItemLimit
    /\ \A i, j \in DOMAIN bundle : bundle[i].id = bundle[j].id => i = j
    /\ \A item \in ToSet(bundle) :
         /\ item.id \in ToSet(candidates)
         /\ then[item.id].kind # "deleted"
         /\ item.stamp >= then[item.id].stamp
    /\ degraded => bundle = <<>>
=============================================================================
