------------------------ MODULE ThreadHistory_proofs ------------------------
(***************************************************************************)
(* Proofs about ThreadHistory, for any numbers of turns, restarts, kept    *)
(* turns and shown messages, with and without a second attempt.            *)
(***************************************************************************)
EXTENDS ThreadHistory, FiniteSetTheorems, SequenceTheorems, WellFoundedInduction, TLAPS

-----------------------------------------------------------------------------
(* Sets of numbers, and their members in ascending order                   *)

\* A nonempty set of naturals has a least element.
LEMMA LeastMember ==
  ASSUME NEW S, S \subseteq Nat, S # {}
  PROVE  \E x \in S : \A y \in S : x <= y
<1>1. PICK R : IsWellFoundedOn(R, Nat) /\ \A x, y \in Nat : x < y => <<x, y>> \in R
  <2>1. \A x, y \in Nat : x < y => <<x, y>> \in OpToRel(<, Nat)
    BY DEF OpToRel
  <2> QED BY <2>1, NatLessThanWellFounded, Zenon
<1>2. PICK x \in S : \A y \in S : ~(<<y, x>> \in R)
  <2>1. IsWellFoundedOn(R, Nat) BY <1>1
  <2> HIDE DEF IsWellFoundedOn
  <2> QED BY <2>1, WFMin, Zenon
<1>3. \A y \in S : x <= y
  <2> TAKE y \in S
  <2>1. x \in Nat /\ y \in Nat OBVIOUS
  <2>2. ~(y < x) BY <1>1, <1>2, <2>1
  <2> QED BY <2>1, <2>2
<1> QED BY <1>3

\* One that is bounded has a greatest, which Max is.
LEMMA GreatestMember ==
  ASSUME NEW S, S \subseteq Nat, S # {}, NEW b \in Nat, \A x \in S : x <= b
  PROVE  Max(S) \in S /\ \A x \in S : x <= Max(S)
<1>1. PICK T : T = {n \in Nat : \E x \in S : n = b - x} OBVIOUS
<1>2. \A x \in S : x \in Nat /\ x <= b /\ b - x \in T BY <1>1
<1>3. T \subseteq Nat /\ T # {} BY <1>1, <1>2
<1>4. PICK d \in T : \A e \in T : d <= e BY <1>3, LeastMember
<1>5. PICK x \in S : d = b - x BY <1>1, <1>4
<1>6. \A y \in S : x >= y
  <2> TAKE y \in S
  <2>1. d <= b - y BY <1>2, <1>4
  <2> QED BY <1>2, <1>5, <2>1
<1>7. Max(S) \in S /\ \A y \in S : Max(S) >= y BY <1>6 DEF Max
<1> QED BY <1>2, <1>7

\* how many members of S are not above p
Rank(S, p) == Cardinality({q \in S : q <= p})

\* Ranks are positive, no larger than the set, and grow with the member.
LEMMA RankGrows ==
  ASSUME NEW S, S \subseteq Nat, IsFiniteSet(S)
  PROVE  /\ Cardinality(S) \in Nat
         /\ \A p \in S : Rank(S, p) \in 1..Cardinality(S)
         /\ \A p, q \in S : p < q => Rank(S, p) < Rank(S, q)
<1>1. Cardinality(S) \in Nat BY FS_CardinalityType
<1>2. \A p \in S :
        /\ IsFiniteSet({q \in S : q <= p}) /\ Rank(S, p) \in Nat
        /\ Rank(S, p) <= Cardinality(S)
  <2> TAKE p \in S
  <2>1. {q \in S : q <= p} \in SUBSET S OBVIOUS
  <2> QED BY <2>1, FS_Subset, FS_CardinalityType DEF Rank
<1>3. \A p \in S : Rank(S, p) # 0
  <2> TAKE p \in S
  <2>1. p \in {q \in S : q <= p} OBVIOUS
  <2>2. {q \in S : q <= p} # {} BY <2>1
  <2> QED BY <1>2, <2>2, FS_EmptySet DEF Rank
<1>4. ASSUME NEW p \in S, NEW q \in S, p < q
      PROVE  Rank(S, p) < Rank(S, q)
  <2>1. PICK P : P = {r \in S : r <= p} OBVIOUS
  <2>2. PICK Q : Q = {r \in S : r <= q} OBVIOUS
  <2>3. P \in SUBSET Q /\ q \in Q /\ q \notin P
    <3>1. p \in Nat /\ q \in Nat /\ \A r \in S : r \in Nat OBVIOUS
    <3>2. \A r \in S : r <= p => r <= q BY <1>4, <3>1
    <3>3. q <= q /\ ~(q <= p) BY <1>4, <3>1
    <3> QED BY <2>1, <2>2, <3>2, <3>3
  <2>4. IsFiniteSet(Q) BY <1>2, <2>2
  <2>5. Cardinality(P) <= Cardinality(Q) /\ Cardinality(P) # Cardinality(Q)
    BY <2>3, <2>4, FS_Subset
  <2> QED BY <1>2, <2>1, <2>2, <2>5 DEF Rank
<1>5. ASSUME NEW p \in S PROVE Rank(S, p) \in 1..Cardinality(S)
  <2>1. Rank(S, p) \in Nat /\ Rank(S, p) <= Cardinality(S) BY <1>2
  <2>2. Rank(S, p) # 0 BY <1>3
  <2> QED BY <1>1, <2>1, <2>2
<1> QED BY <1>1, <1>4, <1>5

\* Every number up to the size of the set is the rank of a member.
LEMMA RankReached ==
  ASSUME NEW S, S \subseteq Nat, IsFiniteSet(S), NEW n \in 1..Cardinality(S)
  PROVE  \E p \in S : Rank(S, p) = n
<1>1. PICK T : T = {p \in S : Rank(S, p) >= n} OBVIOUS
<1>2. /\ Cardinality(S) \in Nat
      /\ \A p \in S : Rank(S, p) \in 1..Cardinality(S)
      /\ \A p, q \in S : p < q => Rank(S, p) < Rank(S, q)
  BY RankGrows
<1>3. S # {}
  <2>1. Cardinality(S) # 0 BY <1>2
  <2> QED BY <2>1, FS_EmptySet
<1>4. T # {}
  <2>1. PICK b \in S : \A x \in S : x <= b
    <3>1. PICK m \in Nat : ExistsSurjection(1..m, S) BY FS_NatSurjection
    <3>2. SUFFICES ASSUME \A b \in S : \E x \in S : ~(x <= b) PROVE FALSE OBVIOUS
    <3>3. \A p \in S : \E q \in S : Rank(S, p) < Rank(S, q)
      <4> TAKE p \in S
      <4>1. PICK q \in S : ~(q <= p) BY <3>2
      <4>2. p \in Nat /\ q \in Nat OBVIOUS
      <4>3. p < q BY <4>1, <4>2
      <4> QED BY <1>2, <4>3
    <3>4. PICK D : D = {d \in Nat : \E p \in S : d = Cardinality(S) - Rank(S, p)} OBVIOUS
    <3>5. \A p \in S : Cardinality(S) - Rank(S, p) \in D BY <1>2, <3>4
    <3>6. D \subseteq Nat /\ D # {} BY <1>3, <3>4, <3>5
    <3>7. PICK d \in D : \A e \in D : d <= e BY <3>6, LeastMember
    <3>8. PICK p \in S : d = Cardinality(S) - Rank(S, p) BY <3>4, <3>7
    <3>9. PICK q \in S : Rank(S, p) < Rank(S, q) BY <3>3
    <3>10. d <= Cardinality(S) - Rank(S, q) BY <3>5, <3>7
    <3> QED BY <1>2, <3>8, <3>9, <3>10
  <2>2. {q \in S : q <= b} = S BY <2>1
  <2>3. Rank(S, b) = Cardinality(S) BY <2>2 DEF Rank
  <2> QED BY <1>1, <1>2, <2>1, <2>3
<1>5. T \subseteq Nat BY <1>1
<1>6. PICK p \in T : \A q \in T : p <= q BY <1>4, <1>5, LeastMember
<1>7. p \in S /\ Rank(S, p) >= n BY <1>1, <1>6
<1>8. PICK P : P = {q \in S : q <= p} OBVIOUS
<1>9. IsFiniteSet(P) /\ Cardinality(P) = Rank(S, p) /\ p \in P
  <2>1. P \in SUBSET S BY <1>8
  <2> QED BY <1>7, <1>8, <2>1, FS_Subset DEF Rank
<1>10. IsFiniteSet(P \ {p}) /\ Cardinality(P \ {p}) = Rank(S, p) - 1
  BY <1>9, FS_RemoveElement
<1>11. CASE P \ {p} = {}
  <2>1. Rank(S, p) = 1 BY <1>2, <1>7, <1>10, <1>11, FS_EmptySet
  <2> QED BY <1>2, <1>7, <2>1
<1>12. CASE P \ {p} # {}
  <2>1. P \ {p} \subseteq Nat /\ \A x \in P \ {p} : x <= p BY <1>8
  <2>2. p \in Nat BY <1>7
  <2>3. PICK m : m = Max(P \ {p}) OBVIOUS
  <2>4. m \in P \ {p} /\ \A x \in P \ {p} : x <= m BY <1>12, <2>1, <2>2, <2>3, GreatestMember
  <2>5. m \in S /\ m \in Nat /\ m < p BY <1>8, <2>2, <2>4
  <2>6. {q \in S : q <= m} = P \ {p}
    <3>1. ASSUME NEW q \in S, q <= m PROVE q \in P \ {p}
      BY <1>8, <2>2, <2>5, <3>1
    <3>2. ASSUME NEW q \in P \ {p} PROVE q \in S /\ q <= m
      BY <1>8, <2>4, <3>2
    <3> QED BY <3>1, <3>2
  <2>7. Rank(S, m) = Rank(S, p) - 1 BY <1>10, <2>6 DEF Rank
  <2>8. m \notin T BY <1>6, <1>7, <2>2, <2>5
  <2>9. Rank(S, m) < n BY <1>1, <1>2, <2>5, <2>8
  <2> QED BY <1>2, <1>7, <2>5, <2>7, <2>9
<1> QED BY <1>11, <1>12

\* Ascending lists each member at the place of its rank.
LEMMA AscendingIs ==
  ASSUME NEW S, S \subseteq Nat, IsFiniteSet(S)
  PROVE  /\ Cardinality(S) \in Nat
         /\ Ascending(S) \in [1..Cardinality(S) -> S]
         /\ \A n \in 1..Cardinality(S) : Rank(S, Ascending(S)[n]) = n
         /\ \A p \in S : Rank(S, p) \in 1..Cardinality(S) /\ Ascending(S)[Rank(S, p)] = p
         /\ \A m, n \in 1..Cardinality(S) : m < n => Ascending(S)[m] < Ascending(S)[n]
<1>1. /\ Cardinality(S) \in Nat
      /\ \A p \in S : Rank(S, p) \in 1..Cardinality(S)
      /\ \A p, q \in S : p < q => Rank(S, p) < Rank(S, q)
  BY RankGrows
<1>2. PICK f : f = Ascending(S) OBVIOUS
<1>3. f = [n \in 1..Cardinality(S) |-> CHOOSE p \in S : Rank(S, p) = n]
  BY <1>2 DEF Ascending, Rank
<1>4. \A n \in 1..Cardinality(S) : f[n] \in S /\ Rank(S, f[n]) = n
  <2> TAKE n \in 1..Cardinality(S)
  <2>1. \E p \in S : Rank(S, p) = n BY RankReached
  <2> QED BY <1>3, <2>1
<1>5. f \in [1..Cardinality(S) -> S] BY <1>3, <1>4
<1>6. \A p, q \in S : Rank(S, p) = Rank(S, q) => p = q
  <2> TAKE p, q \in S
  <2>1. p \in Nat /\ q \in Nat /\ Rank(S, p) \in Nat /\ Rank(S, q) \in Nat BY <1>1
  <2> QED BY <1>1, <2>1
<1>7. \A p \in S : f[Rank(S, p)] = p BY <1>1, <1>4, <1>6
<1>8. ASSUME NEW m \in 1..Cardinality(S), NEW n \in 1..Cardinality(S), m < n
      PROVE  f[m] < f[n]
  <2>1. f[m] \in Nat /\ f[n] \in Nat BY <1>4
  <2>2. f[m] # f[n] BY <1>1, <1>4, <1>8
  <2>3. ~(f[n] < f[m])
    <3>1. f[n] < f[m] => Rank(S, f[n]) < Rank(S, f[m]) BY <1>1, <1>4
    <3>2. f[n] < f[m] => n < m BY <1>4, <3>1
    <3> QED BY <1>8, <3>2
  <2> QED BY <2>1, <2>2, <2>3
<1> QED BY <1>1, <1>2, <1>4, <1>5, <1>7, <1>8

\* The members of an interval follow one another.
LEMMA AscendingInterval ==
  ASSUME NEW a \in Nat, NEW b \in Nat, a <= b
  PROVE  /\ IsFiniteSet((a + 1)..b) /\ Cardinality((a + 1)..b) = b - a
         /\ Ascending((a + 1)..b) = [n \in 1..(b - a) |-> a + n]
<1>1. PICK S : S = (a + 1)..b OBVIOUS
<1>2. S \subseteq Nat /\ \A n \in 1..(b - a) : a + n \in S BY <1>1
<1>3. IsFiniteSet(S) /\ Cardinality(S) = b - a
  <2>1. PICK c \in Int : c = a + 1 OBVIOUS
  <2>2. b \in Int OBVIOUS
  <2>3. /\ IsFiniteSet(c..b)
        /\ Cardinality(c..b) = IF c > b THEN 0 ELSE b - c + 1
    BY <2>1, <2>2, FS_Interval
  <2> QED BY <1>1, <2>1, <2>3
<1>4. \A n \in 1..(b - a) : Rank(S, a + n) = n
  <2> TAKE n \in 1..(b - a)
  <2>1. {q \in S : q <= a + n} = (a + 1)..(a + n) BY <1>1
  <2>2. Cardinality((a + 1)..(a + n)) = n BY FS_Interval
  <2> QED BY <2>1, <2>2 DEF Rank
<1>5. /\ Ascending(S) \in [1..(b - a) -> S]
      /\ \A p \in S : Ascending(S)[Rank(S, p)] = p
  BY <1>2, <1>3, AscendingIs
<1>6. \A n \in 1..(b - a) : Ascending(S)[n] = a + n BY <1>2, <1>4, <1>5
<1>7. Ascending(S) = [n \in 1..(b - a) |-> a + n] BY <1>5, <1>6
<1> QED BY <1>1, <1>3, <1>7

\* What is picked is a sequence of what stands there, in order, each once.
LEMMA PickedIs ==
  ASSUME NEW S, NEW h \in Seq(S), NEW P \in SUBSET DOMAIN h
  PROVE  /\ Picked(h, P) \in Seq(S)
         /\ \E order \in [DOMAIN Picked(h, P) -> P] :
              /\ \A n \in DOMAIN Picked(h, P) : Picked(h, P)[n] = h[order[n]]
              /\ \A m, n \in DOMAIN Picked(h, P) : m < n => order[m] < order[n]
<1>1. DOMAIN h = 1..Len(h) /\ Len(h) \in Nat /\ P \subseteq Nat OBVIOUS
<1>2. IsFiniteSet(P)
  <2>1. IsFiniteSet(1..Len(h)) BY <1>1, FS_Interval
  <2> QED BY <1>1, <2>1, FS_Subset
<1>3. PICK order : order = Ascending(P) OBVIOUS
<1>4. /\ Cardinality(P) \in Nat
      /\ order \in [1..Cardinality(P) -> P]
      /\ \A m, n \in 1..Cardinality(P) : m < n => order[m] < order[n]
  BY <1>1, <1>2, <1>3, AscendingIs
<1>5. PICK t : t = Picked(h, P) OBVIOUS
<1>6. t = [n \in 1..Cardinality(P) |-> h[order[n]]] BY <1>3, <1>4, <1>5 DEF Picked
<1>7. \A n \in 1..Cardinality(P) : h[order[n]] \in S BY <1>1, <1>4
<1>8. t \in Seq(S) /\ DOMAIN t = 1..Cardinality(P) BY <1>4, <1>6, <1>7
<1> QED BY <1>4, <1>5, <1>6, <1>8

\* Picking everything changes nothing; picking the places above one leaves the rest.
LEMMA PickedRest ==
  ASSUME NEW S, NEW h \in Seq(S), NEW c \in 0..Len(h)
  PROVE  Picked(h, (c + 1)..Len(h)) = SubSeq(h, c + 1, Len(h))
<1>1. c \in Nat /\ Len(h) \in Nat /\ c <= Len(h) OBVIOUS
<1>2. PICK P : P = (c + 1)..Len(h) OBVIOUS
<1>3. Ascending(P) = [n \in 1..(Len(h) - c) |-> c + n] BY <1>1, <1>2, AscendingInterval
<1>4. Picked(h, P) = [n \in 1..(Len(h) - c) |-> h[c + n]] BY <1>3 DEF Picked
<1>5. PICK t : t = SubSeq(h, c + 1, Len(h)) OBVIOUS
<1>6. /\ t \in Seq(S) /\ Len(t) = Len(h) - c
      /\ \A n \in 1..(Len(h) - c) : t[n] = h[c + n]
  BY <1>1, <1>5
<1>7. t = [n \in 1..(Len(h) - c) |-> h[c + n]] BY <1>6
<1> QED BY <1>2, <1>4, <1>5, <1>7

-----------------------------------------------------------------------------
(* The inductive invariant                                                 *)

MessageKinds == {"human", "attachment", "call", "reply", "text", "summary"}
Messages == [kind : MessageKinds, of : SUBSET Nat]

\* the messages of the checkpoint
Held == ToSet(history)

HistoryTypes ==
  /\ said \in Seq(Messages)
  /\ history \in Seq(DOMAIN said)

\* What is said together stands together: a call and its reply, an attachment and the message
\* it came with.
SaidWhole ==
  \A i \in DOMAIN said :
    /\ Kind(i) = "call" => i + 1 \in DOMAIN said /\ Kind(i + 1) = "reply"
    /\ Kind(i) = "reply" => i - 1 \in DOMAIN said /\ Kind(i - 1) = "call" /\ said[i].of = {i - 1}
    /\ Kind(i) = "attachment" => i + 1 \in DOMAIN said /\ Human(i + 1)

\* no history begins with a reply
RepliesHeld == \A i \in Held : Kind(i) = "reply" => i - 1 \in Held

\* Between two summaries a user spoke, and after the last one if there is enough to compress.
SummariesApart ==
  /\ \A i, j \in Held : Kind(i) = "summary" /\ Kind(j) = "summary" /\ i < j =>
       \E u \in Held : Human(u) /\ i < u /\ u < j
  /\ Cardinality({u \in Held : Human(u)}) > KeepTurns =>
       \A i \in Held : Kind(i) = "summary" => \E u \in Held : Human(u) /\ i < u

\* The last input of the user is in the history, and "asked" is where it begins.
LastInputHeld ==
  /\ asked \in Held
  /\ Human(asked) \/ Kind(asked) = "attachment"
  /\ Human(asked) => asked - 1 \notin DOMAIN said \/ Kind(asked - 1) # "attachment"
  /\ \A i \in DOMAIN said : Human(i) /\ i > asked => i = asked + 1 /\ Kind(asked) = "attachment"

\* The window of the teaching task begins with the input that opened the task.
WindowBegins ==
  /\ start + 1 \in DOMAIN history /\ history[start + 1] = opened
  /\ Human(opened) \/ Kind(opened) = "attachment"

\* while a run is under way or waits, and while a teaching task collects its metadata
InputHeld == at # "idle" => LastInputHeld
WindowHeld == at \in {"intake", "input", "metadata"} => WindowBegins

\* what is true of the messages, and what is true of them while the graph is at a node
MessagesInv ==
  /\ HistoryTypes /\ SaidWhole /\ RepliesHeld /\ SummariesApart
  /\ NothingForgotten /\ SummariesBounded

HistoryInv ==
  /\ MessagesInv
  /\ start \in Nat
  /\ InputHeld /\ WindowHeld /\ SeenIsSaid

-----------------------------------------------------------------------------
(* Views whose exchanges are whole                                         *)

\* each call is followed by its reply, each reply preceded by its call, no message twice
Paired(h) ==
  /\ h \in Seq(DOMAIN said)
  /\ \A m, n \in DOMAIN h : h[m] = h[n] => m = n
  /\ \A n \in DOMAIN h :
       /\ Kind(h[n]) = "call" => n + 1 \in DOMAIN h /\ h[n + 1] = h[n] + 1
       /\ Kind(h[n]) = "reply" => n - 1 \in DOMAIN h /\ h[n - 1] = h[n] - 1

\* Only a call that comes last waits for its reply.
LEMMA PendingIs ==
  ASSUME SaidWhole, NEW h, Paired(h), NEW n \in 0..Len(h)
  PROVE  Pending(h, n) = IF n \in DOMAIN h /\ Kind(h[n]) = "call" THEN {h[n]} ELSE {}
<1>1. /\ h \in Seq(DOMAIN said) /\ DOMAIN h = 1..Len(h) /\ Len(h) \in Nat
      /\ \A i \in 1..Len(h) : h[i] \in DOMAIN said
  BY DEF Paired
<1>2. PICK calls : calls = {j \in 1..n : Kind(h[j]) = "call"} OBVIOUS
<1>3. PICK replies : replies = {j \in 1..n : Kind(h[j]) = "reply"} OBVIOUS
<1>4. Pending(h, n) = {h[i] : i \in calls} \ UNION {said[h[i]].of : i \in replies}
  BY <1>2, <1>3 DEF Pending
<1>5. \A j \in replies :
        /\ j - 1 \in DOMAIN h /\ h[j - 1] = h[j] - 1 /\ j \in 1..n
        /\ said[h[j]].of = {h[j - 1]}
  BY <1>1, <1>3 DEF Paired, SaidWhole
<1>6. \A j \in calls :
        /\ j + 1 \in DOMAIN h /\ h[j + 1] = h[j] + 1 /\ j \in 1..n
        /\ Kind(h[j + 1]) = "reply"
  <2> TAKE j \in calls
  <2>1. j \in 1..n /\ j \in DOMAIN h /\ Kind(h[j]) = "call" BY <1>1, <1>2
  <2>2. j + 1 \in DOMAIN h /\ h[j + 1] = h[j] + 1 BY <2>1 DEF Paired
  <2>3. Kind(h[j] + 1) = "reply" BY <1>1, <2>1 DEF SaidWhole
  <2> QED BY <2>1, <2>2, <2>3
<1>7. ASSUME NEW j \in calls, j # n PROVE h[j] \in UNION {said[h[i]].of : i \in replies}
  <2>1. j + 1 \in replies BY <1>1, <1>3, <1>6, <1>7
  <2>2. (j + 1) - 1 = j BY <1>6
  <2>3. h[j] \in said[h[j + 1]].of BY <1>5, <2>1, <2>2
  <2> QED BY <2>1, <2>3
<1>8. ASSUME NEW j \in calls, j = n PROVE h[j] \notin UNION {said[h[i]].of : i \in replies}
  <2>1. SUFFICES ASSUME NEW i \in replies, h[j] \in said[h[i]].of PROVE FALSE OBVIOUS
  <2>2. h[j] = h[i - 1] /\ i - 1 \in DOMAIN h /\ i \in 1..n BY <1>5, <2>1
  <2>3. j = i - 1 BY <1>1, <1>6, <2>2 DEF Paired
  <2> QED BY <1>8, <2>2, <2>3
<1>9. CASE n \in calls
  <2>1. n \in DOMAIN h /\ Kind(h[n]) = "call" BY <1>1, <1>2, <1>9
  <2>2. Pending(h, n) = {h[n]} BY <1>4, <1>7, <1>8, <1>9
  <2> QED BY <2>1, <2>2
<1>10. CASE n \notin calls
  <2>1. ~(n \in DOMAIN h /\ Kind(h[n]) = "call") BY <1>1, <1>2, <1>10
  <2>2. Pending(h, n) = {} BY <1>4, <1>7, <1>10
  <2> QED BY <2>1, <2>2
<1> QED BY <1>9, <1>10

\* the calls of a view have identifiers
AllNamed(h) == \A n \in DOMAIN h : Kind(h[n]) = "call" => said[h[n]].of # {}

\* A cut is a boundary unless a call stands before it.
LEMMA PairedIsWhole ==
  ASSUME SaidWhole, NEW h, Paired(h)
  PROVE  /\ Boundaries(h) = {n \in 0..Len(h) : ~(n \in DOMAIN h /\ Kind(h[n]) = "call")}
         /\ 0 \in Boundaries(h)
         /\ AllNamed(h) => Whole(h)
<1>1. /\ h \in Seq(DOMAIN said) /\ DOMAIN h = 1..Len(h) /\ Len(h) \in Nat
      /\ \A i \in 1..Len(h) : h[i] \in DOMAIN said
  BY DEF Paired
<1>2. \A n \in 0..Len(h) : Pending(h, n) =
        IF n \in DOMAIN h /\ Kind(h[n]) = "call" THEN {h[n]} ELSE {}
  BY PendingIs
<1>3. \A n \in 0..Len(h) : Pending(h, n) = {} <=> ~(n \in DOMAIN h /\ Kind(h[n]) = "call")
  BY <1>2
<1>4. Boundaries(h) = {n \in 0..Len(h) : ~(n \in DOMAIN h /\ Kind(h[n]) = "call")}
  BY <1>3 DEF Boundaries
<1>5. 0 \in Boundaries(h) BY <1>1, <1>4
<1>6. Len(h) \in Boundaries(h) BY <1>1, <1>4 DEF Paired
<1>7. ASSUME NEW n \in DOMAIN h, Kind(h[n]) \in {"human", "text", "call"}
      PROVE  Pending(h, n - 1) = {}
  <2>1. n - 1 \in 0..Len(h) /\ (n - 1) + 1 = n BY <1>1
  <2>2. n - 1 \in DOMAIN h /\ Kind(h[n - 1]) = "call" => Kind(h[n]) = "reply"
    BY <1>1, <2>1 DEF Paired, SaidWhole
  <2> QED BY <1>3, <1>7, <2>1, <2>2
<1>8. ASSUME NEW n \in DOMAIN h, Kind(h[n]) = "reply"
      PROVE  said[h[n]].of \subseteq Pending(h, n - 1)
  <2>1. n - 1 \in 0..Len(h) BY <1>1
  <2>2. n - 1 \in DOMAIN h /\ h[n - 1] = h[n] - 1 BY <1>8 DEF Paired
  <2>3. Kind(h[n - 1]) = "call" /\ said[h[n]].of = {h[n - 1]}
    BY <1>1, <1>8, <2>2 DEF SaidWhole
  <2> QED BY <1>2, <2>1, <2>2, <2>3
<1>9. AllNamed(h) => Valid(h) BY <1>7, <1>8 DEF Valid, AllNamed
<1> QED BY <1>4, <1>5, <1>6, <1>9 DEF Whole

\* What is left behind a boundary is whole.
LEMMA RestIsPaired ==
  ASSUME SaidWhole, NEW h, Paired(h), NEW c \in Boundaries(h)
  PROVE  Paired(SubSeq(h, c + 1, Len(h)))
<1>1. /\ h \in Seq(DOMAIN said) /\ DOMAIN h = 1..Len(h) /\ Len(h) \in Nat
      /\ \A i \in 1..Len(h) : h[i] \in DOMAIN said
  BY DEF Paired
<1>2. c \in 0..Len(h) /\ ~(c \in DOMAIN h /\ Kind(h[c]) = "call") BY PairedIsWhole
<1>3. PICK t : t = SubSeq(h, c + 1, Len(h)) OBVIOUS
<1>4. /\ t \in Seq(DOMAIN said) /\ Len(t) = Len(h) - c /\ DOMAIN t = 1..(Len(h) - c)
      /\ \A n \in 1..(Len(h) - c) : t[n] = h[c + n] /\ c + n \in DOMAIN h
  <2>1. t \in Seq(DOMAIN said) /\ Len(t) = Len(h) - c BY <1>1, <1>2, <1>3
  <2>2. \A n \in 1..(Len(h) - c) : t[n] = h[c + n] BY <1>1, <1>2, <1>3
  <2>3. \A n \in 1..(Len(h) - c) : c + n \in DOMAIN h BY <1>1, <1>2
  <2> QED BY <2>1, <2>2, <2>3
<1>5. \A m, n \in DOMAIN t : t[m] = t[n] => m = n
  <2> TAKE m, n \in DOMAIN t
  <2>1. t[m] = t[n] => c + m = c + n BY <1>4 DEF Paired
  <2> QED BY <1>2, <1>4, <2>1
<1>6. ASSUME NEW n \in DOMAIN t, Kind(t[n]) = "call"
      PROVE  n + 1 \in DOMAIN t /\ t[n + 1] = t[n] + 1
  <2>1. t[n] = h[c + n] /\ c + n \in DOMAIN h BY <1>4
  <2>2. (c + n) + 1 \in DOMAIN h /\ h[(c + n) + 1] = h[c + n] + 1 BY <1>6, <2>1 DEF Paired
  <2>3. n + 1 \in DOMAIN t /\ (c + n) + 1 = c + (n + 1) BY <1>1, <1>2, <1>4, <2>2
  <2> QED BY <1>4, <2>1, <2>2, <2>3
<1>7. ASSUME NEW n \in DOMAIN t, Kind(t[n]) = "reply"
      PROVE  n - 1 \in DOMAIN t /\ t[n - 1] = t[n] - 1
  <2>1. t[n] = h[c + n] /\ c + n \in DOMAIN h BY <1>4
  <2>2. (c + n) - 1 \in DOMAIN h /\ h[(c + n) - 1] = h[c + n] - 1 BY <1>7, <2>1 DEF Paired
  <2>3. Kind(h[(c + n) - 1]) = "call" BY <1>1, <1>7, <2>1, <2>2 DEF SaidWhole
  <2>4. (c + n) - 1 # c BY <1>2, <2>2, <2>3
  <2>5. n - 1 \in DOMAIN t /\ (c + n) - 1 = c + (n - 1) BY <1>1, <1>2, <1>4, <2>2, <2>4
  <2> QED BY <1>4, <2>1, <2>2, <2>5
<1> QED BY <1>3, <1>4, <1>5, <1>6, <1>7 DEF Paired

\* The greatest of a number and 0.
LEMMA MaxWithZero == ASSUME NEW a \in Int PROVE Max({a, 0}) = IF a > 0 THEN a ELSE 0
<1>1. CASE a > 0
  <2>1. a \in {a, 0} /\ \A y \in {a, 0} : a >= y BY <1>1
  <2>2. \A x \in {a, 0} : (\A y \in {a, 0} : x >= y) => x = a BY <1>1
  <2> QED BY <1>1, <2>1, <2>2 DEF Max
<1>2. CASE ~(a > 0)
  <2>1. 0 \in {a, 0} /\ \A y \in {a, 0} : 0 >= y BY <1>2
  <2>2. \A x \in {a, 0} : (\A y \in {a, 0} : x >= y) => x = 0 BY <1>2
  <2> QED BY <1>2, <2>1, <2>2 DEF Max
<1> QED BY <1>1, <1>2

\* The boundary up to a place is one, and none between it and the place is.
LEMMA BoundaryUpToIs ==
  ASSUME SaidWhole, NEW h, Paired(h), NEW n \in 0..Len(h)
  PROVE  /\ BoundaryUpTo(h, n) \in Boundaries(h) /\ BoundaryUpTo(h, n) <= n
         /\ n \in Boundaries(h) => BoundaryUpTo(h, n) = n
<1>1. PICK S : S = {b \in Boundaries(h) : b <= n} OBVIOUS
<1>2. Len(h) \in Nat BY DEF Paired
<1>3. n \in Nat BY <1>2
<1>4. 0 \in S /\ S \subseteq Nat BY <1>1, <1>3, PairedIsWhole DEF Boundaries
<1>5. PICK m : m = Max(S) OBVIOUS
<1>6. m \in S /\ \A x \in S : x <= m BY <1>1, <1>3, <1>4, <1>5, GreatestMember
<1>7. n \in Boundaries(h) => n \in S BY <1>1, <1>3
<1>8. BoundaryUpTo(h, n) = m BY <1>1, <1>5 DEF BoundaryUpTo
<1> QED BY <1>1, <1>3, <1>4, <1>6, <1>7, <1>8

\* Messages of the system in front of whole exchanges change nothing.
LEMMA SystemBefore ==
  ASSUME NEW t, Paired(t), NEW s \in Seq(DOMAIN said),
         \A n \in DOMAIN s : System(s[n]),
         \A m, n \in DOMAIN s : s[m] = s[n] => m = n,
         \A m \in DOMAIN s, n \in DOMAIN t : s[m] # t[n]
  PROVE  Paired(s \o t)
<1>1. /\ t \in Seq(DOMAIN said) /\ DOMAIN t = 1..Len(t) /\ Len(t) \in Nat
      /\ DOMAIN s = 1..Len(s) /\ Len(s) \in Nat
  BY DEF Paired
<1>2. PICK r : r = s \o t OBVIOUS
<1>3. /\ r \in Seq(DOMAIN said) /\ Len(r) = Len(s) + Len(t) /\ DOMAIN r = 1..(Len(s) + Len(t))
      /\ \A n \in 1..(Len(s) + Len(t)) :
           r[n] = IF n <= Len(s) THEN s[n] ELSE t[n - Len(s)]
  <2>1. s \in Seq(DOMAIN said) /\ t \in Seq(DOMAIN said) BY <1>1
  <2>2. r \in Seq(DOMAIN said) /\ Len(r) = Len(s) + Len(t)
    BY <1>2, <2>1, ConcatProperties
  <2>3. \A n \in 1..(Len(s) + Len(t)) : r[n] = IF n <= Len(s) THEN s[n] ELSE t[n - Len(s)]
    BY <1>2, <2>1, ConcatProperties
  <2> QED BY <2>2, <2>3
<1>4. \A n \in DOMAIN r :
        \/ n \in DOMAIN s /\ r[n] = s[n]
        \/ n - Len(s) \in DOMAIN t /\ r[n] = t[n - Len(s)]
  <2> TAKE n \in DOMAIN r
  <2>1. n \in 1..(Len(s) + Len(t)) BY <1>3
  <2>2. CASE n <= Len(s) BY <1>1, <1>3, <2>1, <2>2
  <2>3. CASE ~(n <= Len(s))
    <3>1. n - Len(s) \in DOMAIN t BY <1>1, <2>1, <2>3
    <3> QED BY <1>3, <2>1, <2>3, <3>1
  <2> QED BY <2>2, <2>3
<1>5. \A k \in DOMAIN t : Len(s) + k \in DOMAIN r /\ r[Len(s) + k] = t[k]
  <2> TAKE k \in DOMAIN t
  <2>1. /\ Len(s) + k \in 1..(Len(s) + Len(t)) /\ ~(Len(s) + k <= Len(s))
        /\ (Len(s) + k) - Len(s) = k
    BY <1>1
  <2> QED BY <1>3, <2>1
<1>6. ASSUME NEW m \in DOMAIN r, NEW n \in DOMAIN r, r[m] = r[n] PROVE m = n
  <2>1. CASE m \in DOMAIN s /\ r[m] = s[m] BY <1>4, <1>6, <2>1
  <2>2. CASE m - Len(s) \in DOMAIN t /\ r[m] = t[m - Len(s)]
    <3>1. n - Len(s) \in DOMAIN t /\ r[n] = t[n - Len(s)] BY <1>4, <1>6, <2>2
    <3>2. m - Len(s) = n - Len(s) BY <1>6, <2>2, <3>1 DEF Paired
    <3> QED BY <1>1, <1>3, <3>2
  <2> QED BY <1>4, <2>1, <2>2
<1>7. ASSUME NEW n \in DOMAIN r, Kind(r[n]) \in {"call", "reply"}
      PROVE  n - Len(s) \in DOMAIN t /\ r[n] = t[n - Len(s)]
  BY <1>4, <1>7 DEF System
<1>8. ASSUME NEW n \in DOMAIN r, Kind(r[n]) = "call"
      PROVE  n + 1 \in DOMAIN r /\ r[n + 1] = r[n] + 1
  <2>1. n - Len(s) \in DOMAIN t /\ r[n] = t[n - Len(s)] BY <1>7, <1>8
  <2>2. /\ (n - Len(s)) + 1 \in DOMAIN t
        /\ t[(n - Len(s)) + 1] = t[n - Len(s)] + 1
    BY <1>8, <2>1 DEF Paired
  <2>3. Len(s) + ((n - Len(s)) + 1) = n + 1 BY <1>1, <1>3
  <2> QED BY <1>5, <2>1, <2>2, <2>3
<1>9. ASSUME NEW n \in DOMAIN r, Kind(r[n]) = "reply"
      PROVE  n - 1 \in DOMAIN r /\ r[n - 1] = r[n] - 1
  <2>1. n - Len(s) \in DOMAIN t /\ r[n] = t[n - Len(s)] BY <1>7, <1>9
  <2>2. /\ (n - Len(s)) - 1 \in DOMAIN t
        /\ t[(n - Len(s)) - 1] = t[n - Len(s)] - 1
    BY <1>9, <2>1 DEF Paired
  <2>3. Len(s) + ((n - Len(s)) - 1) = n - 1 BY <1>1, <1>3
  <2> QED BY <1>5, <2>1, <2>2, <2>3
<1> QED BY <1>2, <1>3, <1>6, <1>8, <1>9 DEF Paired

\* recent_history cuts no exchange.
LEMMA RecentIsWhole ==
  ASSUME SaidWhole, NEW h, Paired(h), AllNamed(h), NEW limit \in Nat
  PROVE  Whole(RecentHistory(h, limit))
<1>1. /\ h \in Seq(DOMAIN said) /\ DOMAIN h = 1..Len(h) /\ Len(h) \in Nat
      /\ \A i \in 1..Len(h) : h[i] \in DOMAIN said
  BY DEF Paired
<1>2. PICK k : k = Max({Len(h) - limit, 0}) OBVIOUS
<1>3. k \in 0..Len(h)
  <2>1. Len(h) - limit \in Int BY <1>1
  <2>2. k = IF Len(h) - limit > 0 THEN Len(h) - limit ELSE 0 BY <1>2, <2>1, MaxWithZero
  <2>3. CASE Len(h) - limit > 0 BY <1>1, <2>1, <2>2, <2>3
  <2>4. CASE ~(Len(h) - limit > 0)
    <3>1. k = 0 BY <2>2, <2>4
    <3> QED BY <1>1, <3>1
  <2> QED BY <2>3, <2>4
<1>4. PICK c : c = BoundaryUpTo(h, k) OBVIOUS
<1>5. c \in Boundaries(h) BY <1>3, <1>4, BoundaryUpToIs
<1>6. c \in 0..Len(h) BY <1>5 DEF Boundaries
<1>7. PICK P : P = {n \in 1..c : System(h[n])} OBVIOUS
<1>8. P \in SUBSET DOMAIN h BY <1>1, <1>6, <1>7
<1>9. PICK s : s = Picked(h, P) OBVIOUS
<1>10. /\ s \in Seq(DOMAIN said)
       /\ \E order \in [DOMAIN s -> P] :
            /\ \A n \in DOMAIN s : s[n] = h[order[n]]
            /\ \A m, n \in DOMAIN s : m < n => order[m] < order[n]
  BY <1>1, <1>8, <1>9, PickedIs
<1>11. PICK order \in [DOMAIN s -> P] :
         /\ \A n \in DOMAIN s : s[n] = h[order[n]]
         /\ \A m, n \in DOMAIN s : m < n => order[m] < order[n]
  BY <1>10
<1>12. PICK t : t = SubSeq(h, c + 1, Len(h)) OBVIOUS
<1>13. Paired(t) BY <1>5, <1>12, RestIsPaired
<1>14. \A n \in DOMAIN t : t[n] = h[c + n] /\ c + n \in DOMAIN h /\ c + n > c
  BY <1>1, <1>6, <1>12
<1>15. \A n \in DOMAIN s : order[n] \in 1..c /\ System(h[order[n]]) /\ order[n] \in DOMAIN h
  BY <1>1, <1>6, <1>7, <1>11
<1>16. \A n \in DOMAIN s : System(s[n]) BY <1>11, <1>15
<1>17. ASSUME NEW m \in DOMAIN s, NEW n \in DOMAIN s, s[m] = s[n] PROVE m = n
  <2>1. order[m] = order[n] BY <1>11, <1>15, <1>17 DEF Paired
  <2>2. m \in Nat /\ n \in Nat BY <1>10
  <2>3. ~(m < n) /\ ~(n < m) BY <1>6, <1>11, <1>15, <2>1
  <2> QED BY <2>2, <2>3
<1>18. ASSUME NEW m \in DOMAIN s, NEW n \in DOMAIN t PROVE s[m] # t[n]
  <2>1. s[m] = t[n] => order[m] = c + n BY <1>11, <1>14, <1>15 DEF Paired
  <2> QED BY <1>6, <1>14, <1>15, <2>1
<1>19. Paired(s \o t) BY <1>10, <1>13, <1>16, <1>17, <1>18, SystemBefore
<1>20. RecentHistory(h, limit) = s \o t
  BY <1>2, <1>4, <1>7, <1>9, <1>12 DEF RecentHistory
<1>21. AllNamed(s \o t)
  <2>1. PICK r : r = s \o t OBVIOUS
  <2>2. t \in Seq(DOMAIN said) /\ DOMAIN t = 1..Len(t) /\ Len(t) \in Nat BY <1>13 DEF Paired
  <2>3. DOMAIN s = 1..Len(s) /\ Len(s) \in Nat BY <1>10
  <2>4. /\ r \in Seq(DOMAIN said) /\ Len(r) = Len(s) + Len(t)
        /\ \A n \in 1..(Len(s) + Len(t)) :
             r[n] = IF n <= Len(s) THEN s[n] ELSE t[n - Len(s)]
    BY <1>10, <2>1, <2>2, ConcatProperties
  <2>5. ASSUME NEW n \in DOMAIN r PROVE \E p \in DOMAIN h : r[n] = h[p]
    <3>1. n \in 1..(Len(s) + Len(t)) BY <2>2, <2>3, <2>4
    <3>2. CASE n <= Len(s)
      <4>1. n \in DOMAIN s /\ r[n] = s[n] BY <2>3, <2>4, <3>1, <3>2
      <4> QED BY <1>11, <1>15, <4>1
    <3>3. CASE ~(n <= Len(s))
      <4>1. n - Len(s) \in DOMAIN t /\ r[n] = t[n - Len(s)] BY <2>2, <2>3, <2>4, <3>1, <3>3
      <4> QED BY <1>14, <4>1
    <3> QED BY <3>2, <3>3
  <2>6. AllNamed(r) BY <2>5 DEF AllNamed
  <2> QED BY <2>1, <2>6
<1> QED BY <1>19, <1>20, <1>21, PairedIsWhole

\* The history ascends, and a message stands next to the one made before it.
LEMMA HistoryAscends ==
  ASSUME MessagesInv
  PROVE  /\ history \in Seq(DOMAIN said) /\ DOMAIN history = 1..Len(history)
         /\ Len(history) \in Nat /\ DOMAIN said = 1..Len(said) /\ Len(said) \in Nat
         /\ \A n \in DOMAIN history : history[n] \in DOMAIN said /\ history[n] \in Nat
         /\ \A m, n \in DOMAIN history : m < n <=> history[m] < history[n]
         /\ \A m, n \in DOMAIN history : history[m] = history[n] => m = n
         /\ \A n, k \in DOMAIN history : history[k] = history[n] + 1 => k = n + 1
<1>1. /\ history \in Seq(DOMAIN said) /\ DOMAIN history = 1..Len(history)
      /\ Len(history) \in Nat /\ DOMAIN said = 1..Len(said) /\ Len(said) \in Nat
      /\ \A n \in DOMAIN history : history[n] \in DOMAIN said /\ history[n] \in Nat
  BY DEF MessagesInv, HistoryTypes
<1>2. \A m, n \in DOMAIN history : m < n => history[m] < history[n]
  BY DEF MessagesInv, NothingForgotten
<1>3. ASSUME NEW m \in DOMAIN history, NEW n \in DOMAIN history, ~(m < n)
      PROVE  ~(history[m] < history[n])
  <2>1. m \in Nat /\ n \in Nat /\ history[m] \in Nat /\ history[n] \in Nat BY <1>1
  <2>2. n = m \/ n < m BY <1>3, <2>1
  <2>3. n < m => history[n] < history[m] BY <1>2
  <2> QED BY <2>1, <2>2, <2>3
<1>4. ASSUME NEW m \in DOMAIN history, NEW n \in DOMAIN history, history[m] = history[n]
      PROVE  m = n
  <2>1. m \in Nat /\ n \in Nat /\ history[m] \in Nat BY <1>1
  <2>2. m < n => history[m] < history[n] BY <1>2
  <2>3. n < m => history[n] < history[m] BY <1>2
  <2> QED BY <1>4, <2>1, <2>2, <2>3
<1>5. ASSUME NEW n \in DOMAIN history, NEW k \in DOMAIN history, history[k] = history[n] + 1
      PROVE  k = n + 1
  <2>1. n \in Nat /\ k \in Nat /\ history[n] \in Nat /\ history[k] \in Nat BY <1>1
  <2>2. n < k BY <1>3, <1>5, <2>1
  <2>3. ASSUME k > n + 1 PROVE FALSE
    <3>1. n + 1 \in DOMAIN history BY <1>1, <2>1, <2>3
    <3>2. history[n] < history[n + 1] /\ history[n + 1] < history[k] BY <1>2, <2>1, <2>3, <3>1
    <3>3. history[n + 1] \in Nat BY <1>1, <3>1
    <3> QED BY <1>5, <2>1, <3>2, <3>3
  <2> QED BY <2>1, <2>2, <2>3
<1> QED BY <1>1, <1>2, <1>3, <1>4, <1>5

\* The history of a thread is such a view.
LEMMA HistoryIsPaired == ASSUME MessagesInv PROVE Paired(history)
<1>1. /\ history \in Seq(DOMAIN said) /\ DOMAIN history = 1..Len(history) /\ Len(history) \in Nat
      /\ DOMAIN said = 1..Len(said)
      /\ \A n \in DOMAIN history : history[n] \in DOMAIN said /\ history[n] \in Nat
      /\ \A m, n \in DOMAIN history : history[m] = history[n] => m = n
      /\ \A n, k \in DOMAIN history : history[k] = history[n] + 1 => k = n + 1
  BY HistoryAscends
<1>2. ASSUME NEW n \in DOMAIN history, Kind(history[n]) = "call"
      PROVE  n + 1 \in DOMAIN history /\ history[n + 1] = history[n] + 1
  <2>1. PICK i : i = history[n] OBVIOUS
  <2>2. i \in DOMAIN said /\ i + 1 \in DOMAIN said /\ Kind(i) = "call" /\ Kind(i + 1) = "reply"
    BY <1>1, <1>2, <2>1 DEF MessagesInv, SaidWhole
  <2>3. i + 1 \in ToSet(history)
    <3>1. i \in ToSet(history) BY <2>1 DEF ToSet
    <3>2. Spoken(i) /\ Spoken(i + 1) BY <2>2 DEF Spoken
    <3>3. i < i + 1 BY <1>1, <2>2
    <3> QED BY <2>2, <3>1, <3>2, <3>3 DEF MessagesInv, NothingForgotten
  <2>4. PICK k \in DOMAIN history : history[k] = i + 1 BY <2>3 DEF ToSet
  <2>5. k = n + 1 BY <1>1, <2>1, <2>4
  <2> QED BY <2>1, <2>4, <2>5
<1>3. ASSUME NEW n \in DOMAIN history, Kind(history[n]) = "reply"
      PROVE  n - 1 \in DOMAIN history /\ history[n - 1] = history[n] - 1
  <2>1. history[n] - 1 \in Held BY <1>3 DEF MessagesInv, RepliesHeld, Held, ToSet
  <2>2. PICK k \in DOMAIN history : history[k] = history[n] - 1 BY <2>1 DEF Held, ToSet
  <2>3. history[n] = history[k] + 1 BY <1>1, <2>2
  <2>4. n = k + 1 BY <1>1, <2>3
  <2>5. k = n - 1 BY <1>1, <2>4
  <2> QED BY <2>2, <2>5
<1> QED BY <1>1, <1>2, <1>3 DEF Paired

-----------------------------------------------------------------------------
(* What is said                                                            *)

\* Messages a step may add: no summary, no half of an exchange, no attachment without the
\* message it came with.
Proper(messages) ==
  /\ messages \in Seq(Messages)
  /\ \A k \in DOMAIN messages :
       /\ messages[k].kind # "summary"
       /\ messages[k].kind = "call" =>
            k + 1 \in DOMAIN messages /\ messages[k + 1].kind = "reply"
       /\ messages[k].kind = "reply" =>
            /\ k - 1 \in DOMAIN messages /\ messages[k - 1].kind = "call"
            /\ messages[k].of = {Len(said) + (k - 1)}
       /\ messages[k].kind = "attachment" =>
            k + 1 \in DOMAIN messages /\ messages[k + 1].kind = "human"

\* what a node may add: the user says nothing in it
ByNode(messages) ==
  /\ Proper(messages)
  /\ \A k \in DOMAIN messages : messages[k].kind # "human"

\* an input of the user, which may begin with attachments
ByUser(messages) ==
  /\ Proper(messages)
  /\ 1 \in DOMAIN messages /\ messages[1].kind \in {"human", "attachment"}
  /\ \A k \in DOMAIN messages :
       messages[k].kind = "human" /\ k # 1 => k = 2 /\ messages[1].kind = "attachment"

\* Short sequences joined.
LEMMA Joined ==
  ASSUME NEW S, NEW a \in S, NEW b \in S, NEW c \in S
  PROVE  <<a>> \o <<b>> = <<a, b>> /\ <<a, b>> \o <<c>> = <<a, b, c>>
<1>1. PICK s, t : s = <<a>> \o <<b>> /\ t = <<a, b>> \o <<c>> OBVIOUS
<1>2. <<a>> \in Seq(S) /\ <<b>> \in Seq(S) /\ <<c>> \in Seq(S) /\ <<a, b>> \in Seq(S) OBVIOUS
<1>3. /\ s \in Seq(S) /\ Len(s) = 2
      /\ \A i \in 1..2 : s[i] = IF i <= 1 THEN <<a>>[i] ELSE <<b>>[i - 1]
  BY <1>1, <1>2, ConcatProperties
<1>4. /\ t \in Seq(S) /\ Len(t) = 3
      /\ \A i \in 1..3 : t[i] = IF i <= 2 THEN <<a, b>>[i] ELSE <<c>>[i - 2]
  BY <1>1, <1>2, ConcatProperties
<1>5. s = <<a, b>> BY <1>3, SeqEqual
<1>6. t = <<a, b, c>> BY <1>4, SeqEqual
<1> QED BY <1>1, <1>5, <1>6

\* The messages a node or a user adds are of this sort, and only a user's are human.
LEMMA WhatIsSaid ==
  ASSUME Len(said) \in Nat
  PROVE  /\ ByNode(<<Plain("text")>>)
         /\ \A named \in BOOLEAN :
              ByNode(Exchange(named)) /\ ByNode(Exchange(named) \o <<Plain("text")>>)
         /\ \A attached \in BOOLEAN : ByUser(Input(attached))
<1>1. PICK n \in Nat : n = Len(said) + 1 OBVIOUS
<1>2. \A kind \in MessageKinds : Plain(kind) \in Messages /\ Plain(kind).kind = kind
  BY DEF Plain, Messages
<1>3. [kind |-> "reply", of |-> {n}] \in Messages BY DEF Messages, MessageKinds
<1>4. ByNode(<<Plain("text")>>) BY <1>2 DEF ByNode, Proper, MessageKinds
<1>10. \A named \in BOOLEAN : Call(named) \in Messages /\ Call(named).kind = "call"
  <2> TAKE named \in BOOLEAN
  <2>1. PICK of : of = IF named THEN {n} ELSE {} OBVIOUS
  <2>2. of \in SUBSET Nat BY <2>1
  <2>3. Call(named) = [kind |-> "call", of |-> of] BY <1>1, <2>1 DEF Call
  <2> QED BY <2>2, <2>3 DEF Messages, MessageKinds
<1>5. ASSUME NEW named \in BOOLEAN PROVE ByNode(Exchange(named))
  <2>1. PICK e : e = Exchange(named) OBVIOUS
  <2>2. e = <<Call(named), [kind |-> "reply", of |-> {n}]>> BY <1>1, <2>1 DEF Exchange
  <2>3. e \in Seq(Messages) /\ DOMAIN e = {1, 2} BY <1>3, <1>10, <2>2
  <2>4. e[1].kind = "call" /\ e[2].kind = "reply" /\ e[2].of = {n}
    BY <1>10, <2>2
  <2> QED BY <1>1, <2>1, <2>3, <2>4 DEF ByNode, Proper
<1>6. ASSUME NEW named \in BOOLEAN PROVE ByNode(Exchange(named) \o <<Plain("text")>>)
  <2>1. PICK e : e = Exchange(named) \o <<Plain("text")>> OBVIOUS
  <2>2. e = <<Call(named), [kind |-> "reply", of |-> {n}], Plain("text")>>
    <3>1. \A a, b, c \in Messages : <<a, b>> \o <<c>> = <<a, b, c>> BY Joined
    <3>2. Exchange(named) = <<Call(named), [kind |-> "reply", of |-> {n}]>> BY <1>1 DEF Exchange
    <3>3. Call(named) \in Messages /\ Plain("text") \in Messages BY <1>2, <1>10 DEF MessageKinds
    <3> QED BY <1>3, <2>1, <3>1, <3>2, <3>3
  <2>3. e \in Seq(Messages) /\ DOMAIN e = {1, 2, 3} BY <1>2, <1>3, <1>10, <2>2 DEF MessageKinds
  <2>4. e[1].kind = "call" /\ e[2].kind = "reply" /\ e[2].of = {n} /\ e[3].kind = "text"
    BY <1>2, <1>10, <2>2 DEF MessageKinds
  <2>5. 1 + 1 = 2 /\ 2 - 1 = 1 /\ e[2].of = {Len(said) + 1} BY <1>1, <2>4
  <2>6. Proper(e) BY <2>3, <2>4, <2>5, SMTT(30) DEF Proper
  <2> QED BY <2>1, <2>3, <2>4, <2>6 DEF ByNode
<1>7. ByUser(Input(TRUE))
  <2>1. PICK e : e = Input(TRUE) OBVIOUS
  <2>2. e = <<Plain("attachment"), Plain("human")>>
    <3>1. Plain("attachment") \in Messages /\ Plain("human") \in Messages BY <1>2 DEF MessageKinds
    <3>2. e = <<Plain("attachment")>> \o <<Plain("human")>> BY <2>1 DEF Input
    <3> QED BY <3>1, <3>2, Joined
  <2>3. e \in Seq(Messages) /\ DOMAIN e = {1, 2} BY <1>2, <2>2 DEF MessageKinds
  <2>4. e[1].kind = "attachment" /\ e[2].kind = "human" /\ 1 + 1 = 2
    BY <1>2, <2>2 DEF MessageKinds
  <2> QED BY <2>1, <2>3, <2>4 DEF ByUser, Proper
<1>8. ByUser(Input(FALSE))
  <2>1. PICK e : e = Input(FALSE) OBVIOUS
  <2>2. e = <<Plain("human")>> BY <2>1 DEF Input
  <2>3. e \in Seq(Messages) /\ DOMAIN e = {1} BY <1>2, <2>2 DEF MessageKinds
  <2>4. e[1].kind = "human" BY <1>2, <2>2 DEF MessageKinds
  <2> QED BY <2>1, <2>3, <2>4 DEF ByUser, Proper
<1>9. \A attached \in BOOLEAN : ByUser(Input(attached))
  <2> TAKE attached \in BOOLEAN
  <2>1. CASE attached
    <3>1. Input(attached) = Input(TRUE) BY <2>1 DEF Input
    <3> QED BY <1>7, <3>1
  <2>2. CASE ~attached
    <3>1. Input(attached) = Input(FALSE) BY <2>2 DEF Input
    <3> QED BY <1>8, <3>1
  <2> QED BY <2>1, <2>2
<1> QED BY <1>4, <1>5, <1>6, <1>9

\* What is added comes last in the thread and in its history.
LEMMA SayAdds ==
  ASSUME MessagesInv, NEW messages, Proper(messages), Say(messages)
  PROVE  /\ Len(messages) \in Nat /\ DOMAIN messages = 1..Len(messages)
         /\ said' \in Seq(Messages) /\ Len(said') = Len(said) + Len(messages)
         /\ \A i \in DOMAIN said : said'[i] = said[i]
         /\ \A k \in DOMAIN messages : said'[Len(said) + k] = messages[k]
         /\ history' \in Seq(DOMAIN said') /\ Len(history') = Len(history) + Len(messages)
         /\ \A n \in DOMAIN history : history'[n] = history[n]
         /\ \A k \in DOMAIN messages : history'[Len(history) + k] = Len(said) + k
<1>1. /\ history \in Seq(DOMAIN said) /\ DOMAIN history = 1..Len(history)
      /\ Len(history) \in Nat /\ DOMAIN said = 1..Len(said) /\ Len(said) \in Nat
      /\ \A n \in DOMAIN history : history[n] \in DOMAIN said
      /\ said \in Seq(Messages)
  BY HistoryAscends DEF MessagesInv, HistoryTypes
<1>2. messages \in Seq(Messages) /\ Len(messages) \in Nat /\ DOMAIN messages = 1..Len(messages)
  BY DEF Proper
<1>3. PICK added : added = [i \in DOMAIN messages |-> Len(said) + i] OBVIOUS
<1>4. /\ added \in Seq(Nat) /\ Len(added) = Len(messages) /\ DOMAIN added = 1..Len(messages)
      /\ \A k \in 1..Len(messages) : added[k] = Len(said) + k
  BY <1>1, <1>2, <1>3
<1>5. {n \in DOMAIN history : history[n] \notin {} \/ history[n] \in ToSet(added)}
        = (0 + 1)..Len(history)
  BY <1>1
<1>6. {n \in DOMAIN added : added[n] \notin ToSet(history)} = (0 + 1)..Len(added)
  <2>1. ASSUME NEW n \in DOMAIN added PROVE added[n] \notin ToSet(history)
    <3>1. added[n] \notin DOMAIN said BY <1>1, <1>4
    <3> QED BY <1>1, <3>1 DEF ToSet
  <2> QED BY <1>4, <2>1
<1>7. Picked(history, (0 + 1)..Len(history)) = history
  <2>1. 0 \in 0..Len(history) BY <1>1
  <2>2. Picked(history, (0 + 1)..Len(history)) = SubSeq(history, 0 + 1, Len(history))
    BY <1>1, <2>1, PickedRest
  <2> QED BY <1>1, <2>2
<1>8. Picked(added, (0 + 1)..Len(added)) = added
  <2>1. 0 \in 0..Len(added) BY <1>2, <1>4
  <2>2. Picked(added, (0 + 1)..Len(added)) = SubSeq(added, 0 + 1, Len(added))
    BY <1>4, <2>1, PickedRest
  <2> QED BY <1>4, <2>2
<1>9. history' = history \o added
  BY <1>3, <1>5, <1>6, <1>7, <1>8 DEF Say, AddMessages
<1>10. said' = said \o messages BY DEF Say
<1>11. /\ said' \in Seq(Messages) /\ Len(said') = Len(said) + Len(messages)
       /\ \A i \in 1..(Len(said) + Len(messages)) :
            said'[i] = IF i <= Len(said) THEN said[i] ELSE messages[i - Len(said)]
  BY <1>1, <1>2, <1>10, ConcatProperties
<1>12. history \in Seq(Nat) /\ \A i \in 1..(Len(said) + Len(messages)) : i \in DOMAIN said'
  BY <1>1, <1>11
<1>13. /\ history' \in Seq(Nat) /\ Len(history') = Len(history) + Len(messages)
       /\ \A n \in 1..(Len(history) + Len(messages)) :
            history'[n] = IF n <= Len(history) THEN history[n] ELSE added[n - Len(history)]
  <2>1. added \in Seq(Nat) /\ history \in Seq(Nat) BY <1>4, <1>12
  <2>2. PICK r : r = history \o added OBVIOUS
  <2>3. r \in Seq(Nat) /\ Len(r) = Len(history) + Len(added) BY <2>1, <2>2, ConcatProperties
  <2>4. \A n \in 1..(Len(history) + Len(added)) :
          r[n] = IF n <= Len(history) THEN history[n] ELSE added[n - Len(history)]
    BY <2>1, <2>2, ConcatProperties
  <2> QED BY <1>4, <1>9, <2>2, <2>3, <2>4
<1>14. \A i \in DOMAIN said : said'[i] = said[i] BY <1>1, <1>2, <1>11
<1>15. ASSUME NEW k \in DOMAIN messages PROVE said'[Len(said) + k] = messages[k]
  <2>1. /\ Len(said) + k \in 1..(Len(said) + Len(messages)) /\ ~(Len(said) + k <= Len(said))
        /\ (Len(said) + k) - Len(said) = k
    BY <1>1, <1>2
  <2> QED BY <1>11, <2>1
<1>16. \A n \in DOMAIN history : history'[n] = history[n] BY <1>1, <1>2, <1>13
<1>17. ASSUME NEW k \in DOMAIN messages PROVE history'[Len(history) + k] = Len(said) + k
  <2>1. /\ Len(history) + k \in 1..(Len(history) + Len(messages))
        /\ ~(Len(history) + k <= Len(history)) /\ (Len(history) + k) - Len(history) = k
    BY <1>1, <1>2
  <2> QED BY <1>2, <1>4, <1>13, <2>1
<1>18. \A n \in 1..Len(history') : history'[n] \in DOMAIN said'
  <2> TAKE n \in 1..Len(history')
  <2>1. CASE n <= Len(history) BY <1>1, <1>2, <1>12, <1>13, <1>16, <2>1
  <2>2. CASE ~(n <= Len(history))
    <3>1. n - Len(history) \in DOMAIN messages /\ Len(history) + (n - Len(history)) = n
      BY <1>1, <1>2, <1>13, <2>2
    <3>2. history'[n] = Len(said) + (n - Len(history)) BY <1>17, <3>1
    <3> QED BY <1>1, <1>2, <1>12, <3>1, <3>2
  <2> QED BY <2>1, <2>2
<1>19. history' \in Seq(DOMAIN said') BY <1>13, <1>18
<1> QED BY <1>2, <1>11, <1>13, <1>14, <1>15, <1>16, <1>17, <1>19

\* Where the messages of the next state come from.
LEMMA SayHolds ==
  ASSUME MessagesInv, NEW messages, Proper(messages), Say(messages)
  PROVE  /\ DOMAIN said' = 1..(Len(said) + Len(messages))
         /\ DOMAIN history' = 1..(Len(history) + Len(messages))
         /\ \A i \in DOMAIN said : i \in DOMAIN said' /\ said'[i] = said[i]
         /\ \A k \in DOMAIN messages :
              Len(said) + k \in DOMAIN said' /\ said'[Len(said) + k] = messages[k]
         /\ \A i \in DOMAIN said' :
              i \in DOMAIN said \/ \E k \in DOMAIN messages : i = Len(said) + k
         /\ \A n \in DOMAIN history' :
              \/ n \in DOMAIN history /\ history'[n] = history[n]
              \/ \E k \in DOMAIN messages : n = Len(history) + k /\ history'[n] = Len(said) + k
         /\ Held' = Held \cup {Len(said) + k : k \in DOMAIN messages}
<1>1. /\ DOMAIN history = 1..Len(history) /\ Len(history) \in Nat
      /\ DOMAIN said = 1..Len(said) /\ Len(said) \in Nat
  BY HistoryAscends
<1>2. /\ Len(messages) \in Nat /\ DOMAIN messages = 1..Len(messages)
      /\ said' \in Seq(Messages) /\ Len(said') = Len(said) + Len(messages)
      /\ \A i \in DOMAIN said : said'[i] = said[i]
      /\ \A k \in DOMAIN messages : said'[Len(said) + k] = messages[k]
      /\ history' \in Seq(DOMAIN said') /\ Len(history') = Len(history) + Len(messages)
      /\ \A n \in DOMAIN history : history'[n] = history[n]
      /\ \A k \in DOMAIN messages : history'[Len(history) + k] = Len(said) + k
  BY SayAdds
<1>3. DOMAIN said' = 1..(Len(said) + Len(messages)) BY <1>2
<1>4. DOMAIN history' = 1..(Len(history) + Len(messages)) BY <1>2
<1>5. \A i \in DOMAIN said : i \in DOMAIN said' BY <1>1, <1>2, <1>3
<1>6. \A k \in DOMAIN messages : Len(said) + k \in DOMAIN said' BY <1>1, <1>2, <1>3
<1>7. ASSUME NEW i \in DOMAIN said', i \notin DOMAIN said
      PROVE  \E k \in DOMAIN messages : i = Len(said) + k
  <2>1. i - Len(said) \in DOMAIN messages /\ i = Len(said) + (i - Len(said))
    BY <1>1, <1>2, <1>3, <1>7
  <2> QED BY <2>1
<1>8. ASSUME NEW n \in DOMAIN history', n \notin DOMAIN history
      PROVE  \E k \in DOMAIN messages : n = Len(history) + k /\ history'[n] = Len(said) + k
  <2>1. n - Len(history) \in DOMAIN messages /\ n = Len(history) + (n - Len(history))
    BY <1>1, <1>2, <1>4, <1>8
  <2> QED BY <1>2, <2>1
<1>9. \A n \in DOMAIN history : n \in DOMAIN history' BY <1>1, <1>2, <1>4
<1>10. \A k \in DOMAIN messages : Len(history) + k \in DOMAIN history'
  <2> TAKE k \in DOMAIN messages
  <2>1. k \in 1..Len(messages) /\ Len(messages) \in Nat /\ Len(history) \in Nat BY <1>1, <1>2
  <2>2. Len(history) + k \in 1..(Len(history) + Len(messages)) BY <2>1
  <2> QED BY <1>4, <2>2
<1>11. Held' \subseteq Held \cup {Len(said) + k : k \in DOMAIN messages}
  <2>1. ASSUME NEW n \in DOMAIN history'
        PROVE  history'[n] \in Held \cup {Len(said) + k : k \in DOMAIN messages}
    <3>1. CASE n \in DOMAIN history
      <4>1. history[n] \in Held BY <3>1 DEF Held, ToSet
      <4> QED BY <1>2, <3>1, <4>1
    <3>2. CASE n \notin DOMAIN history BY <1>8, <3>2
    <3> QED BY <3>1, <3>2
  <2> QED BY <2>1 DEF Held, ToSet
<1>12. Held \cup {Len(said) + k : k \in DOMAIN messages} \subseteq Held'
  <2>1. \A n \in DOMAIN history : history[n] \in Held' BY <1>2, <1>9 DEF Held, ToSet
  <2>2. \A k \in DOMAIN messages : Len(said) + k \in Held' BY <1>2, <1>10 DEF Held, ToSet
  <2> QED BY <2>1, <2>2 DEF Held, ToSet
<1> QED BY <1>2, <1>3, <1>4, <1>5, <1>6, <1>7, <1>8, <1>11, <1>12

\* Saying something keeps what is true of the messages.
LEMMA SayKeeps ==
  ASSUME MessagesInv, NEW messages, Proper(messages), Say(messages)
  PROVE  MessagesInv'
<1>1. /\ DOMAIN history = 1..Len(history) /\ Len(history) \in Nat
      /\ DOMAIN said = 1..Len(said) /\ Len(said) \in Nat
      /\ \A i \in Held : i \in DOMAIN said /\ i \in Nat
      /\ \A n \in DOMAIN history : history[n] \in DOMAIN said
      /\ \A m, n \in DOMAIN history : m < n => history[m] < history[n]
  BY HistoryAscends DEF Held, ToSet
<1>2. /\ DOMAIN said' = 1..(Len(said) + Len(messages))
      /\ \A i \in DOMAIN said : i \in DOMAIN said' /\ said'[i] = said[i]
      /\ \A k \in DOMAIN messages :
           Len(said) + k \in DOMAIN said' /\ said'[Len(said) + k] = messages[k]
      /\ \A i \in DOMAIN said' :
           i \in DOMAIN said \/ \E k \in DOMAIN messages : i = Len(said) + k
  BY SayHolds
<1>3. /\ \A n \in DOMAIN history' :
           \/ n \in DOMAIN history /\ history'[n] = history[n]
           \/ \E k \in DOMAIN messages : n = Len(history) + k /\ history'[n] = Len(said) + k
      /\ Held' = Held \cup {Len(said) + k : k \in DOMAIN messages}
  BY SayHolds
<1>4. /\ messages \in Seq(Messages) /\ DOMAIN messages = 1..Len(messages) /\ Len(messages) \in Nat
      /\ \A k \in DOMAIN messages :
           /\ messages[k].kind # "summary"
           /\ messages[k].kind = "call" =>
                k + 1 \in DOMAIN messages /\ messages[k + 1].kind = "reply"
           /\ messages[k].kind = "reply" =>
                /\ k - 1 \in DOMAIN messages /\ messages[k - 1].kind = "call"
                /\ messages[k].of = {Len(said) + (k - 1)}
           /\ messages[k].kind = "attachment" =>
                k + 1 \in DOMAIN messages /\ messages[k + 1].kind = "human"
  BY DEF Proper
<1>5. HistoryTypes' BY SayAdds DEF HistoryTypes
<1>6. SaidWhole'
  <2>1. ASSUME NEW i \in DOMAIN said
        PROVE  /\ said'[i].kind = "call" => i + 1 \in DOMAIN said' /\ said'[i + 1].kind = "reply"
               /\ said'[i].kind = "reply" =>
                    /\ i - 1 \in DOMAIN said' /\ said'[i - 1].kind = "call"
                    /\ said'[i].of = {i - 1}
               /\ said'[i].kind = "attachment" =>
                    i + 1 \in DOMAIN said' /\ said'[i + 1].kind = "human"
    BY <1>2 DEF MessagesInv, SaidWhole, Kind, Human
  <2>2. ASSUME NEW k \in DOMAIN messages, NEW i, i = Len(said) + k
        PROVE  /\ said'[i].kind = "call" => i + 1 \in DOMAIN said' /\ said'[i + 1].kind = "reply"
               /\ said'[i].kind = "reply" =>
                    /\ i - 1 \in DOMAIN said' /\ said'[i - 1].kind = "call"
                    /\ said'[i].of = {i - 1}
               /\ said'[i].kind = "attachment" =>
                    i + 1 \in DOMAIN said' /\ said'[i + 1].kind = "human"
    <3>1. said'[i] = messages[k] BY <1>2, <2>2
    <3>2. i + 1 = Len(said) + (k + 1) /\ i - 1 = Len(said) + (k - 1) BY <1>1, <1>4, <2>2
    <3>3. k + 1 \in DOMAIN messages => /\ i + 1 \in DOMAIN said'
                                      /\ said'[i + 1] = messages[k + 1]
      BY <1>2, <3>2
    <3>4. k - 1 \in DOMAIN messages => /\ i - 1 \in DOMAIN said'
                                      /\ said'[i - 1] = messages[k - 1]
      BY <1>2, <3>2
    <3> QED BY <1>4, <3>1, <3>2, <3>3, <3>4
  <2> QED BY <1>2, <2>1, <2>2 DEF SaidWhole, Kind, Human
<1>7. RepliesHeld'
  <2>1. ASSUME NEW i \in Held, said'[i].kind = "reply" PROVE i - 1 \in Held'
    <3>1. Kind(i) = "reply" BY <1>1, <1>2, <2>1 DEF Kind
    <3>2. i - 1 \in Held BY <3>1 DEF MessagesInv, RepliesHeld
    <3> QED BY <1>3, <3>2
  <2>2. ASSUME NEW k \in DOMAIN messages, said'[Len(said) + k].kind = "reply"
        PROVE  (Len(said) + k) - 1 \in Held'
    <3>1. k - 1 \in DOMAIN messages BY <1>2, <1>4, <2>2
    <3>2. (Len(said) + k) - 1 = Len(said) + (k - 1) BY <1>1, <1>4
    <3> QED BY <1>3, <3>1, <3>2
  <2>3. \A i \in Held' : i \in Held \/ \E k \in DOMAIN messages : i = Len(said) + k BY <1>3
  <2> QED BY <2>1, <2>2, <2>3 DEF RepliesHeld, Kind
<1>8. \A i \in Held' : said'[i].kind = "summary" => i \in Held /\ Kind(i) = "summary"
  BY <1>1, <1>2, <1>3, <1>4 DEF Kind
<1>9. \A u \in Held : u \in Held' /\ said'[u] = said[u] BY <1>1, <1>2, <1>3
<1>10. IsFiniteSet(DOMAIN said') /\ IsFiniteSet(Held')
  <2>1. IsFiniteSet(1..(Len(said) + Len(messages)))
    <3>1. Len(said) + Len(messages) \in Int BY <1>1, <1>4
    <3> QED BY <3>1, FS_Interval
  <2>2. Held' \subseteq DOMAIN said' BY <1>1, <1>2, <1>3
  <2> QED BY <1>2, <2>1, <2>2, FS_Subset
<1>11. SummariesApart'
  <2>1. ASSUME NEW i \in Held', NEW j \in Held', said'[i].kind = "summary",
               said'[j].kind = "summary", i < j
        PROVE  \E u \in Held' : said'[u].kind = "human" /\ i < u /\ u < j
    <3>1. i \in Held /\ j \in Held /\ Kind(i) = "summary" /\ Kind(j) = "summary"
      BY <1>8, <2>1
    <3>2. PICK u \in Held : Human(u) /\ i < u /\ u < j
      BY <2>1, <3>1 DEF MessagesInv, SummariesApart
    <3> QED BY <1>9, <3>2 DEF Human, Kind
  <2>2. PICK H, G : /\ H = {u \in Held : Human(u)}
                    /\ G = {u \in Held' : said'[u].kind = "human"}
    OBVIOUS
  <2>3. ASSUME Cardinality(G) > KeepTurns, NEW i \in Held', said'[i].kind = "summary"
        PROVE  \E u \in Held' : said'[u].kind = "human" /\ i < u
    <3>1. i \in Held /\ Kind(i) = "summary" BY <1>8, <2>3
    <3>2. CASE \E k \in DOMAIN messages : messages[k].kind = "human"
      <4>1. PICK k \in DOMAIN messages : messages[k].kind = "human" BY <3>2
      <4>2. /\ Len(said) + k \in Held' /\ said'[Len(said) + k].kind = "human"
            /\ i < Len(said) + k
        BY <1>1, <1>2, <1>3, <1>4, <3>1, <4>1
      <4> QED BY <4>2
    <3>3. CASE \A k \in DOMAIN messages : messages[k].kind # "human"
      <4>1. \A u \in Held' : said'[u].kind = "human" <=> u \in Held /\ Human(u)
        BY <1>1, <1>2, <1>3, <3>3 DEF Human, Kind
      <4>2. G = H BY <1>3, <2>2, <4>1
      <4>3. \E u \in Held : Human(u) /\ i < u
        BY <2>2, <2>3, <3>1, <4>2 DEF MessagesInv, SummariesApart
      <4> QED BY <1>9, <4>3 DEF Human, Kind
    <3> QED BY <3>2, <3>3
  <2> QED BY <2>1, <2>2, <2>3 DEF SummariesApart, Human, Kind
<1>12. NothingForgotten'
  <2>1. ASSUME NEW m \in DOMAIN history', NEW n \in DOMAIN history', m < n
        PROVE  history'[m] < history'[n]
    <3>1. CASE n \in DOMAIN history /\ history'[n] = history[n]
      <4>1. m \in DOMAIN history /\ history'[m] = history[m]
        BY <1>1, <1>3, <1>4, <2>1, <3>1
      <4> QED BY <1>1, <2>1, <3>1, <4>1
    <3>2. ASSUME NEW k \in DOMAIN messages, n = Len(history) + k, history'[n] = Len(said) + k
          PROVE  history'[m] < history'[n]
      <4>1. CASE m \in DOMAIN history /\ history'[m] = history[m]
        BY <1>1, <1>4, <3>2, <4>1
      <4>2. ASSUME NEW l \in DOMAIN messages, m = Len(history) + l, history'[m] = Len(said) + l
            PROVE  history'[m] < history'[n]
        BY <1>1, <1>4, <2>1, <3>2, <4>2
      <4> QED BY <1>3, <4>1, <4>2
    <3> QED BY <1>3, <3>1, <3>2
  <2>2. ASSUME NEW i \in DOMAIN said', NEW j \in DOMAIN said', said'[i].kind # "summary",
               said'[j].kind # "summary", i < j, i \in Held'
        PROVE  j \in Held'
    <3>1. CASE j \in DOMAIN said
      <4>1. i \in DOMAIN said /\ i \in Held BY <1>1, <1>2, <1>3, <1>4, <2>2, <3>1
      <4>2. Spoken(i) /\ Spoken(j) BY <1>2, <2>2, <3>1, <4>1 DEF Spoken, Kind
      <4>3. j \in Held BY <2>2, <3>1, <4>1, <4>2 DEF MessagesInv, NothingForgotten, Held
      <4> QED BY <1>3, <4>3
    <3>2. CASE j \notin DOMAIN said BY <1>2, <1>3, <3>2
    <3> QED BY <3>1, <3>2
  <2>3. ASSUME NEW i \in DOMAIN said', said'[i].kind # "summary"
        PROVE  \E j \in Held' : i \in IF said'[j].kind = "summary" THEN said'[j].of ELSE {j}
    <3>1. CASE i \in DOMAIN said
      <4>1. Spoken(i) BY <1>2, <2>3, <3>1 DEF Spoken, Kind
      <4>2. PICK j \in Held : i \in Covered(j)
        BY <3>1, <4>1 DEF MessagesInv, NothingForgotten, Held
      <4> QED BY <1>9, <4>2 DEF Covered, Kind
    <3>2. CASE i \notin DOMAIN said
      <4>1. i \in Held' BY <1>2, <1>3, <3>2
      <4> QED BY <2>3, <4>1
    <3> QED BY <3>1, <3>2
  <2>4. ASSUME NEW i \in DOMAIN said', said'[i].kind = "human",
               Cardinality({j \in DOMAIN said' : said'[j].kind = "human" /\ j >= i}) <= KeepTurns
        PROVE  i \in Held'
    <3>1. CASE i \in DOMAIN said
      <4>1. PICK A : A = {j \in DOMAIN said : Human(j) /\ j >= i} OBVIOUS
      <4>2. PICK B : B = {j \in DOMAIN said' : said'[j].kind = "human" /\ j >= i} OBVIOUS
      <4>3. A \in SUBSET B BY <1>2, <4>1, <4>2 DEF Human, Kind
      <4>4. IsFiniteSet(B) BY <1>10, <4>2, FS_Subset
      <4>5. Cardinality(A) <= Cardinality(B) /\ Cardinality(A) \in Nat /\ Cardinality(B) \in Nat
        BY <4>3, <4>4, FS_Subset, FS_CardinalityType
      <4>6. Cardinality(A) <= KeepTurns /\ Human(i)
        BY <1>2, <2>4, <3>1, <4>2, <4>5, HistoryAssumption DEF Human, Kind
      <4>7. i \in Held BY <3>1, <4>1, <4>6 DEF MessagesInv, NothingForgotten, Held
      <4> QED BY <1>3, <4>7
    <3>2. CASE i \notin DOMAIN said BY <1>2, <1>3, <3>2
    <3> QED BY <3>1, <3>2
  <2> QED BY <2>1, <2>2, <2>3, <2>4 DEF NothingForgotten, Held, Spoken, Covered, Human, Kind
<1>13. SummariesBounded'
  <2>1. {i \in Held' : said'[i].kind = "summary"} = {i \in Held : Kind(i) = "summary"}
    BY <1>8, <1>9 DEF Kind
  <2> QED BY <2>1 DEF MessagesInv, SummariesBounded, Held, Kind
<1> QED BY <1>5, <1>6, <1>7, <1>11, <1>12, <1>13 DEF MessagesInv

-----------------------------------------------------------------------------
(* Compression                                                             *)

\* What is cut off ends before a message of the user that KeepTurns messages of the user,
\* itself one of them, follow.
LEMMA CutoffIs ==
  ASSUME MessagesInv, Cutoff > 0
  PROVE  \E m \in DOMAIN history :
           /\ Cutoff = m - 1 /\ m > 1
           /\ Human(history[m])
           /\ Cardinality({n \in DOMAIN history : Human(history[n]) /\ n >= m}) = KeepTurns
           /\ Cardinality({n \in DOMAIN history : Human(history[n])}) > KeepTurns
<1>1. /\ DOMAIN history = 1..Len(history) /\ Len(history) \in Nat
      /\ \A n \in DOMAIN history : history[n] \in DOMAIN said
      /\ \A n, k \in DOMAIN history : history[k] = history[n] + 1 => k = n + 1
  BY HistoryAscends
<1>2. KeepTurns \in Nat \ {0} BY HistoryAssumption
<1>3. PICK P : P = {n \in DOMAIN history : Human(history[n])} OBVIOUS
<1>4. P \subseteq Nat /\ IsFiniteSet(P)
  <2>1. IsFiniteSet(1..Len(history)) BY <1>1, FS_Interval
  <2> QED BY <1>1, <1>3, <2>1, FS_Subset
<1>5. PICK humans : humans = Ascending(P) OBVIOUS
<1>6. /\ Cardinality(P) \in Nat /\ humans \in [1..Cardinality(P) -> P]
      /\ \A n \in 1..Cardinality(P) : Rank(P, humans[n]) = n
  BY <1>4, <1>5, AscendingIs
<1>7. Len(humans) = Cardinality(P) BY <1>6
<1>8. /\ Cardinality(P) > KeepTurns
      /\ Cutoff = BoundaryUpTo(history, humans[Cardinality(P) - KeepTurns + 1] - 1)
  <2>1. Cutoff = IF ~Whole(history) \/ Cardinality(P) <= KeepTurns THEN 0
                 ELSE BoundaryUpTo(history, humans[Cardinality(P) - KeepTurns + 1] - 1)
    BY <1>3, <1>5, <1>7 DEF Cutoff
  <2>2. ~(Cardinality(P) <= KeepTurns) BY <2>1
  <2> QED BY <1>2, <1>6, <2>1, <2>2
<1>9. PICK e \in 1..Cardinality(P) : e = Cardinality(P) - KeepTurns + 1 BY <1>2, <1>6, <1>8
<1>10. PICK m : m = humans[e] OBVIOUS
<1>11. m \in P /\ Rank(P, m) = e BY <1>6, <1>10
<1>12. m \in DOMAIN history /\ m \in Nat /\ Human(history[m]) BY <1>1, <1>3, <1>11
<1>13. SaidWhole /\ Paired(history) BY HistoryIsPaired DEF MessagesInv
<1>14. m - 1 \in 0..Len(history) BY <1>1, <1>12
<1>15. m - 1 \in Boundaries(history)
  <2>1. SUFFICES ASSUME m - 1 \in DOMAIN history, Kind(history[m - 1]) = "call" PROVE FALSE
    BY <1>13, <1>14, PairedIsWhole
  <2>2. (m - 1) + 1 = m BY <1>12
  <2>3. history[m] = history[m - 1] + 1 BY <1>13, <2>1, <2>2 DEF Paired
  <2>4. Kind(history[m]) = "reply" BY <1>1, <1>13, <2>1, <2>3 DEF SaidWhole
  <2> QED BY <1>12, <2>4 DEF Human
<1>16. Cutoff = m - 1 BY <1>8, <1>9, <1>10, <1>13, <1>14, <1>15, BoundaryUpToIs
<1>17. m > 1 BY <1>12, <1>16
<1>18. Cardinality({n \in DOMAIN history : Human(history[n]) /\ n >= m}) = KeepTurns
  <2>1. PICK below : below = {q \in P : q <= m} OBVIOUS
  <2>2. PICK strictly : strictly = below \ {m} OBVIOUS
  <2>3. m \in below /\ below \in SUBSET P BY <1>11, <1>12, <2>1
  <2>4. IsFiniteSet(below) /\ Cardinality(below) = e BY <1>4, <1>11, <2>1, <2>3, FS_Subset DEF Rank
  <2>5. IsFiniteSet(strictly) /\ Cardinality(strictly) = e - 1
    BY <2>2, <2>3, <2>4, FS_RemoveElement
  <2>6. Cardinality(P \ strictly) = Cardinality(P) - Cardinality(P \cap strictly)
    BY <1>4, FS_Difference
  <2>7. P \cap strictly = strictly BY <2>2, <2>3
  <2>8. {n \in DOMAIN history : Human(history[n]) /\ n >= m} = P \ strictly
    <3>1. ASSUME NEW n \in P PROVE n >= m <=> n \notin strictly
      <4>1. n \in Nat BY <1>4
      <4> QED BY <1>12, <2>1, <2>2, <4>1
    <3> QED BY <1>3, <3>1
  <2>9. Cardinality(P \ strictly) = Cardinality(P) - (e - 1) BY <2>5, <2>6, <2>7
  <2>10. Cardinality(P) - (e - 1) = KeepTurns BY <1>2, <1>6, <1>9
  <2> QED BY <2>8, <2>9, <2>10
<1> QED BY <1>3, <1>8, <1>12, <1>16, <1>17, <1>18

\* The summary comes last in the thread; the history keeps what was not cut off, and it.
LEMMA CompressHolds ==
  ASSUME MessagesInv, Compress, NEW c \in 0..Len(history), c = Cutoff
  PROVE  /\ said' \in Seq(Messages) /\ DOMAIN said' = 1..(Len(said) + 1)
         /\ \A i \in DOMAIN said : said'[i] = said[i]
         /\ said'[Len(said) + 1] =
              [kind |-> "summary", of |-> UNION {Covered(history[n]) : n \in 1..c}]
         /\ history' \in Seq(DOMAIN said') /\ DOMAIN history' = 1..(Len(history) - c + 1)
         /\ \A n \in 1..(Len(history) - c) : history'[n] = history[c + n]
         /\ history'[Len(history) - c + 1] = Len(said) + 1
         /\ Held' = {history[n] : n \in (c + 1)..Len(history)} \cup {Len(said) + 1}
<1>1. /\ history \in Seq(DOMAIN said) /\ DOMAIN history = 1..Len(history)
      /\ Len(history) \in Nat /\ DOMAIN said = 1..Len(said) /\ Len(said) \in Nat
      /\ \A n \in DOMAIN history : history[n] \in DOMAIN said
      /\ \A m, n \in DOMAIN history : history[m] = history[n] => m = n
      /\ said \in Seq(Messages) /\ c \in Nat /\ c <= Len(history)
  BY HistoryAscends DEF MessagesInv, HistoryTypes
<1>2. PICK next : next = Len(said) + 1 OBVIOUS
<1>3. PICK rest : rest = SubSeq(history, c + 1, Len(history)) OBVIOUS
<1>4. PICK left : left = Len(history) - c OBVIOUS
<1>5. /\ left \in Nat /\ rest \in Seq(DOMAIN said) /\ Len(rest) = left
      /\ \A n \in 1..left : rest[n] = history[c + n] /\ c + n \in (c + 1)..Len(history)
  <2>1. /\ history \in Seq(DOMAIN said) /\ c \in Nat /\ Len(history) \in Nat
        /\ c <= Len(history)
    BY <1>1
  <2>2. rest \in Seq(DOMAIN said) BY <1>3, <2>1
  <2>3. Len(rest) = left BY <1>3, <1>4, <2>1
  <2>4. \A n \in 1..left : rest[n] = history[c + n] BY <1>3, <1>4, <2>1
  <2>5. left \in Nat /\ \A n \in 1..left : c + n \in (c + 1)..Len(history) BY <1>4, <2>1
  <2> QED BY <2>2, <2>3, <2>4, <2>5
<1>6. PICK summary : summary = [kind |-> "summary",
                                of |-> UNION {Covered(history[n]) : n \in 1..c}]
  OBVIOUS
<1>7. said' = Append(said, summary) /\ history' = Replacement(next, rest)
  BY <1>2, <1>3, <1>6 DEF Compress
<1>8. summary \in Messages
  <2>1. ASSUME NEW n \in 1..c PROVE Covered(history[n]) \subseteq Nat
    <3>1. n \in DOMAIN history BY <1>1
    <3>2. history[n] \in DOMAIN said /\ history[n] \in Nat BY <1>1, <3>1
    <3>3. said[history[n]] \in Messages BY <1>1, <3>2
    <3>4. said[history[n]].of \subseteq Nat BY <3>3 DEF Messages
    <3> QED BY <3>2, <3>4 DEF Covered
  <2>2. UNION {Covered(history[n]) : n \in 1..c} \subseteq Nat BY <2>1
  <2> QED BY <1>6, <2>2 DEF Messages, MessageKinds
<1>9. /\ said' \in Seq(Messages) /\ DOMAIN said' = 1..next
      /\ \A i \in DOMAIN said : said'[i] = said[i]
      /\ said'[next] = summary
  BY <1>1, <1>2, <1>7, <1>8
<1>10. PICK added : added = <<next>> \o rest OBVIOUS
<1>11. /\ added \in Seq(Nat) /\ DOMAIN added = 1..(1 + left)
       /\ \A n \in 1..(1 + left) : added[n] = IF n <= 1 THEN <<next>>[n] ELSE rest[n - 1]
  <2>1. <<next>> \in Seq(Nat) /\ Len(<<next>>) = 1 BY <1>1, <1>2
  <2>2. rest \in Seq(Nat)
    <3>1. DOMAIN said \subseteq Nat BY <1>1
    <3> QED BY <1>5, <3>1, SeqMonotonic
  <2>3. added \in Seq(Nat) /\ Len(added) = 1 + left BY <1>5, <1>10, <2>1, <2>2, ConcatProperties
  <2>4. \A n \in 1..(1 + left) : added[n] = IF n <= 1 THEN <<next>>[n] ELSE rest[n - 1]
    BY <1>5, <1>10, <2>1, <2>2, ConcatProperties
  <2> QED BY <2>3, <2>4
<1>12. added[1] = next
  <2>1. 1 \in 1..(1 + left) /\ <<next>>[1] = next BY <1>5
  <2> QED BY <1>11, <2>1
<1>13. ASSUME NEW n \in DOMAIN added, n # 1
       PROVE  n - 1 \in 1..left /\ added[n] = rest[n - 1]
  <2>1. n \in 1..(1 + left) BY <1>11
  <2>2. n - 1 \in 1..left /\ ~(n <= 1) BY <1>5, <1>13, <2>1
  <2> QED BY <1>11, <2>1, <2>2
<1>14. ToSet(added) = {history[n] : n \in (c + 1)..Len(history)} \cup {next}
  <2>1. ASSUME NEW n \in DOMAIN added
        PROVE  added[n] \in {history[k] : k \in (c + 1)..Len(history)} \cup {next}
    <3>1. CASE n = 1 BY <1>12, <3>1
    <3>2. CASE n # 1
      <4>1. n - 1 \in 1..left /\ added[n] = rest[n - 1] BY <1>13, <3>2
      <4>2. rest[n - 1] = history[c + (n - 1)] /\ c + (n - 1) \in (c + 1)..Len(history)
        BY <1>5, <4>1
      <4> QED BY <4>1, <4>2
    <3> QED BY <3>1, <3>2
  <2>2. ASSUME NEW k \in (c + 1)..Len(history) PROVE history[k] \in ToSet(added)
    <3>1. PICK i \in Nat : i = k - c /\ i >= 1 /\ i <= left BY <1>1, <1>4
    <3>2. i + 1 \in DOMAIN added /\ i + 1 # 1 /\ (i + 1) - 1 = i BY <1>5, <1>11, <3>1
    <3>3. added[i + 1] = rest[i] BY <1>13, <3>2
    <3>4. i \in 1..left /\ c + i = k BY <1>1, <3>1
    <3>5. rest[i] = history[k] BY <1>5, <3>4
    <3> QED BY <3>2, <3>3, <3>5 DEF ToSet
  <2>3. next \in ToSet(added)
    <3>1. 1 \in DOMAIN added BY <1>5, <1>11
    <3> QED BY <1>12, <3>1 DEF ToSet
  <2> QED BY <2>1, <2>2, <2>3 DEF ToSet
<1>15. {n \in DOMAIN history : history[n] \notin ToSet(history) \/ history[n] \in ToSet(added)}
         = (c + 1)..Len(history)
  <2>1. ASSUME NEW n \in DOMAIN history PROVE history[n] \in ToSet(history)
    BY DEF ToSet
  <2>2. ASSUME NEW n \in DOMAIN history, history[n] \in ToSet(added)
        PROVE  n \in (c + 1)..Len(history)
    <3>1. history[n] # next BY <1>1, <1>2
    <3>2. PICK k \in (c + 1)..Len(history) : history[n] = history[k] BY <1>14, <2>2, <3>1
    <3>3. k \in DOMAIN history BY <1>1
    <3> QED BY <1>1, <3>2, <3>3
  <2>3. ASSUME NEW n \in (c + 1)..Len(history)
        PROVE  n \in DOMAIN history /\ history[n] \in ToSet(added)
    BY <1>1, <1>14
  <2> QED BY <2>1, <2>2, <2>3
<1>16. {n \in DOMAIN added : added[n] \notin ToSet(history)} = (0 + 1)..1
  <2>1. next \notin ToSet(history) BY <1>1, <1>2 DEF ToSet
  <2>2. ASSUME NEW n \in DOMAIN added, n # 1 PROVE added[n] \in ToSet(history)
    <3>1. n - 1 \in 1..left /\ added[n] = rest[n - 1] BY <1>13, <2>2
    <3>2. rest[n - 1] = history[c + (n - 1)] /\ c + (n - 1) \in (c + 1)..Len(history)
      BY <1>5, <3>1
    <3>3. c + (n - 1) \in DOMAIN history BY <1>1, <3>2
    <3> QED BY <3>1, <3>2, <3>3 DEF ToSet
  <2>3. 1 \in DOMAIN added BY <1>5, <1>11
  <2>4. \A n \in DOMAIN added : added[n] \notin ToSet(history) <=> n = 1
    BY <1>12, <2>1, <2>2
  <2>5. (0 + 1)..1 = {1} OBVIOUS
  <2> QED BY <2>3, <2>4, <2>5
<1>17. Picked(history, (c + 1)..Len(history)) = rest BY <1>1, <1>3, PickedRest
<1>18. Picked(added, (0 + 1)..1) = <<next>>
  <2>1. Ascending((0 + 1)..1) = [n \in 1..(1 - 0) |-> 0 + n]
    <3>1. 0 \in Nat /\ 1 \in Nat /\ 0 <= 1 OBVIOUS
    <3> QED BY <3>1, AscendingInterval
  <2>2. Picked(added, (0 + 1)..1) = [n \in 1..1 |-> added[n]] BY <2>1 DEF Picked
  <2>3. [n \in 1..1 |-> added[n]] = <<next>> BY <1>12
  <2> QED BY <2>2, <2>3
<1>19. history' = rest \o <<next>>
  <2>1. Replacement(next, rest) = AddMessages(ToSet(history), added)
    BY <1>10 DEF Replacement
  <2> QED BY <1>7, <1>15, <1>16, <1>17, <1>18, <2>1 DEF AddMessages
<1>20. /\ history' \in Seq(DOMAIN said') /\ DOMAIN history' = 1..(left + 1)
       /\ \A n \in 1..(left + 1) :
            history'[n] = IF n <= left THEN rest[n] ELSE <<next>>[n - left]
  <2>1. rest \in Seq(DOMAIN said')
    <3>1. DOMAIN said \subseteq DOMAIN said' BY <1>1, <1>2, <1>9
    <3> QED BY <1>5, <3>1, SeqMonotonic
  <2>2. next \in DOMAIN said' BY <1>1, <1>2, <1>9
  <2>3. <<next>> \in Seq(DOMAIN said') /\ Len(<<next>>) = 1 BY <2>2
  <2>4. history' \in Seq(DOMAIN said') /\ Len(history') = left + 1
    BY <1>5, <1>19, <2>1, <2>3, ConcatProperties
  <2>5. \A n \in 1..(left + 1) : history'[n] = IF n <= left THEN rest[n] ELSE <<next>>[n - left]
    BY <1>5, <1>19, <2>1, <2>3, ConcatProperties
  <2> QED BY <2>4, <2>5
<1>21. \A n \in 1..left : n \in 1..(left + 1) /\ n <= left BY <1>5
<1>22. \A n \in 1..left : history'[n] = history[c + n] BY <1>5, <1>20, <1>21
<1>23. history'[left + 1] = next
  <2>1. left + 1 \in 1..(left + 1) /\ ~(left + 1 <= left) /\ (left + 1) - left = 1
    BY <1>5
  <2>2. <<next>>[1] = next OBVIOUS
  <2> QED BY <1>20, <2>1, <2>2
<1>24. Held' = {history[n] : n \in (c + 1)..Len(history)} \cup {next}
  <2>1. ASSUME NEW n \in DOMAIN history'
        PROVE  history'[n] \in {history[k] : k \in (c + 1)..Len(history)} \cup {next}
    <3>1. CASE n = left + 1 BY <1>23, <3>1
    <3>2. CASE n # left + 1
      <4>1. n \in 1..left BY <1>5, <1>20, <3>2
      <4> QED BY <1>5, <1>22, <4>1
    <3> QED BY <3>1, <3>2
  <2>2. ASSUME NEW k \in (c + 1)..Len(history) PROVE \E n \in DOMAIN history' : history'[n] = history[k]
    <3>1. k - c \in 1..left /\ k - c \in DOMAIN history' /\ c + (k - c) = k
      BY <1>1, <1>4, <1>20
    <3> QED BY <1>22, <3>1
  <2>3. left + 1 \in DOMAIN history' BY <1>5, <1>20
  <2> QED BY <1>23, <2>1, <2>2, <2>3 DEF Held, ToSet
<1> QED BY <1>2, <1>4, <1>6, <1>9, <1>20, <1>22, <1>23, <1>24

\* As many messages as places: a history has no message twice.
LEMMA PlacesCount ==
  ASSUME MessagesInv, NEW P \in SUBSET DOMAIN history
  PROVE  /\ IsFiniteSet({history[n] : n \in P})
         /\ Cardinality({history[n] : n \in P}) = Cardinality(P)
<1>1. /\ DOMAIN history = 1..Len(history) /\ Len(history) \in Nat
      /\ \A m, n \in DOMAIN history : history[m] = history[n] => m = n
  BY HistoryAscends
<1>2. IsFiniteSet(P)
  <2>1. IsFiniteSet(1..Len(history)) BY <1>1, FS_Interval
  <2> QED BY <1>1, <2>1, FS_Subset
<1>3. PICK U : U = {history[n] : n \in P} OBVIOUS
<1>4. PICK f : f = [n \in P |-> history[n]] OBVIOUS
<1>5. f \in Bijection(P, U)
  BY <1>1, <1>3, <1>4 DEF Bijection, Injection, Surjection, IsInjective
<1>6. ExistsBijection(P, U) BY <1>5 DEF ExistsBijection
<1> QED BY <1>2, <1>3, <1>6, FS_Bijection

\* Compression, told by messages: v is the first message of the user that is kept; what
\* stays is not older, and the summary.
LEMMA CompressKeepsFrom ==
  ASSUME MessagesInv, Compress
  PROVE  \E v \in Held :
           /\ Human(v)
           /\ Cardinality({u \in Held : Human(u) /\ u >= v}) = KeepTurns
           /\ Cardinality({u \in Held : Human(u)}) > KeepTurns
           /\ \A i : i \in Held' <=> (i \in Held /\ i >= v) \/ i = Len(said) + 1
           /\ \A i \in Held : i < v => Covered(i) \subseteq said'[Len(said) + 1].of
           /\ said'[Len(said) + 1].kind = "summary"
<1>1. /\ history \in Seq(DOMAIN said) /\ DOMAIN history = 1..Len(history)
      /\ Len(history) \in Nat /\ DOMAIN said = 1..Len(said) /\ Len(said) \in Nat
      /\ \A n \in DOMAIN history : history[n] \in DOMAIN said /\ history[n] \in Nat
      /\ \A m, n \in DOMAIN history : m < n <=> history[m] < history[n]
      /\ \A m, n \in DOMAIN history : history[m] = history[n] => m = n
  BY HistoryAscends
<1>2. Cutoff > 0 BY DEF Compress
<1>3. PICK m \in DOMAIN history :
        /\ Cutoff = m - 1 /\ m > 1
        /\ Human(history[m])
        /\ Cardinality({n \in DOMAIN history : Human(history[n]) /\ n >= m}) = KeepTurns
        /\ Cardinality({n \in DOMAIN history : Human(history[n])}) > KeepTurns
  BY <1>2, CutoffIs
<1>4. PICK c \in 0..Len(history) : c = m - 1 BY <1>1, <1>3
<1>5. c = Cutoff /\ c + 1 = m BY <1>1, <1>3, <1>4
<1>6. /\ said'[Len(said) + 1] =
           [kind |-> "summary", of |-> UNION {Covered(history[n]) : n \in 1..c}]
      /\ Held' = {history[n] : n \in (c + 1)..Len(history)} \cup {Len(said) + 1}
  BY <1>5, CompressHolds
<1>7. PICK v \in Held : v = history[m] BY DEF Held, ToSet
<1>8. v \in Nat /\ Human(v) BY <1>1, <1>3, <1>7
<1>9. \A n \in DOMAIN history : n >= m <=> history[n] >= v
  <2> TAKE n \in DOMAIN history
  <2>1. n \in Nat /\ m \in Nat /\ history[n] \in Nat BY <1>1
  <2>2. n < m <=> history[n] < v BY <1>1, <1>7
  <2> QED BY <1>8, <2>1, <2>2
<1>10. {u \in Held : Human(u) /\ u >= v} =
         {history[n] : n \in {k \in DOMAIN history : Human(history[k]) /\ k >= m}}
  <2>1. ASSUME NEW u \in Held, Human(u), u >= v
        PROVE  u \in {history[n] : n \in {k \in DOMAIN history : Human(history[k]) /\ k >= m}}
    <3>1. PICK n \in DOMAIN history : u = history[n] BY DEF Held, ToSet
    <3> QED BY <1>9, <2>1, <3>1
  <2>2. ASSUME NEW n \in DOMAIN history, Human(history[n]), n >= m
        PROVE  history[n] \in Held /\ history[n] >= v
    BY <1>9, <2>2 DEF Held, ToSet
  <2> QED BY <2>1, <2>2
<1>11. {u \in Held : Human(u)} = {history[n] : n \in {k \in DOMAIN history : Human(history[k])}}
  BY DEF Held, ToSet
<1>12. Cardinality({u \in Held : Human(u) /\ u >= v}) = KeepTurns
  <2>1. {k \in DOMAIN history : Human(history[k]) /\ k >= m} \in SUBSET DOMAIN history OBVIOUS
  <2> QED BY <1>3, <1>10, <2>1, PlacesCount
<1>13. Cardinality({u \in Held : Human(u)}) > KeepTurns
  <2>1. {k \in DOMAIN history : Human(history[k])} \in SUBSET DOMAIN history OBVIOUS
  <2> QED BY <1>3, <1>11, <2>1, PlacesCount
<1>14. ASSUME NEW i PROVE i \in Held' <=> (i \in Held /\ i >= v) \/ i = Len(said) + 1
  <2>1. ASSUME NEW n \in (c + 1)..Len(history) PROVE history[n] \in Held /\ history[n] >= v
    <3>1. n \in DOMAIN history /\ n >= m BY <1>1, <1>5
    <3> QED BY <1>9, <3>1 DEF Held, ToSet
  <2>2. ASSUME i \in Held, i >= v PROVE i \in {history[n] : n \in (c + 1)..Len(history)}
    <3>1. PICK n \in DOMAIN history : i = history[n] BY <2>2 DEF Held, ToSet
    <3>2. n >= m BY <1>9, <2>2, <3>1
    <3>3. n \in (c + 1)..Len(history) BY <1>1, <1>5, <3>2
    <3> QED BY <3>1, <3>3
  <2> QED BY <1>6, <2>1, <2>2
<1>15. ASSUME NEW i \in Held, i < v PROVE Covered(i) \subseteq said'[Len(said) + 1].of
  <2>1. PICK n \in DOMAIN history : i = history[n] BY DEF Held, ToSet
  <2>2. n \in 1..c BY <1>1, <1>5, <1>7, <1>15, <2>1
  <2>3. Covered(i) \in {Covered(history[k]) : k \in 1..c} BY <2>1, <2>2
  <2> QED BY <1>6, <2>3
<1>16. said'[Len(said) + 1].kind = "summary" BY <1>6
<1>17. \A i : i \in Held' <=> (i \in Held /\ i >= v) \/ i = Len(said) + 1 BY <1>14
<1>18. \A i \in Held : i < v => Covered(i) \subseteq said'[Len(said) + 1].of BY <1>15
<1> WITNESS v \in Held
<1> QED BY <1>8, <1>12, <1>13, <1>16, <1>17, <1>18

\* Of the summaries that stay each has a message of the user behind it that no other has,
\* and the first one kept is behind none.
LEMMA FewSummariesStay ==
  ASSUME MessagesInv, NEW v \in Held, Human(v),
         Cardinality({u \in Held : Human(u) /\ u >= v}) = KeepTurns,
         Cardinality({u \in Held : Human(u)}) > KeepTurns
  PROVE  /\ IsFiniteSet({i \in Held : Kind(i) = "summary" /\ i >= v})
         /\ Cardinality({i \in Held : Kind(i) = "summary" /\ i >= v}) <= KeepTurns - 1
<1>1. PICK R : R = {i \in Held : Kind(i) = "summary" /\ i >= v} OBVIOUS
<1>2. PICK U : U = {u \in Held : Human(u) /\ u >= v} OBVIOUS
<1>3. Held \subseteq DOMAIN said /\ DOMAIN said = 1..Len(said) /\ Len(said) \in Nat
  BY HistoryAscends DEF Held, ToSet
<1>4. IsFiniteSet(Held)
  <2>1. IsFiniteSet(1..Len(said)) BY <1>3, FS_Interval
  <2> QED BY <1>3, <2>1, FS_Subset
<1>5. IsFiniteSet(U) /\ v \in U /\ Cardinality(U) = KeepTurns /\ U \subseteq Held
  <2>1. U \in SUBSET Held BY <1>2
  <2>2. v \in Nat BY <1>3
  <2> QED BY <1>2, <1>4, <2>1, <2>2, FS_Subset
<1>6. IsFiniteSet(U \ {v}) /\ Cardinality(U \ {v}) = KeepTurns - 1
  BY <1>5, FS_RemoveElement
<1>7. ASSUME NEW q \in R
      PROVE  \E u \in U \ {v} : q < u /\ \A r \in R : q < r => u < r
  <2>1. q \in Held /\ Kind(q) = "summary" /\ q >= v /\ q \in Nat /\ v \in Nat
    BY <1>1, <1>3
  <2>2. ASSUME NEW u \in Held, Human(u), q < u PROVE u \in U \ {v}
    <3>1. u \in Nat BY <1>3
    <3>2. u >= v /\ u # v BY <2>1, <2>2, <3>1
    <3> QED BY <1>2, <2>2, <3>2
  <2>3. CASE \E r \in R : q < r
    <3>1. PICK T : T = {r \in R : q < r} OBVIOUS
    <3>2. T \subseteq Nat /\ T # {} BY <1>1, <1>3, <2>3, <3>1
    <3>3. PICK r \in T : \A x \in T : r <= x BY <3>2, LeastMember
    <3>4. r \in Held /\ Kind(r) = "summary" /\ q < r /\ r \in Nat BY <1>1, <3>1, <3>2, <3>3
    <3>5. PICK u \in Held : Human(u) /\ q < u /\ u < r
      BY <2>1, <3>4 DEF MessagesInv, SummariesApart
    <3>6. ASSUME NEW x \in R, q < x PROVE u < x
      <4>1. x \in T BY <3>1, <3>6
      <4>2. r <= x /\ x \in Nat /\ u \in Nat BY <1>3, <3>2, <3>3, <4>1
      <4> QED BY <3>4, <3>5, <4>2
    <3> QED BY <2>2, <3>5, <3>6
  <2>4. CASE ~(\E r \in R : q < r)
    <3>1. PICK u \in Held : Human(u) /\ q < u BY <2>1 DEF MessagesInv, SummariesApart
    <3> QED BY <2>2, <2>4, <3>1
  <2> QED BY <2>3, <2>4
<1>8. PICK f : f = [q \in R |-> CHOOSE u \in U \ {v} : q < u /\ \A r \in R : q < r => u < r]
  OBVIOUS
<1>9. \A q \in R : f[q] \in U \ {v} /\ q < f[q] /\ \A r \in R : q < r => f[q] < r
  <2> TAKE q \in R
  <2>1. \E u \in U \ {v} : q < u /\ \A r \in R : q < r => u < r BY <1>7
  <2> QED BY <1>8, <2>1
<1>10. f \in [R -> U \ {v}] BY <1>8, <1>9
<1>11. ASSUME NEW q \in R, NEW r \in R, f[q] = f[r] PROVE q = r
  <2>1. q \in Nat /\ r \in Nat /\ f[q] \in Nat /\ f[r] \in Nat BY <1>1, <1>3, <1>5, <1>9
  <2>2. ~(q < r) BY <1>9, <1>11, <2>1
  <2>3. ~(r < q) BY <1>9, <1>11, <2>1
  <2> QED BY <2>1, <2>2, <2>3
<1>12. f \in Injection(R, U \ {v}) BY <1>10, <1>11 DEF Injection, IsInjective
<1> QED BY <1>1, <1>6, <1>12, FS_Injection

\* Compression keeps what is true of the messages.
LEMMA CompressKeeps ==
  ASSUME MessagesInv, Compress
  PROVE  MessagesInv'
<1>1. /\ DOMAIN history = 1..Len(history) /\ Len(history) \in Nat
      /\ DOMAIN said = 1..Len(said) /\ Len(said) \in Nat
      /\ \A i \in Held : i \in DOMAIN said /\ i \in Nat
      /\ \A n \in DOMAIN history : history[n] \in DOMAIN said
      /\ \A m, n \in DOMAIN history : m < n => history[m] < history[n]
  BY HistoryAscends DEF Held, ToSet
<1>2. PICK next : next = Len(said) + 1 OBVIOUS
<1>3. PICK v \in Held :
        /\ Human(v)
        /\ Cardinality({u \in Held : Human(u) /\ u >= v}) = KeepTurns
        /\ Cardinality({u \in Held : Human(u)}) > KeepTurns
        /\ \A i : i \in Held' <=> (i \in Held /\ i >= v) \/ i = next
        /\ \A i \in Held : i < v => Covered(i) \subseteq said'[next].of
        /\ said'[next].kind = "summary"
  BY <1>2, CompressKeepsFrom
<1>4. PICK c \in 0..Len(history) : c = Cutoff
  <2>1. Cutoff > 0 BY DEF Compress
  <2>2. PICK m \in DOMAIN history : Cutoff = m - 1 /\ m > 1 BY <2>1, CutoffIs
  <2>3. m - 1 \in 0..Len(history) BY <1>1, <2>2
  <2> QED BY <2>2, <2>3
<1>5. /\ said' \in Seq(Messages) /\ DOMAIN said' = 1..next
      /\ \A i \in DOMAIN said : said'[i] = said[i]
      /\ history' \in Seq(DOMAIN said') /\ DOMAIN history' = 1..(Len(history) - c + 1)
      /\ \A n \in 1..(Len(history) - c) : history'[n] = history[c + n]
      /\ history'[Len(history) - c + 1] = next
  BY <1>2, <1>4, CompressHolds
<1>6. /\ \A i \in DOMAIN said : i \in DOMAIN said' /\ i < next /\ i \in Nat
      /\ next \notin DOMAIN said /\ next \in Nat
      /\ \A i \in DOMAIN said' : i \in DOMAIN said \/ i = next
  BY <1>1, <1>2, <1>5
<1>7. HistoryTypes' BY <1>5 DEF HistoryTypes
<1>8. SaidWhole'
  <2>1. ASSUME NEW i \in DOMAIN said
        PROVE  /\ said'[i].kind = "call" => i + 1 \in DOMAIN said' /\ said'[i + 1].kind = "reply"
               /\ said'[i].kind = "reply" =>
                    /\ i - 1 \in DOMAIN said' /\ said'[i - 1].kind = "call"
                    /\ said'[i].of = {i - 1}
               /\ said'[i].kind = "attachment" =>
                    i + 1 \in DOMAIN said' /\ said'[i + 1].kind = "human"
    BY <1>5, <1>6 DEF MessagesInv, SaidWhole, Kind, Human
  <2> QED BY <1>3, <1>6, <2>1 DEF SaidWhole, Kind, Human
<1>9. RepliesHeld'
  <2>1. ASSUME NEW i \in Held, i >= v, said'[i].kind = "reply" PROVE i - 1 \in Held /\ i - 1 >= v
    <3>1. Kind(i) = "reply" BY <1>1, <1>5, <2>1 DEF Kind
    <3>2. i - 1 \in Held BY <3>1 DEF MessagesInv, RepliesHeld
    <3>3. i # v BY <1>3, <3>1 DEF Human
    <3> QED BY <1>1, <2>1, <3>2, <3>3
  <2> QED BY <1>3, <2>1 DEF RepliesHeld, Kind
<1>10. \A i \in Held : said'[i] = said[i] BY <1>1, <1>5
<1>11. {u \in Held' : said'[u].kind = "human"} = {u \in Held : Human(u) /\ u >= v}
  BY <1>3, <1>10 DEF Human, Kind
<1>12. SummariesApart'
  <2>1. ASSUME NEW i \in Held', NEW j \in Held', said'[i].kind = "summary",
               said'[j].kind = "summary", i < j
        PROVE  \E u \in Held' : said'[u].kind = "human" /\ i < u /\ u < j
    <3>1. i \in Held /\ i >= v /\ i \in Nat /\ v \in Nat
      <4>1. i # next
        <5>1. j \in Held \/ j = next BY <1>3
        <5>2. ~(next < j) BY <1>1, <1>6, <5>1
        <5> QED BY <2>1, <5>2
      <4> QED BY <1>1, <1>3, <4>1
    <3>2. Kind(i) = "summary" BY <1>10, <2>1, <3>1 DEF Kind
    <3>3. ASSUME NEW u \in Held, Human(u), i < u
          PROVE  u \in Held' /\ said'[u].kind = "human" /\ u < next
      <4>1. u \in Nat /\ u < next BY <1>1, <1>6
      <4>2. u >= v BY <3>1, <3>3, <4>1
      <4> QED BY <1>3, <1>10, <3>3, <4>1, <4>2 DEF Human, Kind
    <3>4. CASE j = next
      <4>1. PICK u \in Held : Human(u) /\ i < u
        BY <1>3, <3>1, <3>2 DEF MessagesInv, SummariesApart
      <4> QED BY <3>3, <3>4, <4>1
    <3>5. CASE j # next
      <4>1. j \in Held BY <1>3, <3>5
      <4>2. Kind(j) = "summary" BY <1>10, <2>1, <4>1 DEF Kind
      <4>3. PICK u \in Held : Human(u) /\ i < u /\ u < j
        BY <2>1, <3>1, <3>2, <4>1, <4>2 DEF MessagesInv, SummariesApart
      <4> QED BY <3>3, <4>3
    <3> QED BY <3>4, <3>5
  <2>2. ~(Cardinality({u \in Held' : said'[u].kind = "human"}) > KeepTurns)
    <3>1. Cardinality({u \in Held' : said'[u].kind = "human"}) = KeepTurns BY <1>3, <1>11
    <3>2. KeepTurns \in Nat BY HistoryAssumption
    <3> QED BY <3>1, <3>2
  <2> QED BY <2>1, <2>2 DEF SummariesApart, Human, Kind
<1>13. NothingForgotten'
  <2>1. ASSUME NEW m \in DOMAIN history', NEW n \in DOMAIN history', m < n
        PROVE  history'[m] < history'[n]
    <3>1. m \in 1..(Len(history) - c) BY <1>1, <1>4, <1>5, <2>1
    <3>2. c + m \in DOMAIN history /\ history'[m] = history[c + m] BY <1>1, <1>4, <1>5, <3>1
    <3>3. CASE n = Len(history) - c + 1 BY <1>1, <1>5, <1>6, <3>2, <3>3
    <3>4. CASE n # Len(history) - c + 1
      <4>1. n \in 1..(Len(history) - c)
        <5>. Len(history) - c \in Nat BY <1>1, <1>4
        <5>1. PICK left \in Nat : left = Len(history) - c OBVIOUS
        <5>2. n \in 1..(left + 1) /\ n # left + 1 BY <1>5, <3>4, <5>1
        <5>3. n \in 1..left BY <5>2
        <5> QED BY <5>1, <5>3
      <4>2. c + n \in DOMAIN history /\ history'[n] = history[c + n] BY <1>1, <1>4, <1>5, <4>1
      <4>3. c + m < c + n BY <1>1, <1>4, <2>1, <3>1, <4>1
      <4> QED BY <1>1, <3>2, <4>2, <4>3
    <3> QED BY <3>3, <3>4
  <2>2. ASSUME NEW i \in DOMAIN said', NEW j \in DOMAIN said', said'[i].kind # "summary",
               said'[j].kind # "summary", i < j, i \in Held'
        PROVE  j \in Held'
    <3>1. i \in DOMAIN said /\ j \in DOMAIN said /\ i \in Held /\ i >= v
      BY <1>3, <1>6, <2>2
    <3>2. Spoken(i) /\ Spoken(j) BY <1>5, <2>2, <3>1 DEF Spoken, Kind
    <3>3. j \in Held BY <2>2, <3>1, <3>2 DEF MessagesInv, NothingForgotten, Held
    <3>4. j >= v BY <1>1, <2>2, <3>1, <3>3
    <3> QED BY <1>3, <3>3, <3>4
  <2>3. ASSUME NEW i \in DOMAIN said', said'[i].kind # "summary"
        PROVE  \E j \in Held' : i \in IF said'[j].kind = "summary" THEN said'[j].of ELSE {j}
    <3>1. i \in DOMAIN said BY <1>3, <1>6, <2>3
    <3>2. Spoken(i) BY <1>5, <2>3, <3>1 DEF Spoken, Kind
    <3>3. PICK j \in Held : i \in Covered(j)
      BY <3>1, <3>2 DEF MessagesInv, NothingForgotten, Held
    <3>4. CASE j >= v
      <4>1. j \in Held' /\ said'[j] = said[j] BY <1>3, <1>10, <3>4
      <4> QED BY <3>3, <4>1 DEF Covered, Kind
    <3>5. CASE ~(j >= v)
      <4>1. j < v BY <1>1, <3>5
      <4>2. i \in said'[next].of BY <1>3, <3>3, <4>1
      <4> QED BY <1>3, <4>2
    <3> QED BY <3>4, <3>5
  <2>4. ASSUME NEW i \in DOMAIN said', said'[i].kind = "human",
               Cardinality({j \in DOMAIN said' : said'[j].kind = "human" /\ j >= i}) <= KeepTurns
        PROVE  i \in Held'
    <3>1. i \in DOMAIN said /\ Human(i) BY <1>3, <1>5, <1>6, <2>4 DEF Human, Kind
    <3>2. PICK A : A = {j \in DOMAIN said : Human(j) /\ j >= i} OBVIOUS
    <3>3. A = {j \in DOMAIN said' : said'[j].kind = "human" /\ j >= i}
      BY <1>3, <1>5, <1>6, <3>2 DEF Human, Kind
    <3>4. Cardinality(A) <= KeepTurns BY <2>4, <3>3
    <3>5. i \in Held BY <3>1, <3>2, <3>4 DEF MessagesInv, NothingForgotten, Held
    <3>6. ASSUME ~(i >= v) PROVE FALSE
      <4>1. PICK U : U = {u \in Held : Human(u) /\ u >= v} OBVIOUS
      <4>2. IsFiniteSet(A)
        <5>1. IsFiniteSet(1..Len(said)) BY <1>1, FS_Interval
        <5> QED BY <1>1, <3>2, <5>1, FS_Subset
      <4>3. i \notin U /\ U \cup {i} \in SUBSET A
        <5>1. i \in Nat /\ v \in Nat BY <1>1, <3>5
        <5>2. \A u \in U : u \in DOMAIN said /\ Human(u) /\ u >= i
          BY <1>1, <3>6, <4>1, <5>1
        <5>3. i \notin U BY <3>6, <4>1
        <5>4. U \subseteq A BY <3>2, <5>2
        <5>5. i >= i BY <5>1
        <5>6. i \in A BY <3>1, <3>2, <5>5
        <5> QED BY <5>3, <5>4, <5>6
      <4>4. IsFiniteSet(U) /\ Cardinality(U) = KeepTurns
        <5>1. U \in SUBSET A BY <4>3
        <5> QED BY <1>3, <4>1, <4>2, <5>1, FS_Subset
      <4>5. Cardinality(U \cup {i}) = KeepTurns + 1 BY <4>3, <4>4, FS_AddElement
      <4>6. Cardinality(U \cup {i}) <= Cardinality(A) BY <4>2, <4>3, FS_Subset
      <4>7. Cardinality(A) \in Nat /\ KeepTurns \in Nat
        BY <4>2, FS_CardinalityType, HistoryAssumption
      <4> QED BY <3>4, <4>5, <4>6, <4>7
    <3> QED BY <1>3, <3>5, <3>6
  <2> QED BY <2>1, <2>2, <2>3, <2>4 DEF NothingForgotten, Held, Spoken, Covered, Human, Kind
<1>14. SummariesBounded'
  <2>1. PICK R : R = {i \in Held : Kind(i) = "summary" /\ i >= v} OBVIOUS
  <2>2. IsFiniteSet(R) /\ Cardinality(R) <= KeepTurns - 1 BY <1>3, <2>1, FewSummariesStay
  <2>3. {i \in Held' : said'[i].kind = "summary"} = R \cup {next}
    BY <1>3, <1>10, <2>1 DEF Kind
  <2>4. Cardinality(R \cup {next}) <= Cardinality(R) + 1 /\ Cardinality(R) \in Nat
    <3>1. Cardinality(R) \in Nat BY <2>2, FS_CardinalityType
    <3>3. Cardinality(R \cup {next}) =
            IF next \in R THEN Cardinality(R) ELSE Cardinality(R) + 1
      BY <2>2, FS_AddElement
    <3>4. CASE next \in R
      <4>1. Cardinality(R \cup {next}) = Cardinality(R) BY <3>3, <3>4
      <4> QED BY <3>1, <4>1
    <3>5. CASE next \notin R
      <4>1. Cardinality(R \cup {next}) = Cardinality(R) + 1 BY <3>3, <3>5
      <4> QED BY <3>1, <4>1
    <3> QED BY <3>4, <3>5
  <2>5. KeepTurns \in Nat /\ Cardinality(R \cup {next}) \in Nat
    BY <2>2, FS_AddElement, FS_CardinalityType, HistoryAssumption
  <2>6. Cardinality(R \cup {next}) <= KeepTurns BY <2>2, <2>4, <2>5
  <2> QED BY <2>3, <2>6 DEF SummariesBounded, Held, Kind
<1> QED BY <1>7, <1>8, <1>9, <1>12, <1>13, <1>14 DEF MessagesInv

-----------------------------------------------------------------------------
(* Where a teaching task begins                                            *)

\* A new task begins with the last input of the user, its attachments included.
LEMMA TaskStartIs ==
  ASSUME MessagesInv, LastInputHeld
  PROVE  /\ TaskStart \in Nat /\ TaskStart + 1 \in DOMAIN history
         /\ history[TaskStart + 1] = asked
<1>1. /\ DOMAIN history = 1..Len(history) /\ Len(history) \in Nat
      /\ \A n \in DOMAIN history : history[n] \in DOMAIN said /\ history[n] \in Nat
      /\ \A m, n \in DOMAIN history : m < n <=> history[m] < history[n]
      /\ \A m, n \in DOMAIN history : history[m] = history[n] => m = n
      /\ \A n, k \in DOMAIN history : history[k] = history[n] + 1 => k = n + 1
  BY HistoryAscends
<1>2. /\ asked \in Held
      /\ Human(asked) \/ Kind(asked) = "attachment"
      /\ Human(asked) => asked - 1 \notin DOMAIN said \/ Kind(asked - 1) # "attachment"
      /\ \A i \in DOMAIN said : Human(i) /\ i > asked => i = asked + 1 /\ Kind(asked) = "attachment"
  BY DEF LastInputHeld
<1>3. PICK q \in DOMAIN history : history[q] = asked BY <1>2 DEF Held, ToSet
<1>4. /\ \A i \in DOMAIN said : Kind(i) = "attachment" => i + 1 \in DOMAIN said /\ Human(i + 1)
      /\ \A i, j \in DOMAIN said : Spoken(i) /\ Spoken(j) /\ i < j /\ i \in Held => j \in Held
  BY DEF MessagesInv, SaidWhole, NothingForgotten, Held
<1>5. ASSUME NEW n \in DOMAIN history, Kind(history[n]) = "attachment"
      PROVE  n + 1 \in DOMAIN history /\ history[n + 1] = history[n] + 1 /\ Human(history[n + 1])
  <2>1. history[n] \in DOMAIN said /\ history[n] \in Nat BY <1>1
  <2>2. history[n] + 1 \in DOMAIN said /\ Human(history[n] + 1) BY <1>4, <1>5, <2>1
  <2>3. Spoken(history[n]) /\ Spoken(history[n] + 1) BY <1>5, <2>2 DEF Spoken, Human
  <2>4. history[n] \in Held BY DEF Held, ToSet
  <2>5. history[n] + 1 \in Held BY <1>4, <2>1, <2>2, <2>3, <2>4
  <2>6. PICK k \in DOMAIN history : history[k] = history[n] + 1 BY <2>5 DEF Held, ToSet
  <2>7. k = n + 1 BY <1>1, <2>6
  <2> QED BY <2>2, <2>6, <2>7
<1>6. PICK p \in DOMAIN history :
        /\ Human(history[p])
        /\ history[p] = IF Human(asked) THEN asked ELSE asked + 1
        /\ Kind(asked) = "attachment" => p = q + 1
  <2>1. CASE Human(asked)
    <3>1. Kind(asked) # "attachment" BY <2>1 DEF Human
    <3> QED BY <1>3, <2>1, <3>1
  <2>2. CASE ~Human(asked)
    <3>1. Kind(asked) = "attachment" BY <1>2, <2>2
    <3>2. q + 1 \in DOMAIN history /\ history[q + 1] = asked + 1 /\ Human(history[q + 1])
      BY <1>3, <1>5, <3>1
    <3> QED BY <2>2, <3>2
  <2> QED BY <2>1, <2>2
<1>7. PICK S : S = {n \in 0..Len(history) - 1 : Human(history[n + 1])} OBVIOUS
<1>8. p - 1 \in S /\ p \in Nat
  <2>1. p - 1 \in 0..Len(history) - 1 /\ (p - 1) + 1 = p /\ p \in Nat BY <1>1
  <2> QED BY <1>6, <1>7, <2>1
<1>9. ASSUME NEW n \in S PROVE n <= p - 1 /\ n \in Nat
  <2>1. n \in Nat /\ n + 1 \in DOMAIN history /\ Human(history[n + 1]) BY <1>1, <1>7
  <2>2. history[n + 1] \in DOMAIN said /\ history[n + 1] \in Nat /\ asked \in Nat BY <1>1, <1>3, <2>1
  <2>3. ~(history[n + 1] > history[p])
    <3>1. CASE Human(asked)
      <4>1. history[p] = asked /\ Kind(asked) # "attachment" BY <1>6, <3>1 DEF Human
      <4> QED BY <1>2, <2>1, <2>2, <4>1
    <3>2. CASE ~Human(asked)
      <4>1. history[p] = asked + 1 BY <1>6, <3>2
      <4>2. history[n + 1] > asked => history[n + 1] = asked + 1 BY <1>2, <2>1, <2>2
      <4> QED BY <2>2, <4>1, <4>2
    <3> QED BY <3>1, <3>2
  <2>4. history[p] \in Nat BY <1>1
  <2>5. ~(history[p] < history[n + 1]) BY <2>2, <2>3, <2>4
  <2>6. ~(p < n + 1) BY <1>1, <2>1, <2>5
  <2> QED BY <1>8, <2>1, <2>6
<1>10. Max(S) = p - 1
  <2>1. p - 1 \in Nat /\ S \subseteq Nat BY <1>8, <1>9
  <2>2. Max(S) \in S /\ \A x \in S : x <= Max(S) BY <1>8, <1>9, <2>1, GreatestMember
  <2>3. p - 1 <= Max(S) /\ Max(S) <= p - 1 /\ Max(S) \in Nat BY <1>8, <1>9, <2>2
  <2> QED BY <2>1, <2>3
<1>11. TaskStart = IF p - 1 > 0 /\ Kind(history[p - 1]) = "attachment" THEN p - 2 ELSE p - 1
  <2>1. (p - 1) - 1 = p - 2 BY <1>8
  <2> QED BY <1>7, <1>10, <2>1 DEF TaskStart
<1>12. CASE Kind(asked) = "attachment"
  <2>1. p = q + 1 /\ q \in Nat /\ q > 0 BY <1>1, <1>6, <1>12
  <2>2. p - 1 = q /\ p - 2 = q - 1 /\ (q - 1) + 1 = q /\ q - 1 \in Nat BY <2>1
  <2>3. TaskStart = q - 1 BY <1>3, <1>11, <1>12, <2>1, <2>2
  <2> QED BY <1>3, <2>2, <2>3
<1>13. CASE Human(asked)
  <2>1. history[p] = asked BY <1>6, <1>13
  <2>2. ASSUME p - 1 > 0, Kind(history[p - 1]) = "attachment" PROVE FALSE
    <3>1. p - 1 \in DOMAIN history /\ (p - 1) + 1 = p BY <1>1, <1>8, <2>2
    <3>2. history[p] = history[p - 1] + 1 BY <1>5, <2>2, <3>1
    <3>3. history[p - 1] \in DOMAIN said /\ history[p - 1] \in Nat BY <1>1, <3>1
    <3>4. asked - 1 = history[p - 1] BY <2>1, <3>2, <3>3
    <3> QED BY <1>2, <1>13, <2>2, <3>3, <3>4
  <2>3. TaskStart = p - 1 BY <1>11, <2>2
  <2>4. p - 1 \in Nat /\ (p - 1) + 1 = p BY <1>8, <1>9
  <2> QED BY <2>1, <2>3, <2>4
<1> QED BY <1>2, <1>12, <1>13

\* The history begins a task at a boundary when it begins with an input.
LEMMA InputIsBoundary ==
  ASSUME MessagesInv, NEW c \in Nat, c + 1 \in DOMAIN history,
         Human(history[c + 1]) \/ Kind(history[c + 1]) = "attachment"
  PROVE  c \in Boundaries(history)
<1>1. Paired(history) /\ SaidWhole BY HistoryIsPaired DEF MessagesInv
<1>2. /\ DOMAIN history = 1..Len(history) /\ Len(history) \in Nat
      /\ \A n \in DOMAIN history : history[n] \in DOMAIN said
  BY HistoryAscends
<1>3. c \in 0..Len(history) BY <1>2
<1>4. ASSUME c \in DOMAIN history, Kind(history[c]) = "call" PROVE FALSE
  <2>1. history[c + 1] = history[c] + 1 BY <1>1, <1>4 DEF Paired
  <2>2. Kind(history[c + 1]) = "reply" BY <1>1, <1>2, <1>4, <2>1 DEF SaidWhole
  <2> QED BY <2>2 DEF Human
<1> QED BY <1>1, <1>3, <1>4, PairedIsWhole

\* The views of the nodes, from the invariant.
LEMMA KeptByInv ==
  ASSUME HistoryInv
  PROVE  HistoryKept
<1>1. MessagesInv /\ SaidWhole /\ Paired(history) BY HistoryIsPaired DEF HistoryInv, MessagesInv
<1>2. ViewLimit \in Nat BY HistoryAssumption
<1>5. ~Nameless => AllNamed(history) BY DEF Nameless, AllNamed, ToSet
<1>3. ViewsAreValid
  <2>1. ~Nameless => Whole(history) BY <1>1, <1>5, PairedIsWhole
  <2>2. ~Nameless => Whole(RecentHistory(history, ViewLimit)) BY <1>1, <1>2, <1>5, RecentIsWhole
  <2> QED BY <2>1, <2>2 DEF ViewsAreValid, EntryView
<1>4. TaskWindowKept
  <2>1. SUFFICES ASSUME at \in {"intake", "input", "metadata"}
                 PROVE  (IntakeView \/ Nameless) /\ Head(Task) = opened
    BY DEF TaskWindowKept
  <2>2. /\ start \in Nat /\ start + 1 \in DOMAIN history /\ history[start + 1] = opened
        /\ Human(opened) \/ Kind(opened) = "attachment"
    BY <2>1 DEF HistoryInv, WindowHeld, WindowBegins
  <2>3. start \in Boundaries(history) BY <1>1, <2>2, InputIsBoundary
  <2>4. Paired(Task) BY <1>1, <2>3, RestIsPaired DEF Task
  <2>8. ~Nameless => AllNamed(Task)
    <3>1. history \in Seq(DOMAIN said) /\ Len(history) \in Nat /\ DOMAIN history = 1..Len(history)
      BY <1>1, HistoryAscends
    <3>2. PICK t : t = SubSeq(history, start + 1, Len(history)) OBVIOUS
    <3>3. \A n \in DOMAIN t : start + n \in DOMAIN history /\ t[n] = history[start + n]
      BY <2>2, <3>1, <3>2
    <3> QED BY <1>5, <3>2, <3>3 DEF Task, AllNamed
  <2>5. ~Nameless => Whole(Task) BY <1>1, <2>4, <2>8, PairedIsWhole
  <2>6. ~Nameless => Whole(RecentHistory(Task, ViewLimit))
    BY <1>1, <1>2, <2>4, <2>8, RecentIsWhole
  <2>7. Head(Task) = opened
    <3>1. history \in Seq(DOMAIN said) /\ Len(history) \in Nat /\ DOMAIN history = 1..Len(history)
      BY <1>1, HistoryAscends
    <3>2. PICK t : t = SubSeq(history, start + 1, Len(history)) OBVIOUS
    <3>3. t \in Seq(DOMAIN said) /\ Len(t) = Len(history) - start /\ t[1] = history[start + 1]
      BY <2>2, <3>1, <3>2
    <3>4. Head(t) = t[1] BY <2>2, <3>1, <3>3
    <3> QED BY <2>2, <3>2, <3>3, <3>4 DEF Task
  <2> QED BY <2>5, <2>6, <2>7 DEF IntakeView
<1> QED BY <1>3, <1>4 DEF HistoryKept, HistoryInv, MessagesInv

-----------------------------------------------------------------------------
(* What a step does to the inputs and to the window of the task            *)

\* What is true of the messages, and of the last input, stays when nothing is said.
LEMMA NothingSaid ==
  ASSUME MessagesInv, UNCHANGED <<said, history>>
  PROVE  /\ MessagesInv'
         /\ LastInputHeld /\ asked' = asked => LastInputHeld'
         /\ WindowBegins /\ start' = start /\ opened' = opened => WindowBegins'
<1>1. MessagesInv'
  BY DEF MessagesInv, HistoryTypes, SaidWhole, RepliesHeld, SummariesApart, NothingForgotten,
         SummariesBounded, Held, Human, Spoken, Covered, Kind
<1>2. LastInputHeld /\ asked' = asked => LastInputHeld'
  BY DEF LastInputHeld, Held, Human, Kind
<1>3. WindowBegins /\ start' = start /\ opened' = opened => WindowBegins'
  BY DEF WindowBegins, Human, Kind
<1> QED BY <1>1, <1>2, <1>3

\* What a node says leaves the last input of the user where it is.
LEMMA NodeSays ==
  ASSUME MessagesInv, NEW messages, ByNode(messages), Say(messages)
  PROVE  MessagesInv' /\ (LastInputHeld /\ asked' = asked => LastInputHeld')
<1>1. Proper(messages) /\ \A k \in DOMAIN messages : messages[k].kind # "human" BY DEF ByNode
<1>2. MessagesInv' BY <1>1, SayKeeps
<1>3. /\ DOMAIN said = 1..Len(said) /\ Len(said) \in Nat /\ \A i \in Held : i \in DOMAIN said
  BY HistoryAscends DEF Held, ToSet
<1>4. /\ \A i \in DOMAIN said : i \in DOMAIN said' /\ said'[i] = said[i]
      /\ \A k \in DOMAIN messages : said'[Len(said) + k] = messages[k]
      /\ \A i \in DOMAIN said' :
           i \in DOMAIN said \/ \E k \in DOMAIN messages : i = Len(said) + k
      /\ Held \subseteq Held'
      /\ DOMAIN said' = 1..(Len(said) + Len(messages))
  BY <1>1, SayHolds
<1>5. ASSUME LastInputHeld, asked' = asked PROVE LastInputHeld'
  <2>1. asked \in DOMAIN said /\ asked \in Held /\ asked \in Nat BY <1>3, <1>5 DEF LastInputHeld
  <2>2. said'[asked] = said[asked] /\ asked \in Held' BY <1>4, <2>1
  <2>3. said'[asked].kind = "human" \/ said'[asked].kind = "attachment"
    BY <1>5, <2>2 DEF LastInputHeld, Human, Kind
  <2>4. ASSUME said'[asked].kind = "human"
        PROVE  asked - 1 \notin DOMAIN said' \/ said'[asked - 1].kind # "attachment"
    <3>1. asked - 1 \in DOMAIN said' => asked - 1 \in DOMAIN said BY <1>3, <1>4, <2>1
    <3>2. asked - 1 \in DOMAIN said => said'[asked - 1] = said[asked - 1] BY <1>4
    <3>3. Human(asked) BY <2>2, <2>4 DEF Human, Kind
    <3> QED BY <1>5, <3>1, <3>2, <3>3 DEF LastInputHeld, Kind
  <2>5. ASSUME NEW i \in DOMAIN said', said'[i].kind = "human", i > asked
        PROVE  i = asked + 1 /\ said'[asked].kind = "attachment"
    <3>1. i \in DOMAIN said BY <1>1, <1>4, <2>5
    <3>2. said'[i] = said[i] BY <1>4, <3>1
    <3> QED BY <1>5, <2>2, <2>5, <3>1, <3>2 DEF LastInputHeld, Human, Kind
  <2> QED BY <1>5, <2>2, <2>3, <2>4, <2>5 DEF LastInputHeld, Human, Kind
<1> QED BY <1>2, <1>5

\* What the user says becomes the last input.
LEMMA UserSays ==
  ASSUME MessagesInv, NEW messages, ByUser(messages), Say(messages), asked' = Len(said) + 1
  PROVE  MessagesInv' /\ LastInputHeld'
<1>1. /\ Proper(messages) /\ 1 \in DOMAIN messages
      /\ messages[1].kind \in {"human", "attachment"}
      /\ \A k \in DOMAIN messages :
           messages[k].kind = "human" /\ k # 1 => k = 2 /\ messages[1].kind = "attachment"
  BY DEF ByUser
<1>2. MessagesInv' BY <1>1, SayKeeps
<1>3. /\ DOMAIN said = 1..Len(said) /\ Len(said) \in Nat
      /\ \A i \in DOMAIN said : Kind(i) = "attachment" => i + 1 \in DOMAIN said
  BY HistoryAscends DEF MessagesInv, SaidWhole
<1>4. /\ \A i \in DOMAIN said : i \in DOMAIN said' /\ said'[i] = said[i]
      /\ \A k \in DOMAIN messages : said'[Len(said) + k] = messages[k]
      /\ \A i \in DOMAIN said' :
           i \in DOMAIN said \/ \E k \in DOMAIN messages : i = Len(said) + k
      /\ Held' = Held \cup {Len(said) + k : k \in DOMAIN messages}
      /\ DOMAIN said' = 1..(Len(said) + Len(messages))
  BY <1>1, SayHolds
<1>5. PICK a \in Nat : a = Len(said) + 1 BY <1>3
<1>6. asked' = a /\ a \in Held' /\ said'[a] = messages[1] BY <1>1, <1>4, <1>5
<1>7. said'[a].kind = "human" \/ said'[a].kind = "attachment" BY <1>1, <1>6
<1>8. a - 1 \notin DOMAIN said' \/ said'[a - 1].kind # "attachment"
  <2>1. SUFFICES ASSUME a - 1 \in DOMAIN said', said'[a - 1].kind = "attachment" PROVE FALSE
    OBVIOUS
  <2>2. a - 1 = Len(said) /\ a - 1 \in DOMAIN said /\ a \notin DOMAIN said
    BY <1>3, <1>4, <1>5, <2>1
  <2>3. Kind(a - 1) = "attachment" BY <1>4, <2>1, <2>2 DEF Kind
  <2>4. (a - 1) + 1 = a BY <1>5
  <2> QED BY <1>3, <2>2, <2>3, <2>4
<1>9. ASSUME NEW i \in DOMAIN said', said'[i].kind = "human", i > a
      PROVE  i = a + 1 /\ said'[a].kind = "attachment"
  <2>1. i \notin DOMAIN said BY <1>3, <1>5, <1>9
  <2>2. PICK k \in DOMAIN messages : i = Len(said) + k BY <1>4, <2>1
  <2>3. messages[k].kind = "human" BY <1>4, <1>9, <2>2
  <2>4. k # 1 BY <1>5, <1>9, <2>2
  <2>5. k = 2 /\ messages[1].kind = "attachment" BY <1>1, <2>3, <2>4
  <2> QED BY <1>3, <1>5, <1>6, <2>2, <2>5
<1>10. LastInputHeld' BY <1>6, <1>7, <1>8, <1>9 DEF LastInputHeld, Human, Kind
<1> QED BY <1>2, <1>10

\* What is said does not move the window of the task.
LEMMA WindowStays ==
  ASSUME MessagesInv, NEW messages, Proper(messages), Say(messages), WindowBegins, KeepTask
  PROVE  WindowBegins'
<1>1. /\ DOMAIN history = 1..Len(history) /\ Len(history) \in Nat
      /\ \A n \in DOMAIN history : history[n] \in DOMAIN said
  BY HistoryAscends
<1>2. \A i \in DOMAIN said : said'[i] = said[i] BY SayHolds
<1>3. \A n \in DOMAIN history : n \in DOMAIN history' /\ history'[n] = history[n]
  <2>1. /\ DOMAIN history' = 1..(Len(history) + Len(messages)) /\ Len(messages) \in Nat
        /\ \A n \in DOMAIN history : history'[n] = history[n]
    BY SayAdds, SayHolds
  <2> QED BY <1>1, <2>1
<1>4. start + 1 \in DOMAIN history /\ history[start + 1] = opened BY DEF WindowBegins
<1>5. start' + 1 \in DOMAIN history' /\ history'[start' + 1] = opened'
  BY <1>3, <1>4 DEF KeepTask
<1>6. said'[opened'] = said[opened] BY <1>1, <1>2, <1>4 DEF KeepTask
<1> QED BY <1>5, <1>6 DEF WindowBegins, Human, Kind

\* A new task opens its window at the last input.
LEMMA TaskBegins ==
  ASSUME MessagesInv, LastInputHeld, NEW messages, Proper(messages), Say(messages), NewTask
  PROVE  start' \in Nat /\ WindowBegins'
<1>1. /\ DOMAIN history = 1..Len(history) /\ Len(history) \in Nat
      /\ \A n \in DOMAIN history : history[n] \in DOMAIN said
  BY HistoryAscends
<1>2. \A i \in DOMAIN said : said'[i] = said[i] BY SayHolds
<1>3. \A n \in DOMAIN history : n \in DOMAIN history' /\ history'[n] = history[n]
  <2>1. /\ DOMAIN history' = 1..(Len(history) + Len(messages)) /\ Len(messages) \in Nat
        /\ \A n \in DOMAIN history : history'[n] = history[n]
    BY SayAdds, SayHolds
  <2> QED BY <1>1, <2>1
<1>4. /\ start' \in Nat /\ start' + 1 \in DOMAIN history /\ history[start' + 1] = asked
      /\ opened' = asked
  BY TaskStartIs DEF NewTask
<1>5. start' + 1 \in DOMAIN history' /\ history'[start' + 1] = opened' BY <1>3, <1>4
<1>6. said'[opened'] = said[asked] BY <1>1, <1>2, <1>4
<1> QED BY <1>4, <1>5, <1>6 DEF WindowBegins, LastInputHeld, Human, Kind

\* No accepted or refused answer leaves text behind that is in no message.
LEMMA NothingLeftOnScreen == \A a \in Answers : a.seen = FALSE
<1>1. \A reply : Again(reply) => reply # "bad text" BY DEF Again
<1>2. SUFFICES ASSUME NEW replies \in [1..2 -> Replies] PROVE Answer(replies).seen = FALSE
  BY DEF Answers
<1>3. CASE ~Again(Attempt(replies, 0).reply) BY <1>3 DEF Answer
<1>4. CASE Again(Attempt(replies, 0).reply)
  <2>1. Attempt(replies, 0).reply # "bad text" BY <1>1, <1>4
  <2>2. (Attempt(replies, 0).reply = "bad text") = FALSE BY <2>1
  <2> QED BY <1>4, <2>2 DEF Answer
<1> QED BY <1>3, <1>4

-----------------------------------------------------------------------------
(* The invariant                                                           *)

\* nodes that collect the metadata of a teaching task
Collecting == {"intake", "input", "metadata"}

\* The user's message keeps the invariant.
LEMMA ListenKeeps ==
  ASSUME HistoryInv, NEW node, Listen(node), node \in Collecting => at \in Collecting
  PROVE  HistoryInv'
<1>1. Len(said) \in Nat BY HistoryAscends DEF HistoryInv
<1>2. PICK attached \in BOOLEAN : Say(Input(attached)) BY DEF Listen
<1>3. PICK messages : messages = Input(attached) OBVIOUS
<1>4. ByUser(messages) /\ Say(messages) BY <1>1, <1>2, <1>3, WhatIsSaid
<1>5. Proper(messages) BY <1>4 DEF ByUser
<1>6. MessagesInv' /\ LastInputHeld' BY <1>4, UserSays DEF HistoryInv, Listen
<1>7. at' = node /\ KeepTask BY DEF Listen, KeepTask
<1>8. WindowHeld'
  <2>1. SUFFICES ASSUME at' \in Collecting PROVE WindowBegins' BY DEF WindowHeld, Collecting
  <2>2. WindowBegins BY <1>7, <2>1 DEF HistoryInv, WindowHeld, Collecting
  <2> QED BY <1>4, <1>5, <1>7, <2>2, WindowStays DEF HistoryInv
<1>9. start' \in Nat /\ SeenIsSaid' BY DEF HistoryInv, Listen, SeenIsSaid
<1> QED BY <1>6, <1>8, <1>9 DEF HistoryInv, InputHeld

\* A message of a node keeps the invariant while the task stays.
LEMMA SayingKeeps ==
  ASSUME HistoryInv, at # "idle", NEW messages, ByNode(messages), Say(messages),
         NEW node, Goto(node), KeepTask, node \in Collecting => at \in Collecting,
         stray' => refused'
  PROVE  HistoryInv'
<1>1. LastInputHeld /\ asked' = asked BY DEF HistoryInv, InputHeld, Goto
<1>2. Proper(messages) BY DEF ByNode
<1>3. MessagesInv' /\ LastInputHeld' BY <1>1, NodeSays DEF HistoryInv
<1>4. WindowHeld'
  <2>1. SUFFICES ASSUME at' \in Collecting PROVE WindowBegins' BY DEF WindowHeld, Collecting
  <2>2. WindowBegins BY <2>1 DEF HistoryInv, WindowHeld, Collecting, Goto
  <2> QED BY <1>2, <2>2, WindowStays DEF HistoryInv
<1>5. start' \in Nat /\ SeenIsSaid' BY DEF HistoryInv, KeepTask, SeenIsSaid
<1> QED BY <1>3, <1>4, <1>5 DEF HistoryInv, InputHeld

\* So does the message that begins a task.
LEMMA BeginningKeeps ==
  ASSUME HistoryInv, at # "idle", NEW messages, ByNode(messages), Say(messages), NewTask,
         asked' = asked, stray' => refused'
  PROVE  HistoryInv'
<1>1. LastInputHeld BY DEF HistoryInv, InputHeld
<1>2. Proper(messages) BY DEF ByNode
<1>3. MessagesInv' /\ LastInputHeld' BY <1>1, NodeSays DEF HistoryInv
<1>4. start' \in Nat /\ WindowBegins' BY <1>1, <1>2, TaskBegins DEF HistoryInv
<1> QED BY <1>3, <1>4 DEF HistoryInv, InputHeld, WindowHeld, SeenIsSaid

\* So does a step that says nothing and leads to no other node that needs more.
LEMMA SilenceKeeps ==
  ASSUME HistoryInv, UNCHANGED <<said, history, start, opened, asked>>,
         at' = "idle" \/ at # "idle", at' \in Collecting => at \in Collecting,
         stray' => refused'
  PROVE  HistoryInv'
<1>1. /\ MessagesInv'
      /\ LastInputHeld => LastInputHeld'
      /\ WindowBegins => WindowBegins'
  BY NothingSaid DEF HistoryInv
<1>2. InputHeld' BY <1>1 DEF HistoryInv, InputHeld
<1>3. WindowHeld' BY <1>1 DEF HistoryInv, WindowHeld, Collecting
<1> QED BY <1>1, <1>2, <1>3 DEF HistoryInv, SeenIsSaid

\* An empty thread has it.
LEMMA InitHistory == HistoryInit => HistoryInv
<1> SUFFICES ASSUME HistoryInit PROVE HistoryInv OBVIOUS
<1>1. said = <<>> /\ history = <<>> /\ DOMAIN said = {} /\ DOMAIN history = {} BY DEF HistoryInit
<1>2. Held = {} BY <1>1 DEF Held, ToSet
<1>3. KeepTurns \in Nat BY HistoryAssumption
<1>4. HistoryTypes /\ SaidWhole BY <1>1 DEF HistoryTypes, SaidWhole
<1>5. RepliesHeld /\ SummariesApart BY <1>2 DEF RepliesHeld, SummariesApart
<1>6. NothingForgotten BY <1>1 DEF NothingForgotten
<1>7. SummariesBounded
  <2>1. {i \in ToSet(history) : Kind(i) = "summary"} = {} BY <1>2 DEF Held
  <2> QED BY <1>3, <2>1, FS_EmptySet DEF SummariesBounded
<1>8. at = "idle" /\ start = 0 /\ stray = FALSE BY DEF HistoryInit
<1> QED BY <1>4, <1>5, <1>6, <1>7, <1>8
        DEF HistoryInv, MessagesInv, InputHeld, WindowHeld, SeenIsSaid

\* The end of a run keeps it, with compression and without.
LEMMA EndKeeps == ASSUME HistoryInv, End PROVE HistoryInv'
<1>1. /\ UNCHANGED <<start, opened, asked, stray, refused>>
      /\ at' = IF at = "end" THEN "idle" ELSE at
      /\ at \in Interrupts \cup {"end"}
  BY DEF End
<1>2. stray' => refused' BY <1>1 DEF HistoryInv, SeenIsSaid
<1>3. CASE UNCHANGED <<said, history>>
  <2>1. at # "idle" /\ (at' \in Collecting => at \in Collecting)
    BY <1>1 DEF Interrupts, Collecting
  <2> QED BY <1>1, <1>2, <1>3, <2>1, SilenceKeeps
<1>4. CASE ~Resumable /\ Compress
  <2>1. at' = "idle" BY <1>1, <1>4 DEF Resumable
  <2>2. MessagesInv' BY <1>4, CompressKeeps DEF HistoryInv
  <2> QED BY <1>1, <1>2, <2>1, <2>2 DEF HistoryInv, InputHeld, WindowHeld, SeenIsSaid
<1> QED BY <1>3, <1>4 DEF End

\* Every step keeps it.
LEMMA NextHistory == ASSUME HistoryInv, [HistoryNext]_historyVars PROVE HistoryInv'
<1> USE DEF Collecting
<1>1. stray => refused BY DEF HistoryInv, SeenIsSaid
<1>2. /\ ByNode(<<Plain("text")>>)
      /\ \A named \in BOOLEAN :
           ByNode(Exchange(named)) /\ ByNode(Exchange(named) \o <<Plain("text")>>)
  BY HistoryAscends, WhatIsSaid DEF HistoryInv
<1>3. ASSUME NEW node, Working(node), node \in {"entry", "intake", "planner", "router", "jobs", "nothing"}
      PROVE  at = node /\ at # "idle"
  BY <1>3 DEF Working
<1>4. ASSUME NEW a \in Answers, Hears(a), refused' = refused PROVE stray' => refused'
  BY <1>1, <1>4, NothingLeftOnScreen DEF Hears
<1>5. CASE Ask BY <1>5, ListenKeeps DEF Ask
<1>6. CASE AnswerInput BY <1>6, ListenKeeps DEF AnswerInput
<1>7. ASSUME NEW node, Consent(node), at # "idle", node \notin Collecting PROVE HistoryInv'
  BY <1>7, SilenceKeeps DEF Consent
<1>8. CASE AnswerMetadata BY <1>7, <1>8, ListenKeeps DEF AnswerMetadata
<1>9. CASE AnswerDesign BY <1>7, <1>9, ListenKeeps DEF AnswerDesign
<1>10. CASE AnswerClarify BY <1>7, <1>10, ListenKeeps DEF AnswerClarify
<1>11. CASE EntryText
  <2>1. at = "entry" BY <1>3, <1>11 DEF EntryText
  <2>2. stray' => refused' BY <1>4, <1>11 DEF EntryText
  <2> QED BY <1>2, <1>11, <2>1, <2>2, SayingKeeps DEF EntryText
<1>12. CASE EntryAction
  <2>1. at = "entry" BY <1>3, <1>12 DEF EntryAction
  <2>2. stray' => refused' BY <1>4, <1>12 DEF EntryAction
  <2>6. PICK named \in BOOLEAN : Say(Exchange(named)) BY <1>12 DEF EntryAction
  <2>3. CASE Goto("intake") /\ NewTask
    BY <2>6, <1>2, <1>12, <2>1, <2>2, <2>3, BeginningKeeps DEF EntryAction, Goto
  <2>4. CASE Goto("router") /\ KeepTask
    BY <2>6, <1>2, <1>12, <2>1, <2>2, <2>4, SayingKeeps DEF EntryAction
  <2> QED BY <1>12, <2>3, <2>4 DEF EntryAction
<1>13. CASE EntrySearch
  <2>1. at = "entry" /\ Goto("end") /\ KeepTask BY <1>3, <1>13 DEF EntrySearch
  <2>2. PICK a \in Answers, b \in Answers :
          \/ /\ Say(Exchange(TRUE) \o <<Plain("text")>>)
             /\ stray' = (stray \/ a.seen \/ b.seen)
             /\ UNCHANGED refused
          \/ Say(<<Plain("text")>>) /\ refused' = TRUE
    BY <1>13 DEF EntrySearch
  <2>3. a.seen = FALSE /\ b.seen = FALSE BY NothingLeftOnScreen
  <2>4. CASE /\ Say(Exchange(TRUE) \o <<Plain("text")>>)
             /\ stray' = (stray \/ a.seen \/ b.seen)
             /\ UNCHANGED refused
    <3>1. stray' => refused' BY <1>1, <2>3, <2>4
    <3> QED BY <1>2, <2>1, <2>4, <3>1, SayingKeeps
  <2>5. CASE Say(<<Plain("text")>>) /\ refused' = TRUE BY <1>2, <2>1, <2>5, SayingKeeps
  <2> QED BY <2>2, <2>4, <2>5
<1>14. CASE EntrySafe
  <2>1. at = "entry" BY <1>3, <1>14 DEF EntrySafe
  <2>2. stray' => refused' BY <1>4, <1>14 DEF EntrySafe
  <2> QED BY <1>2, <1>14, <2>1, <2>2, SayingKeeps DEF EntrySafe
<1>15. CASE IntakeCancelled
  <2>1. at = "intake" BY <1>3, <1>15 DEF IntakeCancelled
  <2> QED BY <1>1, <1>2, <1>15, <2>1, SayingKeeps DEF IntakeCancelled
<1>16. CASE IntakeAsks
  <2>1. at = "intake" BY <1>3, <1>16 DEF IntakeAsks
  <2>2. stray' => refused' BY <1>4, <1>16 DEF IntakeAsks
  <2> QED BY <1>2, <1>16, <2>1, <2>2, SayingKeeps DEF IntakeAsks
<1>17. CASE IntakeActs
  <2>1. at = "intake" BY <1>3, <1>17 DEF IntakeActs
  <2>2. stray' => refused' BY <1>4, <1>17 DEF IntakeActs
  <2>6. PICK named \in BOOLEAN :
          \/ Say(Exchange(named)) /\ Goto("metadata") /\ KeepTask
          \/ Say(Exchange(named) \o <<Plain("text")>>) /\ Goto("end") /\ KeepTask
          \/ Say(Exchange(named)) /\ NewTask /\ UNCHANGED <<at, running, asked>>
    BY <1>17 DEF IntakeActs
  <2>3. CASE Say(Exchange(named)) /\ Goto("metadata") /\ KeepTask
    BY <1>2, <2>1, <2>2, <2>3, SayingKeeps
  <2>4. CASE Say(Exchange(named) \o <<Plain("text")>>) /\ Goto("end") /\ KeepTask
    BY <1>2, <2>1, <2>2, <2>4, SayingKeeps
  <2>5. CASE Say(Exchange(named)) /\ NewTask /\ asked' = asked
    BY <1>2, <2>1, <2>2, <2>5, BeginningKeeps
  <2> QED BY <2>3, <2>4, <2>5, <2>6
<1>18. CASE Plan
  <2>1. at = "planner" BY <1>3, <1>18 DEF Plan
  <2> QED BY <1>1, <1>2, <1>18, <2>1, SayingKeeps DEF Plan
<1>19. CASE RouterAsks
  <2>1. at = "router" BY <1>3, <1>19 DEF RouterAsks
  <2> QED BY <1>1, <1>19, <2>1, SilenceKeeps DEF RouterAsks, Goto
<1>20. CASE RouterRoutes
  <2>1. at = "router" BY <1>3, <1>20 DEF RouterRoutes
  <2> QED BY <1>1, <1>20, <2>1, SilenceKeeps DEF RouterRoutes, Goto
<1>21. CASE Report
  <2>1. at \in {"nothing", "router", "jobs"} BY <1>3, <1>21 DEF Report
  <2> QED BY <1>1, <1>2, <1>21, <2>1, SayingKeeps DEF Report
<1>22. CASE End BY <1>22, EndKeeps
<1>23. CASE Fail BY <1>1, <1>23, SilenceKeeps DEF Fail
<1>24. CASE UNCHANGED historyVars
  BY <1>1, <1>24, SilenceKeeps DEF historyVars
<1> QED BY <1>5, <1>6, <1>8, <1>9, <1>10, <1>11, <1>12, <1>13, <1>14, <1>15, <1>16, <1>17,
           <1>18, <1>19, <1>20, <1>21, <1>22, <1>23, <1>24 DEF HistoryNext

\* A thread becomes one whose turns all fail only when a provider left out a call's identifier:
\* otherwise every view keeps calls with their replies; compression forgets nothing that was
\* said, keeps the last turns word for word and no more summaries than turns, behind them and
\* not in front, and the window of a teaching task begins with its own input.
THEOREM ThreadIsKept == HistoryInit /\ [][HistoryNext]_historyVars => []HistoryKept
<1>1. HistoryInit => HistoryInv BY InitHistory
<1>2. HistoryInv /\ [HistoryNext]_historyVars => HistoryInv' BY NextHistory
<1>3. HistoryInv => HistoryKept BY KeptByInv
<1> QED BY <1>1, <1>2, <1>3, PTL

=============================================================================
