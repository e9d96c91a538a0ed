------------------------ MODULE RunFollowers_proofs ------------------------
(***************************************************************************)
(* Proofs about a browser that follows a run, for any number of fragments, *)
(* events, faults, cancellations, crashes, slips and lost connections.     *)
(* The properties of the writer carry over because a follower only reads.  *)
(***************************************************************************)
EXTENDS RunFollowers, RunEvents_proofs, FiniteSetTheorems

-----------------------------------------------------------------------------
(* The concatenation of the texts of a stream                              *)

Texts == Seq(Nat)

\* f holds the concatenations of the first 0, 1, ... of these texts
Concatenates(ss, f) ==
  /\ f \in [0..Len(ss) -> Texts]
  /\ f[0] = <<>>
  /\ \A i \in 1..Len(ss) : f[i] = f[i - 1] \o ss[i]

\* What FlattenSeq computes is the last of these concatenations.
LEMMA FlattenUnique ==
  ASSUME NEW ss \in Seq(Texts), NEW f, Concatenates(ss, f)
  PROVE  FlattenSeq(ss) = f[Len(ss)]
<1> DEFINE n == Len(ss)
<1>1. /\ n \in Nat /\ DOMAIN ss = 1..n /\ f \in [0..n -> Texts] /\ f[0] = <<>>
      /\ \A i \in 1..n : f[i] = f[i - 1] \o ss[i]
      /\ \A i \in 1..n : ss[i] \in Texts
  BY DEF Concatenates
<1>2. CASE n = 0
  BY <1>1, <1>2 DEF FlattenSeq
<1>3. CASE n # 0
  <2> DEFINE Body(h) == [i \in 1..n |-> IF i = 1 THEN ss[i] ELSE h[i - 1] \o ss[i]]
  <2>1. \E h : h = Body(h)
    <3> DEFINE h == [i \in 1..n |-> f[i]]
    <3>1. ASSUME NEW i \in 1..n PROVE h[i] = IF i = 1 THEN ss[i] ELSE h[i - 1] \o ss[i]
      <4>1. CASE i = 1
        <5>1. f[i] = f[i - 1] \o ss[i] /\ i - 1 = 0 /\ f[0] = <<>>
          BY <1>1, <4>1
        <5>2. <<>> \o ss[i] = ss[i] BY <1>1 DEF Texts
        <5>3. f[i] = ss[i] BY <5>1, <5>2
        <5> QED BY <4>1, <5>3
      <4>2. CASE i # 1
        <5>1. i - 1 \in 1..n BY <1>1, <4>2
        <5> QED BY <1>1, <4>2, <5>1
      <4> QED BY <4>1, <4>2
    <3>2. h = Body(h) BY <3>1, Zenon
    <3> QED BY <3>2
  <2>2. PICK h : h = Body(h) /\ FlattenSeq(ss) = h[n]
    <3>1. FlattenSeq(ss) = (CHOOSE h : h = Body(h))[n]
      BY <1>3 DEF FlattenSeq
    <3> QED BY <2>1, <3>1
  <2> DEFINE Bad == {i \in 1..n : h[i] # f[i]}
  <2>3. ASSUME NEW i \in 1..n PROVE h[i] = IF i = 1 THEN ss[i] ELSE h[i - 1] \o ss[i]
    BY <2>2, Zenon
  <2>4. Bad = {}
    <3> SUFFICES ASSUME Bad # {} PROVE FALSE
      OBVIOUS
    <3>1. Bad \subseteq Nat BY <1>1
    <3>2. PICK m \in Bad : \A j \in Bad : m <= j
      <4> HIDE DEF Bad
      <4> QED BY <3>1, LeastMember
    <3>3. CASE m = 1
      <4>1. m \in 1..n /\ h[m] # f[m] BY <3>2
      <4>2. f[m] = f[m - 1] \o ss[m] /\ m - 1 = 0 /\ f[0] = <<>>
        BY SMTT(30), <1>1, <3>3, <4>1
      <4>3. <<>> \o ss[m] = ss[m] BY <1>1, <4>1 DEF Texts
      <4>4. f[m] = ss[m] BY <4>2, <4>3
      <4> QED BY <2>3, <3>3, <4>1, <4>4
    <3>4. CASE m # 1
      <4>1. m - 1 \in 1..n /\ ~(m <= m - 1) BY <1>1, <3>2, <3>4
      <4>2. h[m - 1] = f[m - 1] BY <3>2, <4>1
      <4>3. h[m] = h[m - 1] \o ss[m] BY <2>3, <3>2, <3>4
      <4> QED BY <1>1, <3>2, <4>2, <4>3
    <3> QED BY <3>3, <3>4
  <2>5. n \in 1..n BY <1>1, <1>3
  <2> QED BY <2>2, <2>4, <2>5
<1> QED BY <1>2, <1>3

\* Such concatenations exist.
LEMMA ConcatenationExists ==
  ASSUME NEW ss \in Seq(Texts)
  PROVE  \E f : Concatenates(ss, f)
<1> DEFINE n == Len(ss)
           Upto(m, f) == /\ f \in [0..m -> Texts] /\ f[0] = <<>>
                         /\ \A i \in 1..m : f[i] = f[i - 1] \o ss[i]
           Bad == {m \in 0..n : ~(\E f : Upto(m, f))}
<1>1. n \in Nat /\ \A i \in 1..n : ss[i] \in Texts
  OBVIOUS
<1> HIDE DEF n
<1>2. Bad = {}
  <2> SUFFICES ASSUME Bad # {} PROVE FALSE
    OBVIOUS
  <2>1. PICK m \in Bad : \A j \in Bad : m <= j
    <3>1. 0..n \subseteq Nat BY <1>1
    <3>2. Bad \subseteq Nat BY <3>1
    <3> HIDE DEF Bad
    <3> QED BY <3>2, LeastMember
  <2>2. CASE m = 0
    <3> DEFINE f == [i \in 0..0 |-> <<>>]
    <3>1. f \in [0..0 -> Texts] /\ f[0] = <<>> BY DEF Texts
    <3>2. 1..0 = {} OBVIOUS
    <3>3. Upto(0, f) BY SMTT(30), <3>1, <3>2
    <3> QED BY <2>1, <2>2, <3>3
  <2>3. CASE m # 0
    <3>1. m - 1 \in 0..n /\ ~(m <= m - 1) /\ m \in 1..n BY <1>1, <2>1, <2>3
    <3>2. PICK f : Upto(m - 1, f) BY <2>1, <3>1
    <3> DEFINE g == [i \in 0..m |-> IF i <= m - 1 THEN f[i] ELSE f[m - 1] \o ss[m]]
    <3>3. f[m - 1] \o ss[m] \in Texts
      BY <1>1, <3>1, <3>2 DEF Texts
    <3>4. \A i \in 0..m : i <= m - 1 => i \in 0..(m - 1) BY <3>1
    <3>5. g \in [0..m -> Texts] BY <3>2, <3>3, <3>4
    <3>6. g[0] = <<>> BY SMTT(30), <3>1, <3>2
    <3>7. ASSUME NEW i \in 1..m PROVE g[i] = g[i - 1] \o ss[i]
      <4>1. i - 1 \in 0..m /\ i - 1 <= m - 1 /\ i \in 0..m /\ m \in Nat BY <3>1
      <4>2. g[i - 1] = f[i - 1] BY <4>1
      <4>3. CASE i <= m - 1
        <5>1. i \in 1..(m - 1) BY <4>1, <4>3
        <5> QED BY <3>2, <4>1, <4>2, <4>3, <5>1
      <4>4. CASE ~(i <= m - 1)
        <5>1. i = m BY <4>1, <4>4
        <5> QED BY <4>1, <4>2, <4>4, <5>1
      <4> QED BY <4>3, <4>4
    <3>8. Upto(m, g)
      <4> HIDE DEF g
      <4> QED BY <3>5, <3>6, <3>7
    <3> QED BY <2>1, <3>8
  <2> QED BY <2>2, <2>3
<1>3. n \in 0..n BY <1>1
<1>4. \E f : Upto(n, f) BY <1>2, <1>3
<1> QED BY <1>4 DEF Concatenates, n

\* The concatenation is a text, and one more text goes to its end.
LEMMA FlattenAppend ==
  ASSUME NEW ss \in Seq(Texts), NEW t \in Texts
  PROVE  /\ FlattenSeq(ss) \in Texts
         /\ FlattenSeq(Append(ss, t)) = FlattenSeq(ss) \o t
<1> DEFINE n == Len(ss)  more == Append(ss, t)
<1>1. PICK f : Concatenates(ss, f)
  BY ConcatenationExists
<1>2. /\ n \in Nat /\ f \in [0..n -> Texts] /\ f[0] = <<>>
      /\ \A i \in 1..n : f[i] = f[i - 1] \o ss[i]
      /\ FlattenSeq(ss) = f[n]
  BY <1>1, FlattenUnique DEF Concatenates
<1>3. /\ more \in Seq(Texts) /\ Len(more) = n + 1 /\ more[n + 1] = t
      /\ \A i \in 1..n : more[i] = ss[i]
  OBVIOUS
<1> HIDE DEF n, more
<1> DEFINE g == [i \in 0..(n + 1) |-> IF i <= n THEN f[i] ELSE f[n] \o t]
<1>4. f[n] \in Texts /\ f[n] \o t \in Texts
  BY <1>2 DEF Texts
<1>5. \A i \in 0..(n + 1) : i <= n => i \in 0..n
  BY <1>2
<1>6. g \in [0..(n + 1) -> Texts]
  BY <1>2, <1>4, <1>5
<1>7. g[0] = <<>>
  BY <1>2
<1>8. ASSUME NEW i \in 1..(n + 1) PROVE g[i] = g[i - 1] \o more[i]
  <2>1. i - 1 \in 0..(n + 1) /\ i - 1 <= n /\ i \in 0..(n + 1) BY <1>2
  <2>2. g[i - 1] = f[i - 1] BY <2>1
  <2>3. CASE i <= n
    <3>1. i \in 1..n BY <1>2, <2>3
    <3> QED BY <1>2, <1>3, <2>1, <2>2, <2>3, <3>1
  <2>4. CASE ~(i <= n)
    <3>1. i = n + 1 /\ i - 1 = n BY <1>2, <2>4
    <3> QED BY <1>3, <2>1, <2>2, <2>4, <3>1
  <2> QED BY <2>3, <2>4
<1>9. g[n + 1] = f[n] \o t
  BY <1>2
<1>10. Concatenates(more, g)
  <2> HIDE DEF g
  <2> QED BY <1>3, <1>6, <1>7, <1>8 DEF Concatenates
<1>11. FlattenSeq(more) = g[n + 1]
  BY <1>3, <1>10, FlattenUnique
<1> QED BY <1>2, <1>4, <1>9, <1>11 DEF more

\* A text put in the place of the first of the empty ones at the end.
LEMMA FlattenInsert ==
  ASSUME NEW a \in Seq(Texts), NEW b \in Seq(Texts), Len(a) = Len(b),
         NEW k \in 1..Len(a),
         \A i \in 1..(k - 1) : a[i] = b[i],
         \A i \in 1..Len(a) : i >= k => a[i] = <<>>,
         \A i \in 1..Len(a) : i > k => b[i] = <<>>
  PROVE  FlattenSeq(b) = FlattenSeq(a) \o b[k]
<1> DEFINE n == Len(a)  t == b[k]
<1>1. PICK f : Concatenates(a, f)
  BY ConcatenationExists
<1>2. /\ n \in Nat /\ f \in [0..n -> Texts] /\ f[0] = <<>> /\ Len(b) = n
      /\ \A i \in 1..n : f[i] = f[i - 1] \o a[i]
      /\ FlattenSeq(a) = f[n] /\ t \in Texts /\ k \in 1..n
      /\ \A i \in 0..n : f[i] \in Texts
  BY SMTT(30), <1>1, FlattenUnique DEF Concatenates
<1>3. /\ \A i \in 1..(k - 1) : a[i] = b[i]
      /\ \A i \in 1..n : i >= k => a[i] = <<>>
      /\ \A i \in 1..n : i > k => b[i] = <<>>
  OBVIOUS
<1> HIDE DEF n, t
<1>4. \A s \in Texts : s \o <<>> = s
  BY DEF Texts
<1> DEFINE g == [i \in 0..n |-> IF i < k THEN f[i] ELSE f[i] \o t]
<1>5. g \in [0..n -> Texts]
  <2>1. \A i \in 0..n : f[i] \o t \in Texts BY <1>2 DEF Texts
  <2> QED BY <1>2, <2>1
<1>6. g[0] = <<>>
  BY <1>2
<1>7. ASSUME NEW i \in 1..n PROVE g[i] = g[i - 1] \o b[i]
  <2>1. i \in 0..n /\ i - 1 \in 0..n BY <1>2
  <2>2. CASE i < k
    <3>1. i \in 1..(k - 1) /\ i - 1 < k BY <1>2, <2>2
    <3> QED BY <1>2, <1>3, <2>1, <2>2, <3>1
  <2>3. CASE i = k
    <3>1. i - 1 < k /\ ~(i < k) /\ i >= k BY <1>2, <2>3
    <3>2. f[i] = f[i - 1] \o <<>> BY <1>2, <1>3, <3>1
    <3>3. f[i] = f[i - 1] BY <1>2, <1>4, <2>1, <3>2
    <3> QED BY <2>1, <2>3, <3>1, <3>3 DEF t
  <2>4. CASE i > k
    <3>1. ~(i - 1 < k) /\ ~(i < k) /\ i >= k BY SMTT(30), <1>2, <2>4
    <3>2. f[i] = f[i - 1] \o <<>> BY <1>2, <1>3, <3>1
    <3>3. f[i] = f[i - 1] BY <1>2, <1>4, <2>1, <3>2
    <3>4. f[i] \o t \in Texts BY <1>2, <2>1 DEF Texts
    <3>5. (f[i] \o t) \o <<>> = f[i] \o t BY <1>4, <3>4
    <3> QED BY <1>3, <2>1, <2>4, <3>1, <3>3, <3>5
  <2>5. i < k \/ i = k \/ i > k BY <1>2
  <2> HIDE DEF g
  <2> QED BY <2>2, <2>3, <2>4, <2>5
<1>8. g[n] = f[n] \o t
  <2>1. n \in 0..n /\ ~(n < k) BY <1>2
  <2>2. \A i \in 0..n : ~(i < k) => g[i] = f[i] \o t OBVIOUS
  <2> HIDE DEF g
  <2> QED BY <2>1, <2>2
<1>9. Concatenates(b, g)
  <2> HIDE DEF g
  <2> QED BY <1>2, <1>5, <1>6, <1>7 DEF Concatenates
<1>10. FlattenSeq(b) = g[n]
  BY <1>2, <1>9, FlattenUnique
<1> QED BY <1>2, <1>8, <1>10 DEF t

\* The fragments of two texts put together.
LEMMA ToSetConcat ==
  ASSUME NEW s \in Texts, NEW t \in Texts
  PROVE  ToSet(s \o t) = ToSet(s) \cup ToSet(t)
<1>1. /\ DOMAIN s = 1..Len(s) /\ DOMAIN t = 1..Len(t)
      /\ DOMAIN (s \o t) = 1..(Len(s) + Len(t))
      /\ Len(s) \in Nat /\ Len(t) \in Nat
      /\ \A i \in 1..Len(s) : (s \o t)[i] = s[i]
      /\ \A i \in 1..Len(t) : (s \o t)[Len(s) + i] = t[i]
      /\ \A i \in 1..(Len(s) + Len(t)) :
           i \in 1..Len(s) \/ (i - Len(s) \in 1..Len(t) /\ (s \o t)[i] = t[i - Len(s)])
  BY ConcatAt DEF Texts
<1>2. ASSUME NEW x \in ToSet(s \o t) PROVE x \in ToSet(s) \cup ToSet(t)
  <2>1. PICK i \in 1..(Len(s) + Len(t)) : (s \o t)[i] = x BY <1>1, <1>2 DEF ToSet
  <2> QED BY <1>1, <2>1 DEF ToSet
<1>3. ASSUME NEW x \in ToSet(s) PROVE x \in ToSet(s \o t)
  <2>1. PICK i \in 1..Len(s) : s[i] = x BY <1>1, <1>3 DEF ToSet
  <2>2. i \in 1..(Len(s) + Len(t)) BY <1>1
  <2> QED BY <1>1, <2>1, <2>2 DEF ToSet
<1>4. ASSUME NEW x \in ToSet(t) PROVE x \in ToSet(s \o t)
  <2>1. PICK i \in 1..Len(t) : t[i] = x BY <1>1, <1>4 DEF ToSet
  <2>2. Len(s) + i \in 1..(Len(s) + Len(t)) BY <1>1
  <2> QED BY <1>1, <2>1, <2>2 DEF ToSet
<1> QED BY <1>2, <1>3, <1>4

\* The fragments of the concatenation are those of the texts.
LEMMA FlattenMembers ==
  ASSUME NEW ss \in Seq(Texts), NEW x
  PROVE  x \in ToSet(FlattenSeq(ss)) <=> \E i \in 1..Len(ss) : x \in ToSet(ss[i])
<1> DEFINE n == Len(ss)
<1>1. PICK f : Concatenates(ss, f)
  BY ConcatenationExists
<1>2. /\ n \in Nat /\ f[0] = <<>> /\ \A i \in 0..n : f[i] \in Texts
      /\ \A i \in 1..n : f[i] = f[i - 1] \o ss[i] /\ ss[i] \in Texts
      /\ FlattenSeq(ss) = f[n]
  BY <1>1, FlattenUnique DEF Concatenates
<1> HIDE DEF n
<1>3. \A s, t \in Texts : x \in ToSet(s \o t) <=> x \in ToSet(s) \/ x \in ToSet(t)
  BY ToSetConcat
<1> DEFINE Bad == {m \in 0..n : ~(x \in ToSet(f[m]) <=> \E i \in 1..m : x \in ToSet(ss[i]))}
<1>4. Bad = {}
  <2> SUFFICES ASSUME Bad # {} PROVE FALSE
    OBVIOUS
  <2>1. PICK m \in Bad : \A j \in Bad : m <= j
    <3>1. 0..n \subseteq Nat BY <1>2
    <3>2. Bad \subseteq Nat BY <3>1
    <3> HIDE DEF Bad
    <3> QED BY <3>2, LeastMember
  <2>2. CASE m = 0
    <3>1. ToSet(<<>>) = {} /\ 1..0 = {} BY DEF ToSet
    <3> QED BY <1>2, <2>1, <2>2, <3>1
  <2>3. CASE m # 0
    <3>1. m - 1 \in 0..n /\ ~(m <= m - 1) /\ m \in 1..n /\ m \in Nat BY <1>2, <2>1, <2>3
    <3>2. x \in ToSet(f[m - 1]) <=> \E i \in 1..(m - 1) : x \in ToSet(ss[i])
      BY <2>1, <3>1
    <3>3. x \in ToSet(f[m]) <=> x \in ToSet(f[m - 1]) \/ x \in ToSet(ss[m])
      <4>1. f[m] = f[m - 1] \o ss[m] /\ f[m - 1] \in Texts /\ ss[m] \in Texts
        BY <1>2, <3>1
      <4>2. x \in ToSet(f[m - 1] \o ss[m]) <=> x \in ToSet(f[m - 1]) \/ x \in ToSet(ss[m])
        BY <1>3, <4>1
      <4> QED BY <4>1, <4>2
    <3>4. \A i : i \in 1..m <=> i \in 1..(m - 1) \/ i = m BY <3>1
    <3> QED BY <2>1, <3>2, <3>3, <3>4
  <2> QED BY <2>2, <2>3
<1>5. n \in 0..n BY <1>2
<1> QED BY <1>2, <1>4, <1>5 DEF n

-----------------------------------------------------------------------------
(* The text of a stream up to a sequence                                   *)

EntryType == [id : Nat, type : EventType, text : TextType, mark : 0..MaxFragments]

Pieces(st, seq) ==
  [i \in DOMAIN st.log |-> IF st.log[i].id <= seq THEN st.log[i].text ELSE <<>>]

TextUpTo(st, seq) == FlattenSeq(Pieces(st, seq))

\* the texts of a stream that are put together
LEMMA PiecesType ==
  ASSUME NEW st \in StoreType, NEW seq
  PROVE  /\ Pieces(st, seq) \in Seq(Texts)
         /\ Len(st.log) \in Nat /\ DOMAIN st.log = 1..Len(st.log)
         /\ Len(Pieces(st, seq)) = Len(st.log)
         /\ \A i \in 1..Len(st.log) :
              /\ st.log[i] \in EntryType
              /\ Pieces(st, seq)[i] =
                   IF st.log[i].id <= seq THEN st.log[i].text ELSE <<>>
<1> DEFINE n == Len(st.log)
<1>0. st.log \in Seq(EntryType)
  BY DEF StoreType, EntryType
<1>1. /\ n \in Nat /\ DOMAIN st.log = 1..n /\ \A i \in 1..n : st.log[i] \in EntryType
  BY <1>0
<1> HIDE DEF n
<1>2. \A i \in 1..n : (IF st.log[i].id <= seq THEN st.log[i].text ELSE <<>>) \in Texts
  <2>1. \A i \in 1..n : st.log[i].text \in Texts
    BY <1>1, TextIsNat DEF EntryType, Texts
  <2>2. <<>> \in Texts BY DEF Texts
  <2> QED BY <2>1, <2>2
<1>3. Pieces(st, seq) \in [1..n -> Texts]
  BY <1>1, <1>2 DEF Pieces
<1>4. Pieces(st, seq) \in Seq(Texts) /\ Len(Pieces(st, seq)) = n
  BY <1>1, <1>3, SeqDef
<1> QED BY <1>1, <1>4 DEF n, Pieces

\* The text is typed, and one more entry adds its text where it is read.
LEMMA TextAfterEntry ==
  ASSUME NEW st \in StoreType, NEW after \in StoreType, NEW x \in EntryType,
         after.log = Append(st.log, x), NEW seq \in Nat
  PROVE  /\ TextUpTo(st, seq) \in Texts
         /\ x.id <= seq => TextUpTo(after, seq) = TextUpTo(st, seq) \o x.text
         /\ x.text = <<>> \/ x.id > seq => TextUpTo(after, seq) = TextUpTo(st, seq)
<1> DEFINE n == Len(st.log)  p == Pieces(st, seq)  q == Pieces(after, seq)
           t == IF x.id <= seq THEN x.text ELSE <<>>
<1>1. /\ n \in Nat /\ p \in Seq(Texts) /\ Len(p) = n /\ DOMAIN st.log = 1..n
      /\ \A i \in 1..n : p[i] = IF st.log[i].id <= seq THEN st.log[i].text ELSE <<>>
  BY PiecesType
<1>2. /\ q \in Seq(Texts) /\ Len(q) = Len(after.log)
      /\ \A i \in 1..Len(after.log) :
           q[i] = IF after.log[i].id <= seq THEN after.log[i].text ELSE <<>>
  BY PiecesType
<1>3. /\ Len(after.log) = n + 1 /\ after.log[n + 1] = x
      /\ \A i \in 1..n : after.log[i] = st.log[i]
  BY DEF StoreType
<1>4. t \in Texts
  BY TextIsNat DEF EntryType, Texts
<1>5. x.id \in Nat
  BY DEF EntryType
<1> HIDE DEF n, p, q, t
<1>6. q = Append(p, t)
  <2>1. \A i \in 1..n : q[i] = p[i]
    <3>1. \A i \in 1..n : i \in 1..(n + 1) BY <1>1
    <3> QED BY <1>1, <1>2, <1>3, <3>1
  <2>2. q[n + 1] = t
    <3>1. n + 1 \in 1..(n + 1) BY <1>1
    <3> QED BY <1>2, <1>3, <3>1 DEF t
  <2>3. /\ Append(p, t) \in Seq(Texts) /\ Len(Append(p, t)) = n + 1
        /\ \A i \in 1..n : Append(p, t)[i] = p[i]
        /\ Append(p, t)[n + 1] = t
    BY <1>1, <1>4
  <2>4. \A i \in 1..(n + 1) : i \in 1..n \/ i = n + 1 BY <1>1
  <2>5. \A i \in 1..(n + 1) : q[i] = Append(p, t)[i] BY <2>1, <2>2, <2>3, <2>4
  <2> QED BY <1>2, <1>3, <2>3, <2>5, SeqEqual
<1>7. TextUpTo(st, seq) \in Texts /\ TextUpTo(after, seq) = TextUpTo(st, seq) \o t
  BY <1>1, <1>4, <1>6, FlattenAppend DEF TextUpTo, p, q
<1>8. TextUpTo(st, seq) \o <<>> = TextUpTo(st, seq)
  BY <1>7 DEF Texts
<1>9. x.id <= seq => t = x.text
  BY DEF t
<1>10. x.text = <<>> \/ x.id > seq => t = <<>>
  BY <1>5 DEF t
<1> QED BY <1>7, <1>8, <1>9, <1>10

\* An append leaves the text read so far alone and continues the whole text.
LEMMA TextAfterAppend ==
  ASSUME NEW st \in StoreType, Ordered(st), NEW e \in AppendableType
  PROVE  /\ \A c \in Nat : c <= st.last => TextUpTo(Appended(st, e), c) = TextUpTo(st, c)
         /\ st.output = TextUpTo(st, st.last) =>
              Appended(st, e).output = TextUpTo(Appended(st, e), Appended(st, e).last)
         /\ Appended(st, e).last = st.last + 1
<1> DEFINE x == Entry(st.last + 1, e)  after == Appended(st, e)
<1>1. /\ x \in EntryType /\ x.id = st.last + 1 /\ x.text = e.text
      /\ st.last \in Nat /\ after \in StoreType
  <2>1. x \in EntryType /\ x.id = st.last + 1 /\ x.text = e.text
    BY DEF Entry, StoreType, AppendableType, EventType, EntryType
  <2>2. st.last \in Nat /\ after \in StoreType
    BY AppendedType DEF StoreType
  <2> QED BY <2>1, <2>2
<1>2. /\ after.log = Append(st.log, x) /\ after.last = st.last + 1
      /\ after.output = st.output \o e.text
  BY DEF Appended
<1> HIDE DEF x, after
<1>3. ASSUME NEW c \in Nat, c <= st.last PROVE TextUpTo(after, c) = TextUpTo(st, c)
  <2>1. x.id > c BY <1>1, <1>3
  <2>2. x.text = <<>> \/ x.id > c => TextUpTo(after, c) = TextUpTo(st, c)
    BY <1>1, <1>2, TextAfterEntry
  <2> QED BY <2>1, <2>2
<1>4. TextUpTo(after, st.last + 1) = TextUpTo(st, st.last + 1) \o e.text
  <2>1. st.last + 1 \in Nat /\ x.id <= st.last + 1 BY <1>1
  <2>2. x.id <= st.last + 1 =>
          TextUpTo(after, st.last + 1) = TextUpTo(st, st.last + 1) \o x.text
    BY <1>1, <1>2, <2>1, TextAfterEntry
  <2> QED BY <1>1, <2>1, <2>2
<1>5. TextUpTo(st, st.last + 1) = TextUpTo(st, st.last)
  <2>1. \A i \in DOMAIN st.log : st.log[i].id <= st.last /\ st.log[i].id <= st.last + 1
    BY <1>1 DEF Ordered
  <2>2. Pieces(st, st.last + 1) = Pieces(st, st.last)
    BY <2>1 DEF Pieces
  <2> QED BY <2>2 DEF TextUpTo
<1> QED BY <1>2, <1>3, <1>4, <1>5 DEF after

\* The done event carries no text.
LEMMA TextAfterTerminated ==
  ASSUME NEW st \in StoreType, Ordered(st), NEW seq \in Nat
  PROVE  /\ \A c \in Nat : TextUpTo(Terminated(st, seq), c) = TextUpTo(st, c)
         /\ st.output = TextUpTo(st, st.last) =>
              Terminated(st, seq).output =
                TextUpTo(Terminated(st, seq), Terminated(st, seq).last)
         /\ st.last <= Terminated(st, seq).last
<1> DEFINE x == Entry(seq, Event("done", <<>>, 0))  after == Terminated(st, seq)
<1>0. st.last \in Nat /\ after \in StoreType
  BY TerminatedType DEF StoreType
<1>1. CASE TerminalAccepts(st, seq)
  <2>1. /\ after.log = Append(st.log, x) /\ after.last = seq /\ after.output = st.output
        /\ seq > st.last
    BY <1>0, <1>1 DEF Terminated, StoreType, TerminalAccepts
  <2>2. x \in EntryType /\ x.text = <<>> /\ x.id = seq
    BY EventsAssumption DEF Entry, Event, EventType, TextType, EntryType
  <2> HIDE DEF x, after
  <2>3. \A c \in Nat : TextUpTo(after, c) = TextUpTo(st, c)
    BY <1>0, <2>1, <2>2, TextAfterEntry
  <2>4. TextUpTo(st, seq) = TextUpTo(st, st.last)
    <3>1. \A i \in DOMAIN st.log : st.log[i].id <= st.last /\ st.log[i].id <= seq
      BY <1>0, <2>1 DEF Ordered
    <3>2. Pieces(st, seq) = Pieces(st, st.last)
      BY <3>1 DEF Pieces
    <3> QED BY <3>2 DEF TextUpTo
  <2>5. TextUpTo(after, seq) = TextUpTo(st, st.last)
    BY <2>3, <2>4
  <2> QED BY <1>0, <2>1, <2>3, <2>5 DEF after
<1>2. CASE ~TerminalAccepts(st, seq)
  <2>1. Terminated(st, seq) = st BY <1>2 DEF Terminated
  <2> QED BY <1>0, <2>1
<1> QED BY <1>1, <1>2

\* The first entry above a cursor continues the text up to it.
LEMMA TextOfNext ==
  ASSUME NEW st \in StoreType, Ordered(st), NEW c \in Nat,
         NEW k \in 1..Len(st.log), st.log[k].id > c,
         \A i \in 1..Len(st.log) : st.log[i].id > c => k <= i
  PROVE  TextUpTo(st, st.log[k].id) = TextUpTo(st, c) \o st.log[k].text
<1> DEFINE n == Len(st.log)  d == st.log[k].id  a == Pieces(st, c)  b == Pieces(st, d)
<1>1. /\ n \in Nat /\ a \in Seq(Texts) /\ Len(a) = n /\ DOMAIN st.log = 1..n
      /\ \A i \in 1..n : st.log[i] \in EntryType
      /\ \A i \in 1..n : a[i] = IF st.log[i].id <= c THEN st.log[i].text ELSE <<>>
  BY PiecesType
<1>2. /\ b \in Seq(Texts) /\ Len(b) = n
      /\ \A i \in 1..n : b[i] = IF st.log[i].id <= d THEN st.log[i].text ELSE <<>>
  BY PiecesType
<1> HIDE DEF n, a, b
<1>3. /\ \A i \in 1..n : st.log[i].id \in Nat
      /\ \A i, j \in 1..n : i < j => st.log[i].id < st.log[j].id
      /\ k \in 1..n /\ d \in Nat /\ d > c
      /\ \A i \in 1..n : st.log[i].id > c => k <= i
  BY <1>1 DEF Ordered, EntryType, n
<1>4. ASSUME NEW i \in 1..(k - 1) PROVE a[i] = b[i]
  <2>1. i \in 1..n /\ i < k BY <1>1, <1>3
  <2>2. st.log[i].id < d /\ ~(st.log[i].id > c) BY <1>3, <2>1
  <2>3. st.log[i].id <= d /\ st.log[i].id <= c BY SMTT(30), <1>3, <2>1, <2>2
  <2> QED BY <1>1, <1>2, <2>1, <2>3
<1>5. ASSUME NEW i \in 1..n, i >= k PROVE a[i] = <<>>
  <2>1. st.log[i].id >= d
    <3>1. i = k \/ k < i BY <1>3, <1>5
    <3> QED BY <1>3, <3>1
  <2>2. ~(st.log[i].id <= c) BY <1>3, <2>1
  <2> QED BY <1>1, <2>2
<1>6. ASSUME NEW i \in 1..n, i > k PROVE b[i] = <<>>
  <2>1. ~(st.log[i].id <= d) BY <1>3, <1>6
  <2> QED BY <1>2, <2>1
<1>7. b[k] = st.log[k].text
  BY <1>2, <1>3
<1>8. FlattenSeq(b) = FlattenSeq(a) \o b[k]
  <2>1. Len(a) = Len(b) /\ k \in 1..Len(a) /\ \A i \in 1..(k - 1) : a[i] = b[i]
    BY <1>1, <1>2, <1>3, <1>4
  <2>2. /\ \A i \in 1..Len(a) : i >= k => a[i] = <<>>
        /\ \A i \in 1..Len(a) : i > k => b[i] = <<>>
    BY <1>1, <1>5, <1>6
  <2> QED BY <1>1, <1>2, <2>1, <2>2, FlattenInsert
<1> QED BY <1>7, <1>8 DEF TextUpTo, a, b

\* What was read earlier is in what is read later.
LEMMA TextIsKept ==
  ASSUME NEW st \in StoreType, NEW c \in Nat, NEW d \in Nat, c <= d
  PROVE  ToSet(TextUpTo(st, c)) \subseteq ToSet(TextUpTo(st, d))
<1> DEFINE n == Len(st.log)  a == Pieces(st, c)  b == Pieces(st, d)
<1>1. /\ n \in Nat /\ a \in Seq(Texts) /\ Len(a) = n
      /\ \A i \in 1..n : st.log[i] \in EntryType
      /\ \A i \in 1..n : a[i] = IF st.log[i].id <= c THEN st.log[i].text ELSE <<>>
  BY PiecesType
<1>2. /\ b \in Seq(Texts) /\ Len(b) = n
      /\ \A i \in 1..n : b[i] = IF st.log[i].id <= d THEN st.log[i].text ELSE <<>>
  BY PiecesType
<1> HIDE DEF n, a, b
<1>3. ASSUME NEW x \in ToSet(FlattenSeq(a)) PROVE x \in ToSet(FlattenSeq(b))
  <2>1. PICK i \in 1..n : x \in ToSet(a[i])
    BY <1>1, FlattenMembers
  <2>2. ToSet(<<>>) = {} BY DEF ToSet
  <2>3. st.log[i].id <= c BY <1>1, <2>1, <2>2
  <2>4. st.log[i].id <= d BY <1>1, <2>3 DEF EntryType
  <2>5. x \in ToSet(b[i]) BY <1>1, <1>2, <2>1, <2>3, <2>4
  <2> QED BY <1>2, <2>5, FlattenMembers
<1> QED BY <1>3 DEF TextUpTo, a, b

-----------------------------------------------------------------------------
(* A follower only reads                                                   *)

\* With its followers the writer behaves as it does alone, so every theorem about
\* the writer holds of the run that is followed.
THEOREM FollowersOnlyRead == Spec => WriterSpec
<1>1. FollowerInit => Init
  BY DEF FollowerInit
<1>2. [Next]_vars => [WriterNext]_writerVars
  BY DEF Next, WriterStep, vars
<1> QED BY <1>1, <1>2, PTL DEF Spec, WriterSpec

\* The ids of a stream that is followed ascend and end at last_sequence.
THEOREM FollowedStreamOrdered == Spec => []StreamOrdered
BY FollowersOnlyRead, StreamStaysOrdered, PTL

\* The done event of a stream that is followed stands at the committed sequence.
THEOREM FollowedDoneCommitted == Spec => []DoneAtCommittedSequence
BY FollowersOnlyRead, DoneStaysCommitted, PTL

\* In a stream that is followed no event overtakes its text.
THEOREM FollowedTextBeforeEvent == Spec => []TextBeforeEvent
BY FollowersOnlyRead, TextIsBeforeEvent, PTL

-----------------------------------------------------------------------------
(* What a follower has seen                                                *)

\* what the proofs about the writer establish of it
WriterFacts ==
  /\ WriterInv
  /\ TextInv
  /\ Ordered(store)
  /\ DoneInv

\* The output string is the text of the stream; a follower that counts on the
\* stream is not ahead of it, has its text, and restores its snapshot at the
\* cursor it counted unless an append slipped in between.
FollowInv ==
  /\ reader \in {"joining", "idle", "counting", "restoring", "reading",
                 "checking", "polling", "stopped", "left"}
  /\ cursor \in Nat /\ shown \in TextType /\ gotDone \in BOOLEAN
  /\ slips \in 0..MaxSlips /\ drops \in 0..MaxDrops
  /\ store.output = TextUpTo(store, store.last)
  /\ reader \in {"restoring", "reading", "checking", "polling", "left"} => cursor <= store.last
  /\ reader = "restoring" /\ slips = 0 => cursor = store.last
  /\ ShownIsStream
  /\ StoppedMeansFinished

\* The facts about the writer hold while a run is followed.
LEMMA WriterFactsHold == Spec => []WriterFacts
<1>1. Init => WriterFacts
  <2>1. Init => Ordered(store) /\ DoneInv
    BY DEF Init, EmptyStore, Ordered, DoneInv
  <2> QED BY <2>1, InitWriterInv, InitTextInv DEF WriterFacts
<1>2. WriterFacts /\ [WriterNext]_writerVars => WriterFacts'
  <2> SUFFICES ASSUME WriterFacts, [WriterNext]_writerVars PROVE WriterFacts'
    OBVIOUS
  <2>1. StreamOrdered BY DEF WriterFacts, Ordered, StreamOrdered
  <2>2. Ordered(store)' BY <2>1, NextOrdered DEF WriterFacts, Ordered, StreamOrdered
  <2>3. TextInv' BY NextStreamInv, NextBufferInv, NextRowInv DEF WriterFacts, TextInv
  <2> QED BY <2>2, <2>3, NextWriterInv, NextDoneInv DEF WriterFacts
<1>3. WriterSpec => []WriterFacts
  BY <1>1, <1>2, PTL DEF WriterSpec
<1> QED BY <1>3, FollowersOnlyRead, PTL

\* A follower starts with nothing.
LEMMA InitFollowInv == FollowerInit => FollowInv
<1> SUFFICES ASSUME FollowerInit PROVE FollowInv
  OBVIOUS
<1>1. store.output = TextUpTo(store, store.last)
  <2>1. /\ Pieces(store, store.last) = <<>> /\ store.output = <<>>
    BY DEF FollowerInit, Init, EmptyStore, Pieces
  <2>2. FlattenSeq(<<>>) = <<>>
    BY DEF FlattenSeq
  <2> QED BY <2>1, <2>2 DEF TextUpTo
<1>2. <<>> \in TextType /\ 0 \in 0..MaxSlips /\ 0 \in 0..MaxDrops
  BY FollowersAssumption DEF TextType
<1> QED BY <1>1, <1>2 DEF FollowerInit, FollowInv, ShownIsStream, StoppedMeansFinished

\* A step of the writer leaves what followers have read alone, and what they have
\* not read is above their cursors.
LEMMA WriterFollowInv ==
  ASSUME WriterFacts, FollowInv, WriterStep
  PROVE  FollowInv'
<1>0. store \in StoreType /\ Ordered(store) /\ store.last \in Nat
  BY DEF WriterFacts, WriterInv, WriterTypeOK, StoreType
<1>1. WriterNext /\ [WriterNext]_writerVars /\ WriterInv /\ DoneInv
  BY DEF WriterStep, WriterFacts
<1>2. /\ \A c \in Nat : c <= store.last => TextUpTo(store', c) = TextUpTo(store, c)
      /\ store'.output = TextUpTo(store', store'.last)
      /\ store.last <= store'.last /\ store'.last \in Nat
  <2>1. CASE store' = store
    BY <1>0, <2>1 DEF FollowInv
  <2>2. CASE \E e \in AppendableType : store' = Appended(store, e)
    BY <1>0, <2>2, TextAfterAppend DEF FollowInv
  <2>3. CASE pc = "done" /\ store' = Terminated(store, row.seq)
    <3>1. row.seq \in Nat BY <1>1 DEF WriterInv, WriterTypeOK
    <3>2. store' \in StoreType BY <1>0, <2>3, <3>1, TerminatedType
    <3>3. store'.last \in Nat BY <3>2 DEF StoreType
    <3> QED BY <1>0, <2>3, <3>1, <3>3, TextAfterTerminated DEF FollowInv
  <2> QED BY <1>1, <2>1, <2>2, <2>3, StoreStep
<1>3. Finished => Finished'
  BY <1>1, RowStep DEF Finished
<1>4. /\ cursor' = cursor /\ shown' = shown /\ gotDone' = gotDone /\ drops' = drops
      /\ slips' \in 0..MaxSlips
      /\ slips' = 0 => slips = 0
      /\ reader = "restoring" /\ slips' = 0 => store' = store
  <2>1. slips \in Nat /\ slips \in 0..MaxSlips /\ MaxSlips \in Nat
    BY FollowersAssumption DEF FollowInv
  <2>2. slips' = slips \/ (slips < MaxSlips /\ slips' = slips + 1)
    BY DEF WriterStep
  <2>3. reader = "restoring" /\ store' # store => slips' = slips + 1
    BY DEF WriterStep
  <2>4. cursor' = cursor /\ shown' = shown /\ gotDone' = gotDone /\ drops' = drops
    BY DEF WriterStep
  <2> HIDE DEF WriterStep
  <2> QED BY <2>1, <2>2, <2>3, <2>4
<1>5. /\ reader' \in {reader, "reading", "joining"}
      /\ reader' = "reading" => reader \in {"reading", "checking"}
  BY DEF WriterStep, ReaderAfter
<1>6. cursor \in Nat /\ (reader \in {"restoring", "reading", "checking", "polling", "left"} => cursor <= store.last)
  BY DEF FollowInv
<1>7. ShownIsStream'
  <2> SUFFICES ASSUME reader' \in {"reading", "checking", "polling", "left"}
               PROVE  /\ ToSet(TextUpTo(store', cursor)) \subseteq ToSet(shown)
                      /\ slips' = 0 => shown = TextUpTo(store', cursor)
    BY <1>4 DEF ShownIsStream, StreamText, TextUpTo, Pieces
  <2>1. reader \in {"reading", "checking", "polling", "left"} BY <1>5
  <2>2. TextUpTo(store', cursor) = TextUpTo(store, cursor) BY <1>2, <1>6, <2>1
  <2>3. /\ ToSet(TextUpTo(store, cursor)) \subseteq ToSet(shown)
        /\ slips = 0 => shown = TextUpTo(store, cursor)
    BY <2>1 DEF FollowInv, ShownIsStream, StreamText, TextUpTo, Pieces
  <2> QED BY <1>4, <2>2, <2>3
<1>8. (reader \in {"restoring", "reading", "checking", "polling", "left"} => cursor <= store.last)'
  BY <1>0, <1>2, <1>4, <1>5, <1>6
<1>9. (reader = "restoring" /\ slips = 0 => cursor = store.last)'
  BY <1>4, <1>5 DEF FollowInv
<1>10. StoppedMeansFinished'
  BY <1>3, <1>5 DEF FollowInv, StoppedMeansFinished
<1> QED BY <1>2, <1>4, <1>5, <1>7, <1>8, <1>9, <1>10 DEF FollowInv

\* A follower that reads moves its cursor and its screen together.
LEMMA ReaderFollowInv ==
  ASSUME WriterFacts, FollowInv, FollowerStep, UNCHANGED writerVars
  PROVE  FollowInv'
<1>0. store \in StoreType /\ Ordered(store) /\ store.last \in Nat /\ row.seq \in Nat
  BY DEF WriterFacts, WriterInv, WriterTypeOK, StoreType
<1>1. /\ store' = store /\ row' = row
  BY DEF writerVars
<1>a. FollowInv <=>
        /\ reader \in {"joining", "idle", "counting", "restoring", "reading",
                       "checking", "polling", "stopped", "left"}
        /\ cursor \in Nat /\ shown \in TextType /\ gotDone \in BOOLEAN
        /\ slips \in 0..MaxSlips /\ drops \in 0..MaxDrops
        /\ store.output = TextUpTo(store, store.last)
        /\ reader \in {"restoring", "reading", "checking", "polling", "left"} => cursor <= store.last
        /\ reader = "restoring" /\ slips = 0 => cursor = store.last
        /\ reader \in {"reading", "checking", "polling", "left"} =>
             /\ ToSet(TextUpTo(store, cursor)) \subseteq ToSet(shown)
             /\ slips = 0 => shown = TextUpTo(store, cursor)
        /\ reader = "stopped" => Finished
  BY DEF FollowInv, ShownIsStream, StreamText, TextUpTo, Pieces, StoppedMeansFinished
<1>b. FollowInv' <=>
        /\ reader' \in {"joining", "idle", "counting", "restoring", "reading",
                        "checking", "polling", "stopped", "left"}
        /\ cursor' \in Nat /\ shown' \in TextType /\ gotDone' \in BOOLEAN
        /\ slips' \in 0..MaxSlips /\ drops' \in 0..MaxDrops
        /\ store.output = TextUpTo(store, store.last)
        /\ reader' \in {"restoring", "reading", "checking", "polling", "left"} => cursor' <= store.last
        /\ reader' = "restoring" /\ slips' = 0 => cursor' = store.last
        /\ reader' \in {"reading", "checking", "polling", "left"} =>
             /\ ToSet(TextUpTo(store, cursor')) \subseteq ToSet(shown')
             /\ slips' = 0 => shown' = TextUpTo(store, cursor')
        /\ reader' = "stopped" => Finished
  BY <1>1 DEF FollowInv, ShownIsStream, StreamText, TextUpTo, Pieces, StoppedMeansFinished,
              Finished
<1>c. slips' = slips /\ (drops' = drops \/ (drops < MaxDrops /\ drops' = drops + 1))
  BY DEF FollowerStep, Join, ReadSequence, ReadOutput, Deliver, ReadNothing, CheckRow, Drop, Poll,
         Leave
<1>d. drops' \in 0..MaxDrops
  BY <1>a, <1>c, FollowersAssumption
<1>1a. CASE Join
  <2>1. /\ reader = "joining" /\ reader' \in {"idle", "counting"} /\ cursor' = cursor
        /\ shown' = shown /\ gotDone' = gotDone
    BY <1>1a DEF Join
  <2> QED BY <1>a, <1>b, <1>c, <1>d, <2>1
<1>2a. CASE ReadSequence
  <2>1. /\ reader' = "restoring" /\ cursor' = store.last /\ shown' = shown /\ gotDone' = gotDone
    BY <1>2a DEF ReadSequence
  <2> QED BY <1>0, <1>a, <1>b, <1>c, <1>d, <2>1
<1>3a. CASE ReadOutput
  <2>1. /\ reader = "restoring" /\ reader' = "reading" /\ cursor' = cursor
        /\ shown' = store.output /\ gotDone' = gotDone
    BY <1>3a DEF ReadOutput
  <2>2. store.output \in TextType BY <1>0 DEF StoreType
  <2>3. ToSet(TextUpTo(store, cursor)) \subseteq ToSet(TextUpTo(store, store.last))
    BY <1>0, <1>a, <2>1, TextIsKept
  <2> QED BY <1>a, <1>b, <1>c, <1>d, <2>1, <2>2, <2>3
<1>4a. CASE Deliver
  <2> DEFINE k == NextEntry(Unread)  x == store.log[k]
  <2>1. /\ Unread # {} /\ reader = "reading" /\ cursor' = x.id /\ shown' = shown \o x.text
        /\ gotDone' = EndsStream(x.type)
        /\ reader' = IF EndsStream(x.type) THEN "stopped" ELSE "reading"
    BY <1>4a DEF Deliver
  <2>2. Unread = {i \in 1..Len(store.log) : store.log[i].id > cursor} /\ Unread \subseteq Nat
        /\ DOMAIN store.log = 1..Len(store.log)
    BY <1>0 DEF Unread, After, StoreType
  <2>3. k \in Unread /\ \A i \in Unread : k <= i
    <3>1. \E i \in Unread : \A j \in Unread : i <= j BY <2>1, <2>2, LeastMember
    <3> QED BY SMTT(30), <3>1 DEF NextEntry
  <2> HIDE DEF k
  <2>4. /\ k \in 1..Len(store.log) /\ x.id > cursor
        /\ \A i \in 1..Len(store.log) : store.log[i].id > cursor => k <= i
        /\ x.id \in Nat /\ x.id <= store.last /\ x.text \in TextType /\ x.type \in EventType
    <3>1. x \in EntryType BY <1>0, <2>2, <2>3, PiecesType
    <3>2. x.id <= store.last BY <1>0, <2>2, <2>3 DEF Ordered
    <3> QED BY <2>2, <2>3, <3>1, <3>2 DEF EntryType
  <2>5. TextUpTo(store, x.id) = TextUpTo(store, cursor) \o x.text
    BY <1>0, <1>a, <2>4, TextOfNext
  <2>6. shown \o x.text \in TextType
    BY <1>a, <2>4 DEF TextType
  <2>7. ToSet(TextUpTo(store, cursor) \o x.text) \subseteq ToSet(shown \o x.text)
    <3>1. \A s, t \in Texts : ToSet(s \o t) = ToSet(s) \cup ToSet(t)
      BY ToSetConcat
    <3>2. TextUpTo(store, cursor) \in Texts
      <4>1. Pieces(store, cursor) \in Seq(Texts) /\ <<>> \in Texts
        BY <1>0, PiecesType DEF Texts
      <4> QED BY <4>1, FlattenAppend DEF TextUpTo
    <3>3. shown \in Texts /\ x.text \in Texts BY <1>a, <2>4, TextIsNat DEF Texts
    <3> QED BY <1>a, <2>1, <3>1, <3>2, <3>3
  <2>8. EndsStream(x.type) => Finished
    BY <2>2, <2>4 DEF EndsStream, WriterFacts, DoneInv
  <2>9. gotDone' \in BOOLEAN BY <2>1 DEF EndsStream
  <2> QED BY <1>a, <1>b, <1>c, <1>d, <2>1, <2>4, <2>5, <2>6, <2>7, <2>8, <2>9
<1>5a. CASE ReadNothing
  <2>1. /\ reader = "reading" /\ reader' = "checking" /\ cursor' = cursor
        /\ shown' = shown /\ gotDone' = gotDone
    BY <1>5a DEF ReadNothing
  <2> QED BY <1>a, <1>b, <1>c, <1>d, <2>1
<1>6a. CASE CheckRow
  <2>1. /\ reader = "checking" /\ shown' = shown
        /\ \/ reader' \in {"reading", "polling"} /\ cursor' = cursor /\ gotDone' = gotDone
           \/ /\ reader' = "stopped" /\ Finished /\ cursor' = row.seq /\ gotDone' = TRUE
    BY <1>6a DEF CheckRow, Over
  <2> QED BY <1>0, <1>a, <1>b, <1>c, <1>d, <2>1
<1>7a. CASE Drop
  <2>1. /\ reader \in {"reading", "checking", "polling"} /\ reader' \in {"reading", "polling"}
        /\ cursor' = cursor /\ shown' = shown /\ gotDone' = gotDone
    BY <1>7a DEF Drop, Connects
  <2> QED BY <1>a, <1>b, <1>c, <1>d, <2>1
<1>8a. CASE Poll
  <2>1. /\ reader = "polling" /\ shown' = shown /\ gotDone' = gotDone /\ cursor' = cursor
        /\ reader' = "reading" \/ (reader' = "stopped" /\ Finished)
    BY <1>8a DEF Poll, SaidFinished, Connects
  <2> QED BY <1>a, <1>b, <1>c, <1>d, <2>1
<1>9a. CASE Leave
  <2>1. /\ reader \in {"reading", "checking", "polling"} /\ reader' = "left"
        /\ cursor' = cursor /\ shown' = shown /\ gotDone' = gotDone
    BY <1>9a DEF Leave
  <2> QED BY <1>a, <1>b, <1>c, <1>d, <2>1
<1> QED BY <1>1a, <1>2a, <1>3a, <1>4a, <1>5a, <1>6a, <1>7a, <1>8a, <1>9a DEF FollowerStep

\* The invariant of the follower, with the facts about the writer it reads from.
LEMMA FollowInvHolds == Spec => [](WriterFacts /\ FollowInv)
<1>1. ASSUME WriterFacts, FollowInv, [Next]_vars PROVE FollowInv'
  <2>1. CASE WriterStep
    BY <1>1, <2>1, WriterFollowInv
  <2>2. CASE FollowerStep /\ UNCHANGED writerVars
    BY <1>1, <2>2, ReaderFollowInv
  <2>3. CASE UNCHANGED vars
    BY <1>1, <2>3 DEF vars, writerVars, followerVars, FollowInv, ShownIsStream, StreamText,
                      TextUpTo, Pieces, StoppedMeansFinished, Finished
  <2> QED BY <1>1, <2>1, <2>2, <2>3 DEF Next
<1> QED BY <1>1, InitFollowInv, WriterFactsHold, PTL DEF Spec

\* Every state of the writer and the follower has the types of the model.
THEOREM FollowTypeCorrect == Spec => []TypeOK
<1>1. WriterFacts /\ FollowInv => TypeOK
  BY DEF WriterFacts, WriterInv, FollowInv, TypeOK
<1> QED BY <1>1, FollowInvHolds, PTL

\* What a browser shows while it reads is the text of the stream up to its cursor,
\* or that with an append that slipped into its snapshot, after any number of lost
\* connections and restarts of the backend.
THEOREM ScreenFollowsStream == Spec => []ShownIsStream
<1>1. FollowInv => ShownIsStream
  BY DEF FollowInv
<1> QED BY <1>1, FollowInvHolds, PTL

\* A browser that follows to the end stops only when the run is finished in the
\* database; one turned away or aborted has left, with the run in any state.
THEOREM StopsWhenFinished == Spec => []StoppedMeansFinished
<1>1. FollowInv => StoppedMeansFinished
  BY DEF FollowInv
<1> QED BY <1>1, FollowInvHolds, PTL

\* A completed run has every fragment of the agent in its stream and in its row, in
\* the agent's order, whatever was retried, lost, late or repeated on the way.
THEOREM CompletedRunKeepsText == Spec => []NoFragmentLost
<1>1. WriterFacts /\ FollowInv => NoFragmentLost
  <2> SUFFICES ASSUME WriterFacts, FollowInv, row.status = "completed"
               PROVE  Covers(StreamText(store.last), local) /\ Covers(row.out, local)
    BY DEF NoFragmentLost
  <2>1. Covers(store.output, local) /\ Covers(row.out, local)
    BY DEF WriterFacts, TextInv, RowInv
  <2>2. store.output = StreamText(store.last)
    BY DEF FollowInv, TextUpTo, Pieces, StreamText
  <2> QED BY <2>1, <2>2
<1> QED BY <1>1, FollowInvHolds, PTL

-----------------------------------------------------------------------------
(* Without lost replies                                                    *)

USE DEF storeVars, agentVars, bufferVars, boundVars

\* no reply is lost, nothing is executed late, and a task is cancelled at most
\* once; processes may crash
Quiet == MaxStoreFaults = 0 /\ MaxLate = 0 /\ MaxCancels <= 1

\* the steps of a finalization, which start when the buffer is empty
Finalizing == {"error", "snapshot", "commit", "done", "ended"}

\* the buffer: it never fails, the timer is armed for fragments only, and it is
\* empty once the run is being finalized and once it is finished
QuietBuffer ==
  /\ late = {} /\ ~failure
  /\ timer => frags # <<>>
  /\ lock # "free" => ~timer
  /\ pc \in Finalizing \/ Finished => lock = "free" /\ frags = <<>>

\* the task: one cancellation leaves no run to be cancelled directly, and only a
\* cancelled task finalizes a finished run again
QuietTask ==
  /\ mode # "direct"
  /\ pc = "gone" \/ mode \in {"cancel", "shutdown"} => cancels > 0
  /\ mode = "restart" => pc \in Finalizing \cup {"down"}
  /\ Finished => pc \in {"done", "ended", "down", "gone"} \/ mode \in {"cancel", "shutdown"}

\* a text is the first fragments, n of them at most
Begins(text, n) == \E k \in 0..n : text = Text(k)

\* the text: output and buffer are exactly what was received, until a cancellation
\* or a crash
QuietText ==
  /\ pc = "metadata" => local = 0
  /\ store.last = 0 => local = 0 /\ store.output = <<>>
  /\ pc \in {"agent", "adding", "boundary", "event"} => store.last > 0
  /\ mode \in {"body", "fail"} /\ pc \notin {"down", "ended", "gone"} =>
       store.output \o frags = Text(IF Joining THEN local - 1 ELSE local)
  /\ cancels = 0 => Begins(store.output, local)

\* the row: what is committed is the output at the end of the stream
QuietRow ==
  /\ pubSeq <= store.last
  /\ pc = "error" /\ mode = "restart" => snap.out = store.output
  /\ pc = "commit" => CommitSnap = [seq |-> store.last, out |-> store.output]
  /\ Finished => row.out = TextUpTo(store, row.seq)

QuietInv == QuietBuffer /\ QuietTask /\ QuietText /\ QuietRow

\* Nothing stands above the last sequence.
LEMMA TextPastEnd ==
  ASSUME NEW st \in StoreType, Ordered(st), NEW c \in Nat, st.last <= c
  PROVE  TextUpTo(st, c) = TextUpTo(st, st.last)
<1>1. \A i \in DOMAIN st.log : st.log[i].id <= st.last /\ st.log[i].id <= c
  BY DEF Ordered, StoreType
<1>2. Pieces(st, c) = Pieces(st, st.last)
  BY <1>1 DEF Pieces
<1> QED BY <1>2 DEF TextUpTo

\* The agent's text grows by the next fragment.
LEMMA TextGrows ==
  /\ Text(0) = <<>>
  /\ \A n \in Nat : Text(n) \in Seq(Nat)
  /\ \A n \in Nat : Append(Text(n), n + 1) = Text(n + 1)
<1>1. Text(0) = <<>>
  BY DEF Text
<1>2. ASSUME NEW n \in Nat
      PROVE  Text(n) \in Seq(Nat) /\ Len(Text(n)) = n /\ \A i \in 1..n : Text(n)[i] = i
  BY SeqDef DEF Text
<1>3. ASSUME NEW n \in Nat PROVE Append(Text(n), n + 1) = Text(n + 1)
  <2>1. /\ Append(Text(n), n + 1) \in Seq(Nat) /\ Len(Append(Text(n), n + 1)) = n + 1
        /\ \A i \in 1..n : Append(Text(n), n + 1)[i] = i
        /\ Append(Text(n), n + 1)[n + 1] = n + 1
    <3> DEFINE t == Text(n)
    <3>1. t \in Seq(Nat) /\ Len(t) = n /\ \A i \in 1..n : t[i] = i BY <1>2
    <3> HIDE DEF t
    <3>2. Append(t, n + 1) \in Seq(Nat) /\ Len(Append(t, n + 1)) = n + 1
          /\ (\A i \in 1..n : Append(t, n + 1)[i] = t[i])
          /\ Append(t, n + 1)[n + 1] = n + 1
      BY <3>1
    <3> QED BY <3>1, <3>2 DEF t
  <2>2. /\ Text(n + 1) \in Seq(Nat) /\ Len(Text(n + 1)) = n + 1
        /\ \A i \in 1..(n + 1) : Text(n + 1)[i] = i
    BY <1>2
  <2>3. \A i \in 1..(n + 1) : i \in 1..n \/ i = n + 1
    OBVIOUS
  <2>4. \A i \in 1..(n + 1) : Append(Text(n), n + 1)[i] = Text(n + 1)[i]
    BY <2>1, <2>2, <2>3
  <2> QED BY <2>1, <2>2, <2>4, SeqEqual
<1> QED BY <1>1, <1>2, <1>3

\* What begins the text begins a longer one.
LEMMA TextBegins ==
  ASSUME NEW n \in Nat
  PROVE  /\ Begins(Text(n), n)
         /\ n > 0 => Begins(Text(n - 1), n)
         /\ \A t : Begins(t, n) => Begins(t, n + 1)
<1>1. n \in 0..n /\ (n > 0 => n - 1 \in 0..n) /\ \A k \in 0..n : k \in 0..(n + 1)
  OBVIOUS
<1> QED BY <1>1 DEF Begins

\* One fragment more at the end of a text.
LEMMA ConcatOneMore ==
  ASSUME NEW s \in Seq(Nat), NEW t \in Seq(Nat), NEW x \in Nat
  PROVE  s \o Append(t, x) = Append(s \o t, x)
<1>0. <<x>> \in Seq(Nat) /\ s \o t \in Seq(Nat)
  OBVIOUS
<1>1. <<x>> \in Seq(Nat) /\ Append(t, x) = t \o <<x>> /\ Append(s \o t, x) = (s \o t) \o <<x>>
  BY <1>0, AppendIsConcat
<1>2. s \o (t \o <<x>>) = (s \o t) \o <<x>>
  BY <1>1, ConcatAssociative
<1> QED BY <1>1, <1>2

\* Everything is quiet at the start.
LEMMA InitQuiet == Quiet /\ FollowerInit => QuietInv
<1> SUFFICES ASSUME Quiet, FollowerInit PROVE QuietInv
  OBVIOUS
<1>1. ~Finished /\ <<>> \o <<>> = <<>> /\ Begins(Text(0), 0)
  BY TextBegins DEF FollowerInit, Init, Finished, Unfinished
<1> QED BY <1>1, TextGrows
        DEF FollowerInit, Init, EmptyStore, QuietInv, QuietBuffer, QuietTask, QuietText,
            QuietRow, Joining, Finalizing

\* What the store can go through when no reply is lost.
LEMMA QuietStore ==
  ASSUME Quiet, WriterFacts, late = {}
  PROVE  /\ troubles = 0 /\ ~(troubles < MaxStoreFaults)
         /\ \A e : AppendRetry(e) \/ AppendRaises(e) => FALSE
         /\ ~CommandTrouble
         /\ \A es : Abandoned(es) =>
              /\ late' = late
              /\ \/ store' = store
                 \/ \E e \in es : store' = Appended(store, e)
                 \/ pc = "done" /\ store' = Terminated(store, row.seq)
<1>1. troubles = 0 /\ ~(troubles < MaxStoreFaults)
  BY DEF Quiet, WriterFacts, WriterInv, WriterTypeOK
<1>2. ~(Cardinality(late) < MaxLate)
  BY FS_EmptySet DEF Quiet
<1> QED BY <1>1, <1>2
        DEF AppendRetry, AppendRaises, AppendTrouble, CommandTrouble, Abandoned, storeVars

\* Without lost replies every step keeps stream, buffer and row exact.
LEMMA NextQuiet ==
  ASSUME Quiet, WriterFacts, store.output = TextUpTo(store, store.last), QuietInv,
         [WriterNext]_writerVars
  PROVE  QuietInv'
<1> DEFINE out == store.output  last == store.last  Up(st) == TextUpTo(st, row.seq)
<1>0. /\ store \in StoreType /\ Ordered(store) /\ last \in Nat /\ row.seq \in Nat
      /\ out \in Seq(Nat) /\ frags \in Seq(Nat) /\ local \in Nat /\ pubSeq \in Nat
      /\ snap \in [seq : Nat, out : TextType]
      /\ cancels \in 0..MaxCancels /\ mode \in Modes /\ lock \in {"free", "main", "timer"}
      /\ pc = "adding" => local > 0
  BY TextIsNat DEF WriterFacts, WriterInv, WriterTypeOK, StoreType, SnapType
<1>n. /\ last \in Nat /\ local \in Nat /\ pubSeq \in Nat /\ cancels \in Nat
      /\ MaxCancels \in Nat /\ MaxCancels <= 1
  BY <1>0, EventsAssumption DEF Quiet
<1>a. /\ late = {} /\ ~failure
      /\ timer => frags # <<>>
      /\ lock # "free" => ~timer
      /\ pc \in Finalizing \/ Finished => lock = "free" /\ frags = <<>>
      /\ mode # "direct"
      /\ pc = "gone" \/ mode \in {"cancel", "shutdown"} => cancels > 0
      /\ mode = "restart" => pc \in Finalizing \cup {"down"}
      /\ Finished => pc \in {"done", "ended", "down", "gone"} \/ mode \in {"cancel", "shutdown"}
      /\ pc = "metadata" => local = 0
      /\ last = 0 => local = 0 /\ out = <<>>
      /\ pc \in {"agent", "adding", "boundary", "event"} => last > 0
      /\ mode \in {"body", "fail"} /\ pc \notin {"down", "ended", "gone"} =>
           out \o frags = Text(IF Joining THEN local - 1 ELSE local)
      /\ cancels = 0 => Begins(out, local)
      /\ pubSeq <= last
      /\ pc = "error" /\ mode = "restart" => snap.out = out
      /\ pc = "commit" => CommitSnap = [seq |-> last, out |-> out]
      /\ Finished => row.out = Up(store)
  BY DEF QuietInv, QuietBuffer, QuietTask, QuietText, QuietRow
<1>b. /\ pc \in {"metadata", "agent", "adding", "boundary", "event"} => mode = "body"
      /\ pc = "error" => mode \in {"fail", "restart"}
      /\ lock # "free" => batch = frags
      /\ lock = "main" => pc \in {"adding", "boundary", "close", "down"}
      /\ mode = "body" /\ Finished => pc \in {"done", "ended", "down"}
  BY DEF WriterFacts, TextInv, BufferInv, RowInv
<1>c. /\ ~(troubles < MaxStoreFaults) /\ ~CommandTrouble
      /\ \A e : AppendRetry(e) \/ AppendRaises(e) => FALSE
      /\ \A es : Abandoned(es) =>
           /\ late' = late
           /\ \/ store' = store
              \/ \E e \in es : store' = Appended(store, e)
              \/ pc = "done" /\ store' = Terminated(store, row.seq)
  BY <1>a, QuietStore
<1>d. QuietInv' <=>
      /\ late' = {} /\ ~failure'
      /\ timer' => frags' # <<>>
      /\ lock' # "free" => ~timer'
      /\ pc' \in Finalizing \/ Finished' => lock' = "free" /\ frags' = <<>>
      /\ mode' # "direct"
      /\ pc' = "gone" \/ mode' \in {"cancel", "shutdown"} => cancels' > 0
      /\ mode' = "restart" => pc' \in Finalizing \cup {"down"}
      /\ Finished' =>
           pc' \in {"done", "ended", "down", "gone"} \/ mode' \in {"cancel", "shutdown"}
      /\ pc' = "metadata" => local' = 0
      /\ last' = 0 => local' = 0 /\ out' = <<>>
      /\ pc' \in {"agent", "adding", "boundary", "event"} => last' > 0
      /\ mode' \in {"body", "fail"} /\ pc' \notin {"down", "ended", "gone"} =>
           out' \o frags' = Text(IF Joining' THEN local' - 1 ELSE local')
      /\ cancels' = 0 => Begins(out', local')
      /\ pubSeq' <= last'
      /\ pc' = "error" /\ mode' = "restart" => snap'.out = out'
      /\ pc' = "commit" => CommitSnap' = [seq |-> last', out |-> out']
      /\ Finished' => row'.out = TextUpTo(store', row'.seq)
  BY DEF QuietInv, QuietBuffer, QuietTask, QuietText, QuietRow
<1>e. /\ Joining = (pc = "adding" /\ lock # "main")
      /\ Joining' = (pc' = "adding" /\ lock' # "main")
      /\ Finished = (row.status # "active") /\ Finished' = (row'.status # "active")
      /\ CommitSnap = IF mode = "restart" /\ pubSeq # 0 THEN [snap EXCEPT !.seq = pubSeq]
                                                        ELSE snap
      /\ CommitSnap' = IF mode' = "restart" /\ pubSeq' # 0
                         THEN [snap' EXCEPT !.seq = pubSeq'] ELSE snap'
  BY DEF Joining, Finished, CommitSnap
<1>f. \* an append of the task
      ASSUME NEW e \in AppendableType, AppendOk(e)
      PROVE  /\ last' = last + 1 /\ last' > 0 /\ out' = out \o e.text
             /\ pubSeq' = last' /\ late' = late
  <2>1. /\ store'.last = store.last + 1 /\ store'.output = store.output \o e.text
        /\ pubSeq' = store.last + 1 /\ late' = late
    BY <1>f DEF AppendOk, Appended
  <2> QED BY <1>0, <2>1
<1>g. \* the terminal script
      ASSUME store' = Terminated(store, row.seq)
      PROVE  out' = out /\ last <= last' /\ last' \in Nat /\ Up(store') = Up(store)
  <2>1. Terminated(store, row.seq).output = store.output
    BY <1>0, TerminatedParts
  <2>2. Terminated(store, row.seq) \in StoreType BY <1>0, TerminatedType
  <2>3. last <= last' /\ Up(store') = Up(store)
    BY <1>0, <1>g, TextAfterTerminated
  <2> QED BY <1>g, <2>1, <2>2, <2>3 DEF StoreType
<1>h. out \o <<>> = out /\ Finalizing = {"error", "snapshot", "commit", "done", "ended"}
  BY <1>0 DEF Finalizing
<1>k. /\ Begins(Text(local), local)
      /\ Joining => Begins(Text(local - 1), local)
      /\ \A t : Begins(t, local) => Begins(t, local + 1)
  BY <1>0, <1>e, TextBegins
<1>i. /\ Event("token", batch, 0) \in AppendableType /\ Event("token", batch, 0).text = batch
      /\ Event("event", <<>>, 0) \in AppendableType /\ Event("event", <<>>, 0).text = <<>>
      /\ Event("error", <<>>, 0) \in AppendableType /\ Event("error", <<>>, 0).text = <<>>
      /\ Event("event", <<>>, local) \in AppendableType
      /\ Event("event", <<>>, local).text = <<>>
      /\ InFlight \subseteq AppendableType
  BY AppendableEvents DEF WriterFacts, WriterInv, Event
<1> HIDE DEF out, last, Up
<1>1. CASE Metadata \/ AgentEvent
  <2>1. PICK e \in AppendableType : AppendOk(e) /\ e.text = <<>>
    BY <1>1, <1>c, <1>i DEF Metadata, AgentEvent, PublishEvent
  <2>2. /\ pc \in {"metadata", "event"} /\ pc' = "agent" /\ mode' = mode /\ row' = row
        /\ local' = local /\ frags' = frags /\ lock' = lock /\ timer' = timer
        /\ failure' = failure /\ cancels' = cancels
    BY <1>1, <1>c DEF Metadata, AgentEvent, PublishEvent
  <2>3. out' = out /\ last' > 0 /\ last' # 0 /\ pubSeq' <= last' /\ late' = late
    <3>1. /\ last' = last + 1 /\ out' = out \o e.text /\ pubSeq' = last' /\ late' = late
      BY <1>f, <2>1
    <3>2. last' > 0 /\ last' # 0 /\ pubSeq' <= last' BY <1>n, <3>1
    <3> QED BY <1>h, <2>1, <3>1, <3>2
  <2>4. mode = "body" /\ ~Finished /\ ~Finished' BY <1>b, <1>e, <2>2
  <2> QED BY <1>a, <1>d, <1>e, <1>h, <2>2, <2>3, <2>4
<1>2. CASE Error
  <2>1. AppendOk(Event("error", <<>>, 0))
    BY <1>2, <1>c DEF Error, PublishEvent
  <2>2. /\ pc = "error" /\ mode' = mode /\ row' = row /\ snap' = snap
        /\ pc' = IF mode = "restart" THEN "commit" ELSE "snapshot"
        /\ local' = local /\ frags' = frags /\ lock' = lock /\ timer' = timer
        /\ failure' = failure /\ cancels' = cancels
    BY <1>2, <1>c DEF Error, PublishEvent
  <2>3. out' = out /\ last' # 0 /\ pubSeq' = last' /\ late' = late /\ last' \in Nat
    <3>1. /\ last' = last + 1 /\ out' = out \o Event("error", <<>>, 0).text
          /\ pubSeq' = last' /\ late' = late
      BY <1>f, <1>i, <2>1
    <3>2. last' # 0 /\ last' \in Nat BY <1>n, <3>1
    <3> QED BY <1>h, <1>i, <3>1, <3>2
  <2>4. mode \in {"fail", "restart"} /\ ~Finished /\ ~Finished' BY <1>a, <1>b, <1>e, <2>2
  <2>5. pc' = "commit" => CommitSnap' = [seq |-> last', out |-> out']
    <3>1. pc' = "commit" => mode = "restart" /\ snap.out = out BY <1>a, <2>2, <2>4
    <3> QED BY <1>0, <1>e, <2>2, <2>3, <3>1
  <2> QED BY <1>a, <1>d, <1>e, <1>h, <2>2, <2>3, <2>4, <2>5
<1>3. CASE AgentNext
  <2>1. /\ pc = "agent" /\ mode' = mode /\ row' = row /\ store' = store /\ late' = late
        /\ frags' = frags /\ lock' = lock /\ timer' = timer /\ failure' = failure
        /\ cancels' = cancels /\ pubSeq' = pubSeq /\ out' = out /\ last' = last
        /\ \/ pc' = "adding" /\ local' = local + 1
           \/ pc' \in {"boundary", "close"} /\ local' = local
    BY <1>3 DEF AgentNext, out, last
  <2>2. mode = "body" /\ ~Finished /\ ~Finished' BY <1>b, <1>e, <2>1
  <2>3. local' = local + 1 => local' - 1 = local
    BY <1>n
  <2>4. last # 0
    BY <1>a, <1>n, <2>1
  <2>5. Begins(out, local) => Begins(out, local')
    BY <1>k, <2>1
  <2> QED BY <1>a, <1>b, <1>d, <1>e, <1>h, <2>1, <2>2, <2>3, <2>4, <2>5
<1>4. CASE AgentRaises
  <2>1. /\ pc = "agent" /\ mode = "body" /\ mode' = "fail" /\ pc' = "close" /\ row' = row
        /\ store' = store /\ late' = late /\ local' = local
        /\ frags' = frags /\ lock' = lock /\ timer' = timer /\ failure' = failure
        /\ cancels' = cancels /\ pubSeq' = pubSeq /\ out' = out /\ last' = last
    BY <1>4, <1>b DEF AgentRaises, RaiseTo, out, last
  <2>2. ~Finished /\ ~Finished' BY <1>b, <1>e, <2>1
  <2> QED BY <1>a, <1>d, <1>e, <1>h, <2>1, <2>2
<1>5. CASE Add
  <2>1. /\ pc = "adding" /\ mode = "body" /\ mode' = mode /\ row' = row /\ lock = "free"
        /\ store' = store /\ late' = late /\ local' = local /\ failure' = failure
        /\ cancels' = cancels /\ pubSeq' = pubSeq /\ out' = out /\ last' = last
        /\ frags' = Append(frags, local)
        /\ \/ lock' = "main" /\ timer' = FALSE /\ pc' = "adding"
           \/ lock' = "free" /\ pc' = "agent"
    BY <1>5, <1>b DEF Add, BufferFree, FlushBy, out, last
  <2>2. ~Finished /\ ~Finished' BY <1>b, <1>e, <2>1
  <2>3. frags' # <<>> BY <1>0, <2>1
  <2>4. out' \o frags' = Text(local)
    <3>0. local > 0 /\ Joining BY <1>0, <1>e, <2>1
    <3>1. out \o frags = Text(local - 1) /\ local - 1 \in Nat /\ (local - 1) + 1 = local
      <4>1. out \o frags = Text(local - 1) BY <1>a, <2>1, <3>0
      <4>2. local - 1 \in Nat /\ (local - 1) + 1 = local BY <1>n, <3>0
      <4> QED BY <4>1, <4>2
    <3>2. Append(Text(local - 1), local) = Text(local) BY <3>1, TextGrows
    <3>3. out \o Append(frags, local) = Append(out \o frags, local) BY <1>0, ConcatOneMore
    <3> QED BY <2>1, <3>1, <3>2, <3>3
  <2> QED BY <1>a, <1>d, <1>e, <1>h, <2>1, <2>2, <2>3, <2>4
<1>6. CASE FlushNothing
  <2>1. /\ frags = <<>> /\ pc \in {"boundary", "close"} /\ pc' = FlushReturns
        /\ lock = "free" /\ mode' = mode /\ row' = row
        /\ store' = store /\ late' = late /\ local' = local /\ frags' = frags
        /\ lock' = lock /\ timer' = timer /\ failure' = failure
        /\ cancels' = cancels /\ pubSeq' = pubSeq /\ out' = out /\ last' = last
    BY <1>6 DEF FlushNothing, FlushCalled, BufferFree, MustPublish, out, last
  <2>2. /\ pc = "boundary" => pc' = "event"
        /\ pc = "close" => pc' \in {"error", "down", "snapshot"}
        /\ pc = "close" /\ pc' = "error" => mode = "fail"
        /\ mode # "restart"
    BY <1>a, <1>b, <1>h, <2>1, FlushGoesOn
  <2>3. Finished' = Finished /\ (Finished => mode \in {"cancel", "shutdown"})
    BY <1>a, <1>b, <1>e, <2>1
  <2> QED BY <1>a, <1>d, <1>e, <1>h, <2>1, <2>2, <2>3 DEF Up
<1>7. CASE FlushStarts \/ TimerFires
  <2>1. /\ frags # <<>> /\ pc' = pc /\ lock = "free" /\ mode' = mode /\ row' = row
        /\ store' = store /\ late' = late /\ local' = local /\ frags' = frags
        /\ timer' = FALSE /\ failure' = failure
        /\ cancels' = cancels /\ pubSeq' = pubSeq /\ out' = out /\ last' = last
        /\ lock' \in {"main", "timer"} /\ (lock' = "main" => pc # "adding")
    BY <1>7, <1>a DEF FlushStarts, FlushCalled, TimerFires, BufferFree, MustPublish, FlushBy,
                      out, last
  <2>2. pc \notin Finalizing /\ ~Finished /\ ~Finished' BY <1>a, <1>e, <2>1
  <2>3. Joining' = Joining BY <1>e, <2>1
  <2> QED BY <1>a, <1>d, <1>h, <2>1, <2>2, <2>3
<1>8. CASE StoredFailure
  BY <1>8, <1>a DEF StoredFailure
<1>9. CASE FlushPublishes
  <2>1. AppendOk(Event("token", batch, 0)) /\ lock # "free" /\ pc # "down"
    BY <1>9, <1>c DEF FlushPublishes
  <2>2. /\ frags' = <<>> /\ lock' = "free" /\ timer' = timer /\ failure' = failure
        /\ mode' = mode /\ row' = row /\ local' = local /\ cancels' = cancels /\ snap' = snap
        /\ pc' = IF lock = "main" THEN FlushReturns ELSE pc
    BY <1>9, <1>c DEF FlushPublishes
  <2>3. out' = out \o frags /\ last' > 0 /\ last' # 0 /\ pubSeq' <= last' /\ late' = late
    <3>1. /\ last' = last + 1 /\ out' = out \o Event("token", batch, 0).text
          /\ pubSeq' = last' /\ late' = late
      BY <1>f, <1>i, <2>1
    <3>2. last' > 0 /\ last' # 0 /\ pubSeq' <= last' BY <1>n, <3>1
    <3>3. batch = frags BY <1>b, <2>1
    <3> QED BY <1>i, <3>1, <3>2, <3>3
  <2>4. pc \notin Finalizing /\ ~Finished /\ ~Finished' /\ ~timer /\ mode # "restart"
    BY <1>a, <1>e, <1>h, <2>1, <2>2
  <2>5. out' \o <<>> = out'
    BY <1>0, <2>3
  <2>6. /\ mode \in {"body", "fail"} /\ pc \notin {"down", "ended", "gone"} =>
             out' = Text(IF Joining THEN local - 1 ELSE local)
        /\ Joining' = Joining
    <3>1. lock = "main" => pc' # "adding" BY <1>b, <2>1, <2>2, FlushGoesOn
    <3>2. Joining' = Joining BY <1>0, <1>e, <2>1, <2>2, <3>1
    <3> QED BY <1>a, <2>3, <3>2
  <2>7. cancels = 0 => Begins(out', local)
    <3>1. cancels = 0 => mode \in {"body", "fail"} /\ pc \notin {"down", "ended", "gone"}
      BY <1>0, <1>a, <1>h, <2>1, <2>4 DEF Modes
    <3> QED BY <1>k, <2>6, <3>1
  <2>8. /\ pc' = "gone" => pc = "gone"
        /\ pc' \in {"commit", "metadata"} => pc' = pc
        /\ pc' \in {"agent", "adding", "boundary", "event", "close", "error", "snapshot",
                    "down", "gone", "metadata"}
    BY <1>0, <1>b, <1>h, <2>1, <2>2, <2>4, FlushGoesOn DEF WriterFacts, WriterInv, WriterTypeOK
  <2>9. mode \in {"body", "fail"} /\ pc' \notin {"down", "ended", "gone"} =>
           pc \notin {"down", "ended", "gone"}
    BY <1>b, <1>h, <2>1, <2>2, <2>4
  <2> QED BY <1>a, <1>d, <1>h, <2>2, <2>3, <2>4, <2>5, <2>6, <2>7, <2>8, <2>9
<1>10. CASE Snapshot
  <2>1. /\ pc = "snapshot" /\ mode' = mode /\ row' = row
        /\ store' = store /\ late' = late /\ local' = local /\ frags' = frags
        /\ lock' = lock /\ timer' = timer /\ failure' = failure
        /\ cancels' = cancels /\ pubSeq' = pubSeq /\ out' = out /\ last' = last
        /\ pc' = IF mode = "restart" THEN "error" ELSE "commit"
        /\ snap' = IF HasSnapshot(store)
                     THEN [seq |-> SnapSeq(FallbackSnap.seq, store.last), out |-> SnapOutput]
                     ELSE FallbackSnap
    BY <1>10, <1>c DEF Snapshot, out, last
  <2>2. frags = <<>> /\ ~Joining /\ ~Joining' BY <1>a, <1>e, <1>h, <2>1
  <2>3. mode = "restart" => snap'.out = out
    BY <1>a, <2>1 DEF FallbackSnap, NoSnap, SnapOutput, HasSnapshot, out, last
  <2>4. mode # "restart" => snap' = [seq |-> last, out |-> out]
    <3>1. CASE last = 0 /\ mode # "restart"
      <4>1. pubSeq = 0 /\ local = 0 /\ out = <<>> /\ Text(local) = <<>>
        BY <1>0, <1>a, <3>1, TextGrows
      <4> QED BY <1>a, <2>1, <3>1, <4>1 DEF FallbackSnap, HasSnapshot, last
    <3>2. CASE last # 0 /\ mode # "restart"
      <4>1. FallbackSnap.seq = pubSeq BY <1>a, <3>2 DEF FallbackSnap
      <4>2. SnapSeq(pubSeq, last) = last BY <1>0, <1>a DEF SnapSeq
      <4>3. SnapOutput = out
        <5>1. mode = "fail" => out \o frags = Text(local)
          BY <1>a, <2>1, <2>2
        <5>2. mode = "fail" => Text(local) = out BY <1>h, <2>2, <5>1
        <5> QED BY <5>2 DEF SnapOutput, out
      <4> QED BY <2>1, <3>2, <4>1, <4>2, <4>3 DEF HasSnapshot, last
    <3> QED BY <3>1, <3>2
  <2>5. Finished' = Finished BY <1>e, <2>1
  <2>6. pc' = "commit" => CommitSnap' = [seq |-> last', out |-> out']
    BY <1>e, <2>1, <2>4
  <2>7. Finished => mode \in {"cancel", "shutdown"} BY <1>a, <2>1
  <2> QED BY <1>a, <1>d, <1>h, <2>1, <2>2, <2>3, <2>5, <2>6, <2>7 DEF Up
<1>11. CASE Commit
  <2>1. /\ pc = "commit" /\ mode' = mode /\ pc' = "done"
        /\ store' = store /\ late' = late /\ local' = local /\ frags' = frags
        /\ lock' = lock /\ timer' = timer /\ failure' = failure
        /\ cancels' = cancels /\ pubSeq' = pubSeq /\ out' = out /\ last' = last
        /\ row' = IF Finished THEN row ELSE Committed(CommitSnap)
    BY <1>11, <1>c DEF Commit, FinalizeRow, out, last
  <2>2. frags = <<>> /\ ~Joining /\ ~Joining' /\ lock = "free" BY <1>a, <1>e, <1>h, <2>1
  <2>3. Finished' => row'.out = TextUpTo(store', row'.seq)
    <3>1. CASE Finished
      BY <1>a, <2>1, <3>1 DEF Up
    <3>2. CASE ~Finished
      <4>1. CommitSnap = [seq |-> last, out |-> out] BY <1>a, <2>1
      <4>2. row'.seq = last + 1 /\ row'.out = out BY <2>1, <3>2, <4>1 DEF Committed
      <4>3. last + 1 \in Nat /\ last <= last + 1 BY <1>0
      <4>4. TextUpTo(store, last + 1) = TextUpTo(store, last)
        BY <1>0, <4>3, TextPastEnd DEF last
      <4> QED BY <2>1, <4>2, <4>4 DEF out, last
    <3> QED BY <3>1, <3>2
  <2> QED BY <1>a, <1>d, <1>h, <2>1, <2>2, <2>3
<1>12. CASE AppendDone
  <2>1. /\ pc = "done" /\ mode' = mode /\ pc' = "ended" /\ row' = row
        /\ late' = late /\ local' = local /\ frags' = frags
        /\ lock' = lock /\ timer' = timer /\ failure' = failure
        /\ cancels' = cancels /\ pubSeq' = pubSeq
        /\ store' = Terminated(store, row.seq)
    BY <1>12, <1>c DEF AppendDone
  <2>2. out' = out /\ last <= last' /\ last' \in Nat /\ Up(store') = Up(store)
    BY <1>g, <2>1
  <2>3. (last' = 0 => last = 0) /\ pubSeq <= last' BY <1>a, <1>n, <2>2
  <2>4. Finished' = Finished BY <1>e, <2>1
  <2> QED BY <1>a, <1>d, <1>h, <2>1, <2>2, <2>3, <2>4 DEF Up
<1>13. CASE LateAppend
  BY <1>13, <1>a DEF LateAppend
<1>14. CASE CancelBody \/ CancelHandler
  <2>1. /\ cancels = 0 /\ cancels' = 1 /\ mode \in {"body", "fail"}
        /\ pc \notin {"ended", "gone", "down"}
    <3>1. cancels < MaxCancels /\ cancels' = cancels + 1 /\ pc \notin {"ended", "gone", "down"}
          /\ mode \in {"body", "cancel", "fail"}
      BY <1>14 DEF CancelBody, CancelHandler, CancelTask
    <3>3. cancels = 0 BY <1>n, <3>1
    <3> QED BY <1>a, <3>1, <3>3
  <2>2. /\ row' = row /\ local' = local /\ frags' = frags /\ timer' = timer
        /\ failure' = failure /\ pubSeq' = pubSeq
        /\ lock' = IF lock = "main" THEN "free" ELSE lock
        /\ mode' \in {"cancel", "shutdown", "fail"}
        /\ \/ pc' = "close" /\ mode' \in {"cancel", "shutdown"}
           \/ pc' \in {"gone", "down"} /\ mode' = "fail"
    BY <1>14, <2>1 DEF CancelBody, CancelHandler, CancelTask
  <2>3. Abandoned(IF lock = "timer" THEN {} ELSE InFlight)
    BY <1>14 DEF CancelBody, CancelHandler, CancelTask
  <2>4. /\ late' = late
        /\ \/ store' = store
           \/ \E e \in InFlight : store' = Appended(store, e)
           \/ pc = "done" /\ store' = Terminated(store, row.seq)
    BY <1>c, <2>3
  <2>5. Finished => lock = "free" /\ pc = "done" /\ InFlight = {}
    <3>1. Finished => lock = "free" /\ pc = "done"
      BY <1>a, <2>1
    <3> QED BY <3>1 DEF InFlight
  <2>6. /\ last <= last' /\ (last' = 0 => last = 0 /\ out' = out)
        /\ Finished => Up(store') = Up(store)
    <3>1. CASE store' = store BY <1>0, <3>1 DEF last, out
    <3>2. CASE \E e \in InFlight : store' = Appended(store, e)
      <4>1. last' = last + 1 /\ ~Finished BY <2>5, <3>2 DEF Appended, last
      <4> QED BY <1>n, <4>1
    <3>3. CASE pc = "done" /\ store' = Terminated(store, row.seq)
      BY <1>0, <1>g, <3>3
    <3> QED BY <2>4, <3>1, <3>2, <3>3
  <2>7. pubSeq <= last' /\ Finished' = Finished
    <3>1. last' \in Nat
      <4>1. CASE store' = store BY <1>0, <4>1 DEF last
      <4>2. CASE \E e \in InFlight : store' = Appended(store, e)
        BY <1>0, <4>2 DEF Appended, last
      <4>3. CASE pc = "done" /\ store' = Terminated(store, row.seq)
        BY <1>0, <1>g, <4>3
      <4> QED BY <2>4, <4>1, <4>2, <4>3
    <3> QED BY <1>0, <1>a, <1>e, <2>2, <2>6, <3>1
  <2> QED BY <1>a, <1>d, <1>h, <2>1, <2>2, <2>4, <2>5, <2>6, <2>7 DEF Up
<1>15. CASE DirectCancel
  <2>1. cancels > 0 /\ cancels < MaxCancels BY <1>15, <1>a DEF DirectCancel
  <2> QED BY <1>n, <2>1
<1>16. CASE Crash
  <2>1. /\ row' = row /\ local' = local /\ frags' = frags /\ timer' = timer /\ lock' = lock
        /\ failure' = failure /\ pubSeq' = pubSeq /\ mode' = mode /\ cancels' = cancels
        /\ pc' = "down" /\ pc # "down" /\ Abandoned(InFlight)
    BY <1>16 DEF Crash
  <2>2. /\ late' = late
        /\ \/ store' = store
           \/ \E e \in InFlight : store' = Appended(store, e)
           \/ pc = "done" /\ store' = Terminated(store, row.seq)
    BY <1>c, <2>1
  <2>3. Finished => InFlight = {}
    <3>1. Finished => lock = "free" /\ pc \notin {"metadata", "event", "error"}
      BY <1>a, <1>b
    <3> QED BY <3>1 DEF InFlight
  <2>4. CASE store' = store
    <3>1. out' = out /\ last' = last /\ Finished' = Finished BY <1>e, <2>1, <2>4 DEF out, last
    <3> QED BY <1>a, <1>d, <1>h, <2>1, <2>2, <2>4, <3>1 DEF Up
  <2>5. CASE \E e \in InFlight : store' = Appended(store, e)
    <3>1. PICK e \in InFlight : store' = Appended(store, e) BY <2>5
    <3>2. /\ ~Finished /\ ~Finished' BY <1>e, <2>1, <2>3, <3>1
    <3>3. last' = last + 1 /\ out' = out \o e.text BY <3>1 DEF Appended, last, out
    <3>4. last' # 0 /\ pubSeq <= last' BY <1>a, <1>n, <3>3
    <3>5. cancels = 0 => Begins(out', local)
      <4>1. CASE lock = "free"
        <5>1. e.text = <<>> BY <1>i, <3>1, <4>1 DEF InFlight
        <5> QED BY <1>a, <1>h, <3>3, <5>1
      <4>2. CASE lock # "free"
        <5>1. InFlight \subseteq {Event("token", batch, 0), Event("event", <<>>, 0),
                                  Event("event", <<>>, local), Event("error", <<>>, 0)}
          BY <4>2 DEF InFlight
        <5>4. e.text = frags \/ e.text = <<>> BY <1>b, <1>i, <3>1, <4>2, <5>1
        <5>2. cancels = 0 => mode \in {"body", "fail"} /\ pc \notin {"down", "ended", "gone"}
          BY <1>0, <1>a, <1>h, <2>1, <4>2 DEF Modes
        <5> QED BY <1>a, <1>h, <1>k, <3>3, <5>2, <5>4
      <4> QED BY <4>1, <4>2
    <3> QED BY <1>a, <1>d, <1>h, <2>1, <2>2, <3>2, <3>4, <3>5
  <2>6. CASE pc = "done" /\ store' = Terminated(store, row.seq)
    <3>1. out' = out /\ last <= last' /\ last' \in Nat /\ Up(store') = Up(store)
      BY <1>g, <2>6
    <3>2. (last' = 0 => last = 0) /\ pubSeq <= last' /\ Finished' = Finished
      <4>1. (last' = 0 => last = 0) /\ pubSeq <= last' BY <1>a, <1>n, <3>1
      <4> QED BY <1>e, <2>1, <4>1
    <3> QED BY <1>a, <1>d, <1>h, <2>1, <2>2, <3>1, <3>2 DEF Up
  <2> QED BY <2>2, <2>4, <2>5, <2>6
<1>17. CASE Restart
  <2>1. /\ row' = row /\ store' = store /\ late' = late /\ local' = local
        /\ frags' = <<>> /\ timer' = FALSE /\ lock' = "free" /\ failure' = FALSE
        /\ pubSeq' = 0 /\ cancels' = cancels /\ out' = out /\ last' = last
        /\ \/ Finished /\ pc' = "ended" /\ mode' = mode
           \/ ~Finished /\ pc' = "snapshot" /\ mode' = "restart"
    BY <1>17 DEF Restart, out, last
  <2>2. Finished' = Finished BY <1>e, <2>1
  <2> QED BY <1>0, <1>a, <1>d, <1>h, <2>1, <2>2 DEF Up
<1>18. CASE UNCHANGED writerVars
  <2>1. /\ row' = row /\ store' = store /\ late' = late /\ local' = local /\ mode' = mode
        /\ frags' = frags /\ timer' = timer /\ lock' = lock /\ failure' = failure
        /\ pubSeq' = pubSeq /\ cancels' = cancels /\ out' = out /\ last' = last /\ pc' = pc
        /\ snap' = snap
    BY <1>18 DEF writerVars, out, last
  <2>2. Finished' = Finished /\ Joining' = Joining /\ CommitSnap' = CommitSnap
    BY <1>e, <2>1
  <2> QED BY <1>a, <1>d, <2>1, <2>2 DEF Up
<1> QED BY <1>1, <1>2, <1>3, <1>4, <1>5, <1>6, <1>7, <1>8, <1>9, <1>10, <1>11, <1>12, <1>13,
           <1>14, <1>15, <1>16, <1>17, <1>18 DEF WriterNext, TaskStep

\* The facts about the writer, the follower and the quiet text hold together.
LEMMA QuietHolds ==
  ASSUME Quiet
  PROVE  Spec => [](WriterFacts /\ FollowInv /\ QuietInv)
<1>1. FollowerInit => QuietInv
  BY InitQuiet
<1>2. (WriterFacts /\ FollowInv) /\ QuietInv /\ [Next]_vars => QuietInv'
  <2> SUFFICES ASSUME WriterFacts, FollowInv, QuietInv, [Next]_vars PROVE QuietInv'
    OBVIOUS
  <2>1. store.output = TextUpTo(store, store.last) BY DEF FollowInv
  <2>2. [WriterNext]_writerVars BY DEF Next, WriterStep, vars
  <2> QED BY <2>1, <2>2, NextQuiet
<1> QED BY <1>1, <1>2, FollowInvHolds, PTL DEF Spec

\* Without lost replies, and with at most one cancellation, the output the row
\* keeps is the text of the stream up to the committed sequence, whoever finalized
\* the run and however often the process crashed (_finalize_run).
THEOREM FinalOutputMatchesStream ==
  ASSUME MaxStoreFaults = 0, MaxLate = 0, MaxCancels <= 1
  PROVE  Spec => []FinalOutputIsStream
<1>1. Quiet
  BY DEF Quiet
<1>2. QuietInv => FinalOutputIsStream
  BY DEF QuietInv, QuietRow, FinalOutputIsStream, TextUpTo, Pieces, StreamText
<1> QED BY <1>1, <1>2, QuietHolds, PTL

\* Without lost replies and cancellations the text of the stream is what the agent
\* emitted so far, whatever the size limit, the timer, the boundaries and crashes do
\* (_TokenEventBuffer).
THEOREM BatchingKeepsText ==
  ASSUME MaxStoreFaults = 0, MaxLate = 0, MaxCancels = 0
  PROVE  Spec => []BatchingIsExact
<1>1. Quiet
  BY DEF Quiet
<1>2. WriterFacts /\ FollowInv /\ QuietInv => BatchingIsExact
  <2> SUFFICES ASSUME WriterFacts, FollowInv, QuietInv PROVE BatchingIsExact
    OBVIOUS
  <2>1. cancels = 0 /\ local \in Nat
    BY EventsAssumption DEF WriterFacts, WriterInv, WriterTypeOK
  <2>2. PICK k \in 0..local : store.output = Text(k)
    BY <2>1 DEF QuietInv, QuietText, Begins
  <2>3. StreamText(store.last) = Text(k)
    BY <2>2 DEF FollowInv, TextUpTo, Pieces, StreamText
  <2>4. IsPrefix(Text(k), Text(local))
    <3>1. k \in Nat /\ k <= local BY <2>1
    <3>2. /\ Text(k) \in Seq(Nat) /\ Len(Text(k)) = k
          /\ Text(local) \in Seq(Nat) /\ Len(Text(local)) = local
      BY <2>1, <3>1, SeqDef DEF Text
    <3>3. Text(k) = [i \in 1..k |-> Text(local)[i]]
      BY <2>1, <3>1 DEF Text
    <3> QED BY <3>1, <3>2, <3>3 DEF IsPrefix
  <2> QED BY <2>3, <2>4 DEF BatchingIsExact
<1> QED BY <1>1, <1>2, QuietHolds, PTL
=============================================================================
