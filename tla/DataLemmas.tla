----------------------------- MODULE DataLemmas -----------------------------
(***************************************************************************)
(* Lemmas about the data of the models.                                    *)
(*                                                                         *)
(* The three operations on queues -- take the first element, add one at    *)
(* the end, add one at the head: what they do to the positions and to the  *)
(* set of elements of a queue.                                             *)
(*                                                                         *)
(* Sets of natural numbers: each has a least element, and a bounded one a  *)
(* greatest.  These stand for induction: a formula that fails for some     *)
(* number fails for a least one.  Recursion, which rests on that, says     *)
(* that a recursive function has the values its definition gives, on       *)
(* numbers and on trees, whose children are less deep than they.           *)
(*                                                                         *)
(* Parts of sequences and FlattenSeq, which is such a function.            *)
(*                                                                         *)
(* Division of integers: quotient and remainder are unique, a divisor may  *)
(* be split in factors, and numbers a multiple apart have one remainder.   *)
(***************************************************************************)
EXTENDS Integers, Sequences, SequencesExt, SequenceTheorems, FiniteSets, FiniteSetTheorems,
        WellFoundedInduction, TLAPS

\* The length and the elements of a sequence.
LEMMA SeqFacts ==
    ASSUME NEW S, NEW q \in Seq(S)
    PROVE  Len(q) \in Nat /\ DOMAIN q = 1..Len(q) /\ \A i \in 1..Len(q) : q[i] \in S
  BY LenProperties, ElementOfSeq

\* What taking the first element of a queue leaves.
LEMMA TailFacts ==
    ASSUME NEW S, NEW q \in Seq(S), q # <<>>
    PROVE  /\ Head(q) \in S /\ Head(q) = q[1]
           /\ Tail(q) \in Seq(S)
           /\ DOMAIN q = 1..Len(q) /\ Len(q) \in Nat \ {0}
           /\ DOMAIN Tail(q) = 1..(Len(q) - 1)
           /\ \A i \in 1..(Len(q) - 1) : Tail(q)[i] = q[i + 1]
<1>1. /\ Head(q) \in S /\ Tail(q) \in Seq(S) /\ Len(Tail(q)) = Len(q) - 1
      /\ \A i \in 1..Len(Tail(q)) : Tail(q)[i] = q[i + 1]
  BY HeadTailProperties
<1>2. Len(q) \in Nat \ {0} /\ DOMAIN q = 1..Len(q)
  BY EmptySeq, LenProperties
<1>3. DOMAIN Tail(q) = 1..Len(Tail(q))
  BY <1>1, LenProperties
<1>. QED BY <1>1, <1>2, <1>3

\* What adding an element at the end of a queue makes of it.
LEMMA AppendFacts ==
    ASSUME NEW S, NEW q \in Seq(S), NEW e \in S
    PROVE  /\ Append(q, e) \in Seq(S)
           /\ Append(q, e) # <<>>
           /\ Len(q) \in Nat /\ DOMAIN q = 1..Len(q)
           /\ DOMAIN Append(q, e) = 1..(Len(q) + 1)
           /\ \A i \in 1..Len(q) : Append(q, e)[i] = q[i]
           /\ Append(q, e)[Len(q) + 1] = e
  OBVIOUS

\* What adding an element at the head of a queue makes of it.
LEMMA ConsFacts ==
    ASSUME NEW S, NEW q \in Seq(S), NEW e \in S
    PROVE  /\ <<e>> \o q \in Seq(S)
           /\ <<e>> \o q # <<>>
           /\ Len(q) \in Nat /\ DOMAIN q = 1..Len(q)
           /\ DOMAIN (<<e>> \o q) = 1..(Len(q) + 1)
           /\ (<<e>> \o q)[1] = e
           /\ \A i \in 2..(Len(q) + 1) : (<<e>> \o q)[i] = q[i - 1]
  OBVIOUS

\* Membership in the set of a queue's elements.
LEMMA ToSetDef == \A q, x : x \in ToSet(q) <=> \E i \in DOMAIN q : x = q[i]
  BY DEF ToSet

\* Every element of a queue is of the queue's type, and an empty one has none.
LEMMA ToSetFacts ==
    ASSUME NEW S, NEW q \in Seq(S)
    PROVE  ToSet(q) \subseteq S /\ (ToSet(q) = {} <=> q = <<>>)
<1>1. DOMAIN q = 1..Len(q) /\ Len(q) \in Nat /\ \A i \in 1..Len(q) : q[i] \in S
  BY LenProperties, ElementOfSeq
<1>2. q # <<>> => Len(q) \in Nat \ {0}
  BY EmptySeq
<1>3. q = <<>> => DOMAIN q = {}
  BY EmptySeq, <1>1
<1>4. q # <<>> => q[1] \in ToSet(q)
  BY <1>1, <1>2, ToSetDef
<1>5. q = <<>> => ToSet(q) = {}
  BY <1>3, ToSetDef
<1>. QED BY <1>1, <1>4, <1>5, ToSetDef

\* The elements of a non-empty queue are its first and those of the rest.
LEMMA TailElements ==
    ASSUME NEW S, NEW q \in Seq(S), q # <<>>
    PROVE  /\ \A x : x \in ToSet(q) <=> x \in ToSet(Tail(q)) \/ x = Head(q)
           /\ Head(q) \in S /\ Tail(q) \in Seq(S)
<1>1. \A i \in DOMAIN q : i = 1 \/ (i - 1 \in DOMAIN Tail(q) /\ Tail(q)[i - 1] = q[i])
  BY TailFacts
<1>2. \A i \in DOMAIN Tail(q) : i + 1 \in DOMAIN q /\ Tail(q)[i] = q[i + 1]
  BY TailFacts
<1>3. Head(q) = q[1] /\ 1 \in DOMAIN q
  BY TailFacts
<1>4. ASSUME NEW x, x \in ToSet(q) PROVE x \in ToSet(Tail(q)) \/ x = Head(q)
  <2>1. PICK i \in DOMAIN q : x = q[i]
    BY <1>4, ToSetDef
  <2>. QED BY <2>1, <1>1, <1>3, ToSetDef
<1>5. ASSUME NEW x, x \in ToSet(Tail(q)) PROVE x \in ToSet(q)
  <2>1. PICK i \in DOMAIN Tail(q) : x = Tail(q)[i]
    BY <1>5, ToSetDef
  <2>. QED BY <2>1, <1>2, ToSetDef
<1>6. Head(q) \in ToSet(q)
  BY <1>3, ToSetDef
<1>. QED BY <1>4, <1>5, <1>6, TailFacts

\* Adding at the end adds one element.
LEMMA AppendElements ==
    ASSUME NEW S, NEW q \in Seq(S), NEW e \in S
    PROVE  /\ \A x : x \in ToSet(Append(q, e)) <=> x \in ToSet(q) \/ x = e
           /\ Append(q, e) \in Seq(S)
<1>1. \A i \in DOMAIN Append(q, e) : Append(q, e)[i] = e \/ (i \in DOMAIN q /\ Append(q, e)[i] = q[i])
  BY AppendFacts
<1>2. \A i \in DOMAIN q : i \in DOMAIN Append(q, e) /\ Append(q, e)[i] = q[i]
  BY AppendFacts
<1>3. \E i \in DOMAIN Append(q, e) : Append(q, e)[i] = e
  BY AppendFacts
<1>4. ASSUME NEW x, x \in ToSet(Append(q, e)) PROVE x \in ToSet(q) \/ x = e
  <2>1. PICK i \in DOMAIN Append(q, e) : x = Append(q, e)[i]
    BY <1>4, ToSetDef
  <2>. QED BY <2>1, <1>1, ToSetDef
<1>5. ASSUME NEW x, x \in ToSet(q) PROVE x \in ToSet(Append(q, e))
  <2>1. PICK i \in DOMAIN q : x = q[i]
    BY <1>5, ToSetDef
  <2>. QED BY <2>1, <1>2, ToSetDef
<1>6. e \in ToSet(Append(q, e))
  BY <1>3, ToSetDef
<1>. QED BY <1>4, <1>5, <1>6, AppendFacts

\* So does adding at the head.
LEMMA ConsElements ==
    ASSUME NEW S, NEW q \in Seq(S), NEW e \in S
    PROVE  /\ \A x : x \in ToSet(<<e>> \o q) <=> x \in ToSet(q) \/ x = e
           /\ <<e>> \o q \in Seq(S)
<1>. DEFINE r == <<e>> \o q
<1>1. \A i \in DOMAIN r : r[i] = e \/ (i - 1 \in DOMAIN q /\ r[i] = q[i - 1])
  BY ConsFacts
<1>2. \A i \in DOMAIN q : i + 1 \in DOMAIN r /\ r[i + 1] = q[i]
  BY ConsFacts
<1>3. \E i \in DOMAIN r : r[i] = e
  BY ConsFacts
<1>. HIDE DEF r
<1>4. ASSUME NEW x, x \in ToSet(r) PROVE x \in ToSet(q) \/ x = e
  <2>1. PICK i \in DOMAIN r : x = r[i]
    BY <1>4, ToSetDef
  <2>. QED BY <2>1, <1>1, ToSetDef
<1>5. ASSUME NEW x, x \in ToSet(q) PROVE x \in ToSet(r)
  <2>1. PICK i \in DOMAIN q : x = q[i]
    BY <1>5, ToSetDef
  <2>. QED BY <2>1, <1>2, ToSetDef
<1>6. e \in ToSet(r)
  BY <1>3, ToSetDef
<1>. QED BY <1>4, <1>5, <1>6, ConsFacts DEF r

\* A sequence begins with another if it is as long and has the same elements.
LEMMA PrefixFacts ==
    ASSUME NEW S, NEW s \in Seq(S), NEW t \in Seq(S)
    PROVE  IsPrefix(s, t) <=> Len(s) <= Len(t) /\ \A i \in 1..Len(s) : s[i] = t[i]
<1>1. Len(s) \in Nat /\ Len(t) \in Nat
  BY SeqFacts
<1>. SUFFICES ASSUME Len(s) <= Len(t)
              PROVE  SubSeq(s, 1, Len(s)) = SubSeq(t, 1, Len(s)) <=> \A i \in 1..Len(s) : s[i] = t[i]
  BY DEF IsPrefix
<1>2. /\ \A i \in 1..Len(s) : s[i] \in S /\ t[i] \in S
  BY <1>1, SeqFacts
<1>3. /\ SubSeq(t, 1, Len(s)) \in Seq(S) /\ Len(SubSeq(t, 1, Len(s))) = Len(s)
      /\ \A i \in 1..Len(s) : SubSeq(t, 1, Len(s))[i] = t[i]
  <2>1. /\ SubSeq(t, 1, Len(s)) \in Seq(S)
        /\ Len(SubSeq(t, 1, Len(s))) = IF 1 <= Len(s) THEN (Len(s) - 1) + 1 ELSE 0
        /\ \A i \in 1..((Len(s) - 1) + 1) : SubSeq(t, 1, Len(s))[i] = t[(1 + i) - 1]
    BY <1>1, <1>2, SubSeqProperties
  <2>. QED BY <1>1, <2>1
<1>4. SubSeq(s, 1, Len(s)) = s
  BY SubSeqFull
<1>. QED BY <1>3, <1>4, SeqEqual

-----------------------------------------------------------------------------
(* Numbers *)

\* A set of natural numbers has a least element.
LEMMA LeastNatural ==
    ASSUME NEW S \in SUBSET Nat, S # {}
    PROVE  \E m \in S : \A k \in S : m <= k
<1>. DEFINE T == {1..k : k \in S}
<1>1. T \subseteq FiniteSubsetsOf(Nat)
  <2>1. ASSUME NEW k \in S PROVE 1..k \in FiniteSubsetsOf(Nat)
    <3>1. IsFiniteSet(1..k)
      BY FS_Interval
    <3>. QED BY <3>1 DEF FiniteSubsetsOf
  <2>. QED BY <2>1
<1>2. T # {}
  OBVIOUS
<1>3. PICK x \in T : \A y \in T : <<y, x>> \notin StrictSubsetOrdering(Nat)
  <2>. HIDE DEF T
  <2>1. IsWellFoundedOn(StrictSubsetOrdering(Nat), FiniteSubsetsOf(Nat))
    BY FS_StrictSubsetOrderingWellFounded
  <2>. QED BY <1>1, <1>2, <2>1, WFMin
<1>4. PICK m \in S : x = 1..m
  OBVIOUS
<1>5. ASSUME NEW k \in S, ~(m <= k)
      PROVE  FALSE
  <2>1. k \in Nat /\ m \in Nat /\ k < m
    BY <1>5
  <2>2. 1..k \subseteq 1..m /\ m \in 1..m /\ m \notin 1..k
    BY <2>1
  <2>3. <<1..k, 1..m>> \in StrictSubsetOrdering(Nat)
    BY <2>2 DEF StrictSubsetOrdering
  <2>. QED BY <1>3, <1>4, <2>3
<1>. QED BY <1>5

\* A set of natural numbers with an upper bound has a greatest element.
LEMMA GreatestNatural ==
    ASSUME NEW S \in SUBSET Nat, S # {}, NEW n \in Nat, \A k \in S : k <= n
    PROVE  \E m \in S : \A k \in S : m >= k
<1>. DEFINE B == {b \in Nat : \A k \in S : k <= b}
<1>1. B \in SUBSET Nat /\ n \in B
  OBVIOUS
<1>2. PICK b \in B : \A c \in B : b <= c
  <2>. HIDE DEF B
  <2>. QED BY <1>1, LeastNatural
<1>3. b \in S
  <2>1. SUFFICES ASSUME b \notin S
                 PROVE  FALSE
    OBVIOUS
  <2>2. PICK k \in S : TRUE
    OBVIOUS
  <2>3. b \in Nat /\ \A j \in S : j \in Nat /\ j <= b /\ j # b
    BY <1>2, <2>1
  <2>4. b - 1 \in Nat /\ \A j \in S : j <= b - 1
    BY <2>2, <2>3
  <2>5. b - 1 \in B
    BY <2>4
  <2>. QED BY <1>2, <2>3, <2>5
<1>. QED BY <1>2, <1>3

\* SelectLastInSeq gives a position or 0.
LEMMA LastPosition ==
    ASSUME NEW S, NEW q \in Seq(S), NEW I \in SUBSET (1..Len(q))
    PROVE  (IF I # {} THEN Max(I) ELSE 0) \in 0..Len(q)
<1>1. Len(q) \in Nat
  BY LenProperties
<1>2. CASE I # {}
  <2>1. I \in SUBSET Nat /\ \A k \in I : k <= Len(q)
    BY <1>1
  <2>2. \E m \in I : \A k \in I : m >= k
    BY <1>1, <1>2, <2>1, GreatestNatural
  <2>3. Max(I) \in I
    BY <2>2 DEF Max
  <2>4. \A k \in 1..Len(q) : k \in 0..Len(q)
    BY <1>1
  <2>5. Max(I) \in 0..Len(q)
    BY <2>3, <2>4
  <2>. QED BY <1>2, <2>5
<1>3. CASE I = {}
  BY <1>1, <1>3
<1>. QED BY <1>2, <1>3

-----------------------------------------------------------------------------
(* Recursive functions *)

\* The equations of a function on D with values in V that calls itself at most
\* once: its value at x is b[x] for x in B, and otherwise what F[x] makes of its
\* value at p[x], which is of a lower rank.
RecursionOn(D, V, B, b, p, F, rank) ==
    /\ b \in [D -> V] /\ p \in [D -> D] /\ F \in [D -> [V -> V]] /\ rank \in [D -> Nat]
    /\ \A x \in D \ B : rank[p[x]] < rank[x]

\* There is a function that satisfies them.
LEMMA Recursion ==
    ASSUME NEW D, NEW V, NEW B, NEW b, NEW p, NEW F, NEW rank, RecursionOn(D, V, B, b, p, F, rank)
    PROVE  \E f \in [D -> V] : \A x \in D : f[x] = IF x \in B THEN b[x] ELSE F[x][f[p[x]]]
<1>. USE DEF RecursionOn
<1>. DEFINE Upto(n)    == {x \in D : rank[x] <= n}
            Part(g, n) == /\ g \in [Upto(n) -> V]
                          /\ \A x \in Upto(n) : g[x] = IF x \in B THEN b[x] ELSE F[x][g[p[x]]]
<1>1. \A n \in Nat : \E g : Part(g, n)
  <2>1. SUFFICES ASSUME {n \in Nat : ~ \E g : Part(g, n)} # {}
                 PROVE  FALSE
    OBVIOUS
  <2>2. PICK n \in Nat : /\ ~ \E g : Part(g, n)
                         /\ \A k \in Nat : k < n => \E g : Part(g, k)
    <3>. DEFINE Failing == {k \in Nat : ~ \E g : Part(g, k)}
    <3>1. Failing \in SUBSET Nat /\ Failing # {}
      BY <2>1
    <3>. HIDE DEF Part
    <3>2. PICK m \in Failing : \A k \in Failing : m <= k
      <4>. HIDE DEF Failing
      <4>. QED BY <3>1, LeastNatural
    <3>3. m \in Nat /\ m \in Failing /\ \A k \in Nat : k < m => k \notin Failing
      <4>. HIDE DEF Failing
      <4>. QED BY <3>1, <3>2
    <3>4. ~ (\E g : Part(g, m)) /\ \A k \in Nat : k \notin Failing => \E g : Part(g, k)
      BY <3>3
    <3>. HIDE DEF Failing
    <3>. QED BY <3>3, <3>4
  <2>3. PICK g : IF n = 0 THEN TRUE ELSE Part(g, n - 1)
    <3>. HIDE DEF Part
    <3>1. n # 0 => n - 1 \in Nat /\ n - 1 < n
      OBVIOUS
    <3>. QED BY <2>2, <3>1
  <2>. DEFINE h == [x \in Upto(n) |-> IF x \in B THEN b[x] ELSE F[x][g[p[x]]]]
  <2>4. ASSUME NEW x \in Upto(n), x \notin B
        PROVE  n # 0 /\ p[x] \in Upto(n - 1) /\ p[x] \in Upto(n) /\ x \in D
    BY <2>4
  <2>5. ASSUME NEW y \in Upto(n - 1), n # 0
        PROVE  y \in Upto(n) /\ h[y] = g[y]
    <3>1. y \in Upto(n)
      BY <2>5
    <3>. QED BY <2>3, <2>5, <3>1
  <2>6. h \in [Upto(n) -> V]
    <3>1. ASSUME NEW x \in Upto(n), x \notin B
          PROVE  F[x][g[p[x]]] \in V
      <4>1. n # 0 /\ p[x] \in Upto(n - 1) /\ x \in D
        BY <3>1, <2>4
      <4>2. g \in [Upto(n - 1) -> V]
        BY <4>1, <2>3
      <4>. HIDE DEF Upto
      <4>. QED BY <4>1, <4>2
    <3>. QED BY <3>1
  <2>7. \A x \in Upto(n) : h[x] = IF x \in B THEN b[x] ELSE F[x][h[p[x]]]
    <3>. SUFFICES ASSUME NEW x \in Upto(n)
                  PROVE  h[x] = IF x \in B THEN b[x] ELSE F[x][h[p[x]]]
      OBVIOUS
    <3>1. CASE x \in B
      BY <3>1
    <3>2. CASE x \notin B
      <4>1. h[p[x]] = g[p[x]]
        <5>. HIDE DEF h, Upto
        <5>. QED BY <2>4, <2>5, <3>2
      <4>2. h[x] = F[x][g[p[x]]]
        BY <3>2
      <4>. QED BY <3>2, <4>1, <4>2
    <3>. QED BY <3>1, <3>2
  <2>8. Part(h, n)
    <3>. HIDE DEF h, Upto
    <3>. QED BY <2>6, <2>7
  <2>. HIDE DEF Part
  <2>. QED BY <2>2, <2>8
<1>2. ASSUME NEW m \in Nat, NEW n \in Nat, NEW g, NEW h, Part(g, m), Part(h, n),
             NEW x \in D, rank[x] <= m, rank[x] <= n, g[x] # h[x]
      PROVE  FALSE
  <2>. DEFINE Apart == {k \in Nat : \E y \in D : rank[y] = k /\ k <= m /\ k <= n /\ g[y] # h[y]}
  <2>1. Apart \in SUBSET Nat /\ rank[x] \in Apart
    BY <1>2
  <2>2. PICK k \in Apart : \A j \in Apart : k <= j
    <3>. HIDE DEF Apart
    <3>. QED BY <2>1, LeastNatural
  <2>3. PICK y \in D : rank[y] = k /\ k <= m /\ k <= n /\ g[y] # h[y]
    BY <2>2
  <2>4. y \in Upto(m) /\ y \in Upto(n)
    BY <2>3
  <2>5. /\ g[y] = IF y \in B THEN b[y] ELSE F[y][g[p[y]]]
        /\ h[y] = IF y \in B THEN b[y] ELSE F[y][h[p[y]]]
    <3>. HIDE DEF Upto
    <3>. QED BY <1>2, <2>4
  <2>6. y \notin B /\ g[p[y]] # h[p[y]]
    BY <2>3, <2>5
  <2>7. p[y] \in D /\ rank[p[y]] \in Nat /\ rank[p[y]] < k /\ rank[p[y]] <= m /\ rank[p[y]] <= n
    <3>1. p[y] \in D /\ rank[p[y]] \in Nat /\ rank[p[y]] < k /\ k \in Nat /\ k <= m /\ k <= n
      BY <2>3, <2>6
    <3>. QED BY <3>1
  <2>8. rank[p[y]] \in Apart
    BY <2>6, <2>7
  <2>. QED BY <2>1, <2>2, <2>7, <2>8
<1>. DEFINE f == [x \in D |-> (CHOOSE g : Part(g, rank[x]))[x]]
<1>3. ASSUME NEW x \in D
      PROVE  \E g : Part(g, rank[x]) /\ f[x] = g[x]
  <2>1. rank[x] \in Nat
    OBVIOUS
  <2>. HIDE DEF Part
  <2>2. Part(CHOOSE g : Part(g, rank[x]), rank[x])
    BY <1>1, <2>1
  <2>. QED BY <2>2
<1>4. ASSUME NEW x \in D
      PROVE  f[x] \in V /\ f[x] = IF x \in B THEN b[x] ELSE F[x][f[p[x]]]
  <2>1. PICK g : Part(g, rank[x]) /\ f[x] = g[x]
    BY <1>3
  <2>2. x \in Upto(rank[x]) /\ rank[x] \in Nat
    OBVIOUS
  <2>3. g \in [Upto(rank[x]) -> V] /\ g[x] = IF x \in B THEN b[x] ELSE F[x][g[p[x]]]
    <3>. HIDE DEF f, Upto
    <3>. QED BY <2>1, <2>2
  <2>4. f[x] \in V
    <3>. HIDE DEF f, Upto, Part
    <3>. QED BY <2>1, <2>2, <2>3
  <2>5. CASE x \in B
    <3>. HIDE DEF f, Upto, Part
    <3>. QED BY <2>1, <2>3, <2>4, <2>5
  <2>6. CASE x \notin B
    <3>1. p[x] \in D /\ rank[p[x]] \in Nat /\ rank[p[x]] < rank[x]
      BY <2>6
    <3>2. PICK h : Part(h, rank[p[x]]) /\ f[p[x]] = h[p[x]]
      BY <1>3, <3>1
    <3>3. g[p[x]] = h[p[x]]
      <4>1. rank[p[x]] <= rank[x] /\ rank[p[x]] <= rank[p[x]]
        BY <2>2, <3>1
      <4>. HIDE DEF f, Upto, Part
      <4>. QED BY <1>2, <2>1, <2>2, <3>1, <3>2, <4>1
    <3>. HIDE DEF f, Upto, Part
    <3>. QED BY <2>1, <2>3, <2>4, <2>6, <3>2, <3>3
  <2>. HIDE DEF f, Upto, Part
  <2>. QED BY <2>4, <2>5, <2>6
<1>5. f \in [D -> V]
  <2>1. f = [x \in D |-> f[x]]
    OBVIOUS
  <2>. HIDE DEF f
  <2>. QED BY <1>4, <2>1
<1>. HIDE DEF f
<1>. QED BY <1>4, <1>5

\* A function that goes on from one number to the next, and is the only one to do so.
Counts(f, n, V, b, F) ==
    /\ f[0] = b /\ \A i \in 1..n : f[i - 1] \in V /\ f[i] = F[i][f[i - 1]]
    /\ \A g : g[0] = b /\ (\A i \in 1..n : g[i - 1] \in V => g[i] = F[i][g[i - 1]])
            => \A i \in 0..n : g[i] = f[i]

\* There is one.
LEMMA Counting ==
    ASSUME NEW V, NEW n \in Nat, NEW b \in V, NEW F \in [1..n -> [V -> V]]
    PROVE  \E f \in [0..n -> V] : Counts(f, n, V, b, F)
<1>. DEFINE D == 0..n
            c == [i \in D |-> b]
            p == [i \in D |-> IF i = 0 THEN 0 ELSE i - 1]
            G == [i \in D |-> IF i = 0 THEN [v \in V |-> v] ELSE F[i]]
            rank == [i \in D |-> i]
<1>1. RecursionOn(D, V, {0}, c, p, G, rank)
  <2>1. /\ c \in [D -> V] /\ p \in [D -> D] /\ rank \in [D -> Nat]
        /\ \A i \in D \ {0} : rank[p[i]] < rank[i]
    OBVIOUS
  <2>2. G \in [D -> [V -> V]]
    <3>1. \A i \in D : i # 0 => F[i] \in [V -> V]
      OBVIOUS
    <3>. HIDE DEF D
    <3>. QED BY <3>1
  <2>. HIDE DEF D, c, p, G, rank
  <2>. QED BY <2>1, <2>2 DEF RecursionOn
<1>2. PICK f \in [D -> V] : \A i \in D : f[i] = IF i \in {0} THEN c[i] ELSE G[i][f[p[i]]]
  <2>. HIDE DEF D, c, p, G, rank
  <2>. QED BY <1>1, Recursion
<1>3. f[0] = b
  <2>1. 0 \in D
    OBVIOUS
  <2>2. f[0] = c[0]
    <3>. HIDE DEF D, c, p, G
    <3>. QED BY <1>2, <2>1
  <2>. QED BY <2>1, <2>2
<1>4. ASSUME NEW i \in 1..n PROVE f[i - 1] \in V /\ f[i] = F[i][f[i - 1]] /\ i - 1 \in D /\ i \in D
  <2>1. i \in D /\ i # 0 /\ i - 1 \in D
    OBVIOUS
  <2>2. p[i] = i - 1 /\ G[i] = F[i]
    BY <2>1
  <2>. HIDE DEF D, c, p, G
  <2>. QED BY <1>2, <2>1, <2>2
<1>5. ASSUME NEW g, g[0] = b, \A i \in 1..n : g[i - 1] \in V => g[i] = F[i][g[i - 1]]
      PROVE  \A i \in D : g[i] = f[i]
  <2>. DEFINE Apart == {i \in D : g[i] # f[i]}
  <2>1. SUFFICES ASSUME Apart # {} PROVE FALSE
    OBVIOUS
  <2>2. PICK i \in Apart : \A j \in Apart : i <= j
    <3>1. Apart \in SUBSET Nat
      OBVIOUS
    <3>. HIDE DEF Apart
    <3>. QED BY <2>1, <3>1, LeastNatural
  <2>3. i \in D /\ g[i] # f[i]
    BY <2>2
  <2>4. i # 0
    BY <1>3, <1>5, <2>3
  <2>5. i \in 1..n /\ i - 1 \in D /\ ~(i <= i - 1)
    BY <2>3, <2>4
  <2>6. g[i - 1] = f[i - 1]
    BY <2>2, <2>5
  <2>7. f[i - 1] \in V /\ f[i] = F[i][f[i - 1]]
    BY <1>4, <2>5
  <2>. QED BY <1>5, <2>3, <2>5, <2>6, <2>7
<1>6. Counts(f, n, V, b, F)
  BY <1>3, <1>4, <1>5 DEF Counts
<1>. QED BY <1>2, <1>6

\* The equations of a function on trees, a tree being in B or the sequence of
\* its parts, with values in V: the value at t is b[t] for t in B, and otherwise
\* what C[t] makes of the values at its parts, which are less deep.
TreeRecursionOn(D, V, B, b, C, depth) ==
    /\ b \in [D -> V] /\ depth \in [D -> Nat]
    /\ \A t \in D \ B : C[t] \in [[DOMAIN t -> V] -> V]
    /\ \A t \in D \ B : \A i \in DOMAIN t : t[i] \in D /\ depth[t[i]] < depth[t]

\* What a function f that satisfies them is, and no other.
Unfolds(f, D, V, B, b, C) ==
    /\ \A t \in D : f[t] = IF t \in B THEN b[t] ELSE C[t][[i \in DOMAIN t |-> f[t[i]]]]
    /\ \A g : (\A t \in D : \/ t \in B /\ g[t] = b[t]
                            \/ /\ t \notin B
                               /\ (\A i \in DOMAIN t : g[t[i]] \in V)
                                    => g[t] = C[t][[i \in DOMAIN t |-> g[t[i]]]])
            => \A t \in D : g[t] = f[t]

\* There is one.
LEMMA TreeRecursion ==
    ASSUME NEW D, NEW V, NEW B, NEW b, NEW C, NEW depth, TreeRecursionOn(D, V, B, b, C, depth)
    PROVE  \E f \in [D -> V] : Unfolds(f, D, V, B, b, C)
<1>. DEFINE W == [D -> V]
            Step(g) == [t \in D |-> IF t \in B THEN b[t] ELSE C[t][[i \in DOMAIN t |-> g[t[i]]]]]
<1>1. /\ b \in W /\ depth \in [D -> Nat]
      /\ \A t \in D \ B : C[t] \in [[DOMAIN t -> V] -> V]
      /\ \A t \in D \ B : \A i \in DOMAIN t : t[i] \in D /\ depth[t[i]] < depth[t]
  BY DEF TreeRecursionOn
<1>2. ASSUME NEW g \in W PROVE Step(g) \in W
  <2>1. ASSUME NEW t \in D, t \notin B
        PROVE  C[t][[i \in DOMAIN t |-> g[t[i]]]] \in V
    <3>1. [i \in DOMAIN t |-> g[t[i]]] \in [DOMAIN t -> V]
      BY <1>1, <2>1
    <3>. QED BY <1>1, <2>1, <3>1
  <2>2. \A t \in D : b[t] \in V
    BY <1>1
  <2>. QED BY <2>1, <2>2
<1>3. PICK A \in [Nat -> W] : A[0] = b /\ \A n \in Nat : n # 0 => A[n] = Step(A[n - 1])
  <2>. DEFINE c == [n \in Nat |-> b]
              p == [n \in Nat |-> IF n = 0 THEN 0 ELSE n - 1]
              F == [n \in Nat |-> [g \in W |-> Step(g)]]
              rank == [n \in Nat |-> n]
  <2>1. RecursionOn(Nat, W, {0}, c, p, F, rank)
    <3>1. c \in [Nat -> W]
      BY <1>1
    <3>2. p \in [Nat -> Nat] /\ rank \in [Nat -> Nat] /\ \A n \in Nat \ {0} : rank[p[n]] < rank[n]
      OBVIOUS
    <3>3. F \in [Nat -> [W -> W]]
      <4>. HIDE DEF W, Step
      <4>. QED BY <1>2
    <3>. HIDE DEF c, p, F, rank, W
    <3>. QED BY <3>1, <3>2, <3>3 DEF RecursionOn
  <2>2. PICK A \in [Nat -> W] : \A n \in Nat : A[n] = IF n \in {0} THEN c[n] ELSE F[n][A[p[n]]]
    <3>. HIDE DEF c, p, F, rank, W
    <3>. QED BY <2>1, Recursion
  <2>3. A[0] = b
    <3>. HIDE DEF F, W, p
    <3>. QED BY <2>2
  <2>4. ASSUME NEW n \in Nat, n # 0 PROVE A[n] = Step(A[n - 1])
    <3>1. A[n] = F[n][A[p[n]]]
      <4>. HIDE DEF F, W, p, c
      <4>. QED BY <2>2, <2>4
    <3>2. p[n] = n - 1 /\ n - 1 \in Nat
      BY <2>4
    <3>3. A[n - 1] \in W
      <4>. HIDE DEF W
      <4>. QED BY <3>2
    <3>. HIDE DEF W, Step, p
    <3>. QED BY <3>1, <3>2, <3>3
  <2>. HIDE DEF W, Step
  <2>. QED BY <2>3, <2>4
<1>4. ASSUME NEW n \in Nat, n # 0, NEW t \in D
      PROVE  A[n][t] = IF t \in B THEN b[t] ELSE C[t][[i \in DOMAIN t |-> A[n - 1][t[i]]]]
  <2>. DEFINE g == A[n - 1]
  <2>1. A[n] = Step(g)
    BY <1>3, <1>4
  <2>. HIDE DEF g
  <2>2. A[n][t] = IF t \in B THEN b[t] ELSE C[t][[i \in DOMAIN t |-> g[t[i]]]]
    BY <2>1
  <2>. QED BY <2>2 DEF g
<1>. HIDE DEF W, Step
<1>5. ASSUME NEW t \in D, NEW m \in Nat, NEW n \in Nat, depth[t] < m, depth[t] < n
      PROVE  A[m][t] = A[n][t]
  <2>. DEFINE Apart == {k \in Nat : \E x \in D, i, j \in Nat :
                          depth[x] = k /\ k < i /\ k < j /\ A[i][x] # A[j][x]}
  <2>1. SUFFICES ASSUME Apart # {} PROVE FALSE
    <3>1. depth[t] \in Nat
      BY <1>1
    <3>. QED BY <1>5, <3>1
  <2>2. PICK k \in Apart : \A l \in Apart : k <= l
    <3>1. Apart \in SUBSET Nat
      OBVIOUS
    <3>. HIDE DEF Apart
    <3>. QED BY <2>1, <3>1, LeastNatural
  <2>3. k \in Nat
    BY <2>2
  <2>4. PICK x \in D, i \in Nat, j \in Nat : depth[x] = k /\ k < i /\ k < j /\ A[i][x] # A[j][x]
    BY <2>2
  <2>5. i # 0 /\ j # 0 /\ i - 1 \in Nat /\ j - 1 \in Nat /\ \A l \in Nat : l < k => l < i - 1 /\ l < j - 1
    BY <2>3, <2>4
  <2>6. x \notin B
    BY <1>4, <2>4, <2>5
  <2>7. ASSUME NEW r \in DOMAIN x
        PROVE  A[i - 1][x[r]] = A[j - 1][x[r]]
    <3>1. x[r] \in D /\ depth[x[r]] \in Nat /\ depth[x[r]] < k
      BY <1>1, <2>4, <2>6, <2>7
    <3>2. depth[x[r]] \notin Apart
      <4>. HIDE DEF Apart
      <4>1. ~(k <= depth[x[r]])
        BY <2>3, <3>1
      <4>. QED BY <2>2, <4>1
    <3>3. depth[x[r]] < i - 1 /\ depth[x[r]] < j - 1
      BY <2>5, <3>1
    <3>. QED BY <2>5, <3>1, <3>2, <3>3
  <2>8. [r \in DOMAIN x |-> A[i - 1][x[r]]] = [r \in DOMAIN x |-> A[j - 1][x[r]]]
    BY <2>7
  <2>9. A[i][x] = C[x][[r \in DOMAIN x |-> A[i - 1][x[r]]]] /\ A[j][x] = C[x][[r \in DOMAIN x |-> A[j - 1][x[r]]]]
    BY <1>4, <2>5, <2>6
  <2>. QED BY <2>4, <2>8, <2>9
<1>. DEFINE f == [t \in D |-> A[depth[t] + 1][t]]
<1>6. ASSUME NEW t \in D PROVE f[t] \in V
  <2>1. depth[t] + 1 \in Nat
    BY <1>1
  <2>. QED BY <1>3, <2>1 DEF W
<1>7. ASSUME NEW t \in D
      PROVE  f[t] = IF t \in B THEN b[t] ELSE C[t][[i \in DOMAIN t |-> f[t[i]]]]
  <2>1. depth[t] \in Nat /\ depth[t] + 1 \in Nat /\ depth[t] + 1 # 0 /\ (depth[t] + 1) - 1 = depth[t]
    BY <1>1
  <2>2. f[t] = IF t \in B THEN b[t] ELSE C[t][[i \in DOMAIN t |-> A[(depth[t] + 1) - 1][t[i]]]]
    BY <1>4, <2>1
  <2>3. ASSUME t \notin B, NEW i \in DOMAIN t
        PROVE  A[(depth[t] + 1) - 1][t[i]] = f[t[i]]
    <3>1. t[i] \in D /\ depth[t[i]] \in Nat /\ depth[t[i]] < depth[t]
      BY <1>1, <2>3
    <3>2. depth[t[i]] + 1 \in Nat /\ depth[t[i]] < depth[t[i]] + 1
      BY <3>1
    <3>3. A[depth[t]][t[i]] = A[depth[t[i]] + 1][t[i]]
      BY <1>5, <2>1, <3>1, <3>2
    <3>. QED BY <2>1, <3>1, <3>3
  <2>4. t \notin B => [i \in DOMAIN t |-> A[(depth[t] + 1) - 1][t[i]]] = [i \in DOMAIN t |-> f[t[i]]]
    <3>. HIDE DEF f
    <3>. QED BY <2>3
  <2>. HIDE DEF f
  <2>. QED BY <2>2, <2>4
<1>8. f \in [D -> V]
  <2>1. f = [t \in D |-> f[t]]
    OBVIOUS
  <2>. HIDE DEF f
  <2>. QED BY <1>6, <2>1
<1>. HIDE DEF f
<1>9. ASSUME NEW g, \A t \in D : \/ t \in B /\ g[t] = b[t]
                                 \/ /\ t \notin B
                                    /\ (\A i \in DOMAIN t : g[t[i]] \in V)
                                         => g[t] = C[t][[i \in DOMAIN t |-> g[t[i]]]]
      PROVE  \A t \in D : g[t] = f[t]
  <2>. DEFINE Apart == {k \in Nat : \E t \in D : depth[t] = k /\ g[t] # f[t]}
  <2>1. SUFFICES ASSUME Apart # {} PROVE FALSE
    BY <1>1
  <2>2. PICK k \in Apart : \A l \in Apart : k <= l
    <3>1. Apart \in SUBSET Nat
      OBVIOUS
    <3>. HIDE DEF Apart
    <3>. QED BY <2>1, <3>1, LeastNatural
  <2>3. k \in Nat
    BY <2>2
  <2>4. PICK t \in D : depth[t] = k /\ g[t] # f[t]
    BY <2>2
  <2>5. t \notin B
    BY <1>7, <1>9, <2>4
  <2>6. ASSUME NEW i \in DOMAIN t
        PROVE  g[t[i]] = f[t[i]] /\ g[t[i]] \in V
    <3>1. t[i] \in D /\ depth[t[i]] \in Nat /\ depth[t[i]] < k
      BY <1>1, <2>4, <2>5, <2>6
    <3>2. depth[t[i]] \notin Apart
      <4>1. ~(k <= depth[t[i]])
        BY <2>3, <3>1
      <4>. HIDE DEF Apart
      <4>. QED BY <2>2, <4>1
    <3>3. g[t[i]] = f[t[i]]
      BY <3>1, <3>2
    <3>. QED BY <1>8, <3>1, <3>3
  <2>7. [i \in DOMAIN t |-> g[t[i]]] = [i \in DOMAIN t |-> f[t[i]]]
    BY <2>6
  <2>8. g[t] = C[t][[i \in DOMAIN t |-> g[t[i]]]]
    BY <1>9, <2>5, <2>6
  <2>9. f[t] = C[t][[i \in DOMAIN t |-> f[t[i]]]]
    BY <1>7, <2>5
  <2>. QED BY <2>4, <2>7, <2>8, <2>9
<1>10. Unfolds(f, D, V, B, b, C)
  BY <1>7, <1>9 DEF Unfolds
<1>. QED BY <1>8, <1>10

\* The largest of finitely many numbers is one of them.
LEMMA LargestOf ==
    ASSUME NEW n \in Nat \ {0}, NEW g \in [1..n -> Nat]
    PROVE  /\ Max({g[i] : i \in 1..n}) \in {g[i] : i \in 1..n}
           /\ \A i \in 1..n : g[i] <= Max({g[j] : j \in 1..n})
<1>. DEFINE Bounded(k) == \E m \in Nat : \A i \in 1..k : g[i] <= m
            Failing == {k \in Nat : k <= n /\ ~Bounded(k)}
            S == {g[i] : i \in 1..n}
<1>1. Failing = {}
  <2>1. SUFFICES ASSUME Failing # {} PROVE FALSE
    OBVIOUS
  <2>2. PICK k \in Failing : \A l \in Failing : k <= l
    <3>1. Failing \in SUBSET Nat
      OBVIOUS
    <3>. HIDE DEF Failing
    <3>. QED BY <2>1, <3>1, LeastNatural
  <2>3. k \in Nat /\ k <= n /\ ~Bounded(k)
    BY <2>2
  <2>4. Bounded(0)
    <3>1. 0 \in Nat /\ \A i \in 1..0 : g[i] <= 0
      OBVIOUS
    <3>. QED BY <3>1
  <2>5. k # 0
    <3>. HIDE DEF Bounded
    <3>. QED BY <2>3, <2>4
  <2>6. k - 1 \in Nat /\ k - 1 <= n /\ ~(k <= k - 1)
    BY <2>3, <2>5
  <2>7. Bounded(k - 1)
    <3>. HIDE DEF Bounded
    <3>. QED BY <2>2, <2>6
  <2>8. PICK m \in Nat : \A i \in 1..(k - 1) : g[i] <= m
    BY <2>7
  <2>9. g[k] \in Nat
    BY <2>3, <2>5
  <2>10. PICK r \in Nat : m <= r /\ g[k] <= r
    <3>1. m <= m + g[k] /\ g[k] <= m + g[k] /\ m + g[k] \in Nat
      BY <2>9
    <3>. QED BY <3>1
  <2>11. ASSUME NEW i \in 1..k PROVE g[i] <= r
    <3>1. i = k \/ i \in 1..(k - 1)
      BY <2>3, <2>11
    <3>2. g[i] \in Nat
      BY <2>3
    <3>. QED BY <2>8, <2>9, <2>10, <3>1, <3>2
  <2>. QED BY <2>3, <2>11
<1>2. PICK m \in Nat : \A i \in 1..n : g[i] <= m
  <2>1. Bounded(n)
    <3>. HIDE DEF Bounded
    <3>. QED BY <1>1
  <2>. QED BY <2>1
<1>3. S \in SUBSET Nat /\ S # {} /\ \A x \in S : x <= m
  <2>1. 1 \in 1..n
    OBVIOUS
  <2>. QED BY <1>2, <2>1
<1>4. PICK x \in S : \A y \in S : x >= y
  <2>. HIDE DEF S
  <2>. QED BY <1>3, GreatestNatural
<1>5. Max(S) \in S /\ \A y \in S : Max(S) >= y
  <2>. HIDE DEF S
  <2>1. \E z \in S : \A y \in S : z >= y
    BY <1>3, <1>4
  <2>. QED BY <2>1 DEF Max
<1>6. \A y \in S : y <= Max(S)
  <2>. HIDE DEF S
  <2>. QED BY <1>3, <1>5
<1>7. \A i \in 1..n : g[i] \in S
  OBVIOUS
<1>. HIDE DEF S
<1>8. Max(S) \in S /\ \A i \in 1..n : g[i] <= Max(S)
  BY <1>5, <1>6, <1>7
<1>. QED BY <1>8 DEF S

\* A sequence of distinct elements of a finite set is no longer than it has elements.
LEMMA DistinctLength ==
    ASSUME NEW S, IsFiniteSet(S), NEW q \in Seq(S), \A i, j \in 1..Len(q) : q[i] = q[j] => i = j
    PROVE  Len(q) <= Cardinality(S)
<1>1. Len(q) \in Nat /\ DOMAIN q = 1..Len(q) /\ \A i \in 1..Len(q) : q[i] \in S
  BY SeqFacts
<1>2. q \in Injection(1..Len(q), S)
  <2>1. q \in [1..Len(q) -> S]
    BY <1>1, SeqDef, LenProperties
  <2>. QED BY <1>1, <2>1 DEF Injection, IsInjective
<1>3. Cardinality(1..Len(q)) = Len(q)
  <2>1. \A n \in Nat : Cardinality(1..n) = IF 1 > n THEN 0 ELSE (n - 1) + 1
    BY FS_Interval
  <2>2. \A n \in Nat : (IF 1 > n THEN 0 ELSE (n - 1) + 1) = n
    OBVIOUS
  <2>. QED BY <1>1, <2>1, <2>2
<1>4. Cardinality(1..Len(q)) <= Cardinality(S)
  BY <1>2, FS_Injection
<1>. QED BY <1>1, <1>3, <1>4

-----------------------------------------------------------------------------
(* Parts of sequences, and the sequence that a sequence of sequences makes. *)

\* A part of a sequence up to one of its positions.
LEMMA PartFacts ==
    ASSUME NEW S, NEW q \in Seq(S), NEW m \in 1..(Len(q) + 1), NEW n \in (m - 1)..Len(q)
    PROVE  /\ SubSeq(q, m, n) \in Seq(S)
           /\ Len(SubSeq(q, m, n)) = (n - m) + 1
           /\ \A i \in 1..((n - m) + 1) : SubSeq(q, m, n)[i] = q[(m + i) - 1]
<1>1. Len(q) \in Nat /\ \A i \in m..n : q[i] \in S
  BY SeqFacts
<1>2. m \in Int /\ n \in Int /\ n >= m - 1
  BY <1>1
<1>3. /\ SubSeq(q, m, n) \in Seq(S)
      /\ Len(SubSeq(q, m, n)) = IF m <= n THEN (n - m) + 1 ELSE 0
      /\ \A i \in 1..((n - m) + 1) : SubSeq(q, m, n)[i] = q[(m + i) - 1]
  BY <1>1, <1>2, SubSeqProperties
<1>. QED BY <1>2, <1>3

\* A sequence in two parts.
LEMMA PartsJoined ==
    ASSUME NEW S, NEW q \in Seq(S), NEW n \in 0..Len(q)
    PROVE  SubSeq(q, 1, n) \o SubSeq(q, n + 1, Len(q)) = q
<1>1. Len(q) \in Nat
  BY SeqFacts
<1>2. 1 \in 1..(Len(q) + 1) /\ n \in (1 - 1)..Len(q) /\ Len(q) \in n..Len(q)
  BY <1>1
<1>3. SubSeq(q, 1, n) \o SubSeq(q, n + 1, Len(q)) = SubSeq(q, 1, Len(q))
  BY <1>2, ConcatAdjacentSubSeq
<1>. QED BY <1>3, SubSeqFull

\* An element goes from the head of one sequence to the end of the one before.
LEMMA HeadMoved ==
    ASSUME NEW S, NEW r \in Seq(S), NEW w \in Seq(S), w # <<>>
    PROVE  Append(r, Head(w)) \o Tail(w) = r \o w
<1>1. Head(w) \in S /\ Tail(w) \in Seq(S) /\ <<Head(w)>> \in Seq(S)
  BY HeadTailProperties
<1>2. <<Head(w)>> \o Tail(w) = w
  <2>1. Len(w) \in Nat \ {0} /\ Head(w) = w[1] /\ Len(Tail(w)) = Len(w) - 1
        /\ \A i \in 1..(Len(w) - 1) : Tail(w)[i] = w[i + 1]
    BY TailFacts, HeadTailProperties
  <2>2. /\ <<Head(w)>> \o Tail(w) \in Seq(S)
        /\ Len(<<Head(w)>> \o Tail(w)) = Len(w)
        /\ \A i \in 1..Len(w) : (<<Head(w)>> \o Tail(w))[i] = IF i <= 1 THEN Head(w) ELSE Tail(w)[i - 1]
    <3>1. Len(<<Head(w)>>) = 1 /\ <<Head(w)>>[1] = Head(w)
      OBVIOUS
    <3>2. /\ <<Head(w)>> \o Tail(w) \in Seq(S)
          /\ Len(<<Head(w)>> \o Tail(w)) = Len(<<Head(w)>>) + Len(Tail(w))
          /\ \A i \in 1..(Len(<<Head(w)>>) + Len(Tail(w))) : (<<Head(w)>> \o Tail(w))[i] =
                IF i <= Len(<<Head(w)>>) THEN <<Head(w)>>[i] ELSE Tail(w)[i - Len(<<Head(w)>>)]
      BY <1>1, ConcatProperties
    <3>3. \A i \in 1..Len(w) : i <= 1 => i = 1
      BY <2>1
    <3>. QED BY <2>1, <3>1, <3>2, <3>3
  <2>3. \A i \in 1..Len(w) : i <= 1 \/ (i - 1 \in 1..(Len(w) - 1) /\ (i - 1) + 1 = i)
    BY <2>1
  <2>4. \A i \in 1..Len(w) : (<<Head(w)>> \o Tail(w))[i] = w[i]
    <3>. SUFFICES ASSUME NEW i \in 1..Len(w) PROVE (<<Head(w)>> \o Tail(w))[i] = w[i]
      OBVIOUS
    <3>1. CASE i <= 1
      <4>1. i = 1
        BY <2>1, <3>1
      <4>. QED BY <2>1, <2>2, <4>1
    <3>2. CASE ~(i <= 1)
      BY <2>1, <2>2, <2>3, <3>2
    <3>. QED BY <3>1, <3>2
  <2>. QED BY <2>2, <2>4, SeqEqual
<1>3. Append(r, Head(w)) = r \o <<Head(w)>>
  BY <1>1, AppendIsConcat
<1>. QED BY <1>1, <1>2, <1>3, ConcatAssociative

\* An element is added at the end of the second of two sequences.
LEMMA AppendOfConcat ==
    ASSUME NEW S, NEW r \in Seq(S), NEW w \in Seq(S), NEW e \in S
    PROVE  r \o Append(w, e) = Append(r \o w, e)
<1>1. <<e>> \in Seq(S) /\ r \o w \in Seq(S)
  BY ConcatProperties
<1>2. Append(w, e) = w \o <<e>> /\ Append(r \o w, e) = (r \o w) \o <<e>>
  BY <1>1, AppendIsConcat
<1>. QED BY <1>1, <1>2, ConcatAssociative

\* f has the sequences that the beginnings of q make.
Joined(f, q, S) ==
    /\ f \in [1..Len(q) -> Seq(S)] /\ f[1] = q[1]
    /\ \A i \in 2..Len(q) : f[i] = f[i - 1] \o q[i]

LEMMA JoinedExists ==
    ASSUME NEW S, NEW q \in Seq(Seq(S)), q # <<>>
    PROVE  \E f : Joined(f, q, S) /\ FlattenSeq(q) = f[Len(q)]
<1>. DEFINE D == 1..Len(q)
            V == Seq(S)
            b == [i \in D |-> q[i]]
            p == [i \in D |-> IF i = 1 THEN 1 ELSE i - 1]
            F == [i \in D |-> [v \in V |-> v \o q[i]]]
            rank == [i \in D |-> i]
            Def(f) == f = [i \in 1..Len(q) |-> IF i = 1 THEN q[i] ELSE f[i - 1] \o q[i]]
            flatten == CHOOSE f : Def(f)
<1>1. Len(q) \in Nat \ {0} /\ \A i \in D : q[i] \in V
  BY SeqFacts, EmptySeq
<1>2. RecursionOn(D, V, {1}, b, p, F, rank)
  <2>1. b \in [D -> V] /\ p \in [D -> D] /\ rank \in [D -> Nat] /\ \A i \in D \ {1} : rank[p[i]] < rank[i]
    BY <1>1
  <2>2. F \in [D -> [V -> V]]
    <3>1. ASSUME NEW i \in D, NEW v \in V PROVE v \o q[i] \in V
      BY <1>1, ConcatProperties
    <3>. QED BY <3>1
  <2>. HIDE DEF D, V, b, p, F, rank
  <2>. QED BY <2>1, <2>2 DEF RecursionOn
<1>3. PICK f \in [D -> V] : \A i \in D : f[i] = IF i \in {1} THEN b[i] ELSE F[i][f[p[i]]]
  <2>. HIDE DEF D, V, b, p, F, rank
  <2>. QED BY <1>2, Recursion
<1>4. ASSUME NEW i \in D
      PROVE  f[i] = IF i = 1 THEN q[i] ELSE f[i - 1] \o q[i]
  <2>1. CASE i = 1
    <3>1. f[i] = b[i]
      <4>. HIDE DEF D, V, b, p, F, rank
      <4>. QED BY <1>3, <2>1
    <3>. QED BY <2>1, <3>1
  <2>2. CASE i # 1
    <3>1. p[i] = i - 1 /\ i - 1 \in D
      BY <1>1, <2>2
    <3>2. f[i] = F[i][f[i - 1]] /\ f[i - 1] \in V
      <4>. HIDE DEF D, V, b, p, F, rank
      <4>. QED BY <1>3, <2>2, <3>1
    <3>. HIDE DEF D, V
    <3>. QED BY <2>2, <3>2
  <2>. QED BY <2>1, <2>2
<1>5. Def(f)
  <2>1. f = [i \in D |-> f[i]]
    BY <1>3
  <2>. QED BY <1>4, <2>1
<1>6. Def(flatten)
  <2>. HIDE DEF Def
  <2>. QED BY <1>5
<1>7. FlattenSeq(q) = flatten[Len(q)]
  <2>1. Len(q) # 0
    BY <1>1
  <2>. QED BY <2>1 DEF FlattenSeq
<1>8. \A i \in D : flatten[i] = IF i = 1 THEN q[i] ELSE flatten[i - 1] \o q[i]
  <2>. HIDE DEF flatten
  <2>. QED BY <1>6
<1>9. \A i \in D : flatten[i] \in V
  <2>. DEFINE Failing == {i \in D : flatten[i] \notin V}
  <2>1. SUFFICES ASSUME Failing # {} PROVE FALSE
    OBVIOUS
  <2>2. PICK i \in Failing : \A k \in Failing : i <= k
    <3>1. Failing \in SUBSET Nat
      <4>1. Failing \subseteq D
        OBVIOUS
      <4>2. D \subseteq Nat
        OBVIOUS
      <4>. HIDE DEF Failing, D
      <4>. QED BY <4>1, <4>2
    <3>. HIDE DEF Failing
    <3>. QED BY <2>1, <3>1, LeastNatural
  <2>3. i \in D /\ flatten[i] \notin V
    BY <2>2
  <2>4. i # 1
    <3>. HIDE DEF flatten, V
    <3>. QED BY <1>1, <1>8, <2>3
  <2>5. i - 1 \in D /\ ~(i <= i - 1)
    BY <1>1, <2>3, <2>4
  <2>6. flatten[i - 1] \in V
    <3>. HIDE DEF flatten, V
    <3>. QED BY <2>2, <2>5
  <2>7. flatten[i] = flatten[i - 1] \o q[i] /\ q[i] \in V
    <3>. HIDE DEF flatten, V, D
    <3>. QED BY <1>1, <1>8, <2>3, <2>4
  <2>. HIDE DEF flatten
  <2>. QED BY <2>3, <2>6, <2>7, ConcatProperties
<1>10. Joined(flatten, q, S)
  <2>1. flatten = [i \in D |-> flatten[i]]
    <3>. HIDE DEF flatten
    <3>. QED BY <1>6
  <2>2. 1 \in D /\ \A i \in 2..Len(q) : i \in D /\ i # 1
    BY <1>1
  <2>3. flatten \in [D -> V]
    <3>. HIDE DEF flatten, D, V
    <3>. QED BY <1>9, <2>1
  <2>4. flatten[1] = q[1] /\ \A i \in 2..Len(q) : flatten[i] = flatten[i - 1] \o q[i]
    <3>. HIDE DEF flatten, D, V
    <3>. QED BY <1>8, <2>2
  <2>. HIDE DEF flatten
  <2>. QED BY <2>3, <2>4 DEF Joined
<1>. HIDE DEF flatten
<1>. QED BY <1>7, <1>10

\* What the beginnings make does not depend on what follows.
LEMMA JoinedAgree ==
    ASSUME NEW S, NEW q, NEW r, NEW f, NEW g, Joined(f, q, S), Joined(g, r, S),
           NEW k \in Nat \ {0}, Len(q) \in Nat, Len(r) \in Nat, k <= Len(q), k <= Len(r),
           \A i \in 1..k : q[i] = r[i]
    PROVE  f[k] = g[k]
<1>. DEFINE Apart == {i \in Nat : i \in 1..k /\ f[i] # g[i]}
<1>1. SUFFICES ASSUME Apart # {} PROVE FALSE
  OBVIOUS
<1>2. PICK i \in Apart : \A j \in Apart : i <= j
  <2>1. Apart \in SUBSET Nat
    OBVIOUS
  <2>. HIDE DEF Apart
  <2>. QED BY <1>1, <2>1, LeastNatural
<1>3. i \in 1..k /\ f[i] # g[i]
  BY <1>2
<1>4. 1 \in 1..k
  OBVIOUS
<1>5. i # 1
  BY <1>3, <1>4 DEF Joined
<1>6. i - 1 \in Nat /\ i - 1 \in 1..k /\ ~(i <= i - 1) /\ i \in 2..Len(q) /\ i \in 2..Len(r)
  BY <1>3, <1>5
<1>7. f[i - 1] = g[i - 1]
  BY <1>2, <1>6
<1>. QED BY <1>3, <1>6, <1>7 DEF Joined

\* FlattenSeq joins sequences: none make the empty one, and one more is added to
\* what those before it make.
LEMMA FlattenFacts ==
    ASSUME NEW S, NEW q \in Seq(Seq(S))
    PROVE  /\ FlattenSeq(<<>>) = <<>>
           /\ FlattenSeq(q) \in Seq(S)
           /\ \A e \in Seq(S) : FlattenSeq(Append(q, e)) = FlattenSeq(q) \o e
<1>1. FlattenSeq(<<>>) = <<>>
  BY EmptySeq DEF FlattenSeq
<1>2. FlattenSeq(q) \in Seq(S)
  <2>1. CASE q = <<>>
    BY <1>1, <2>1, EmptySeq
  <2>2. CASE q # <<>>
    <3>1. PICK f : Joined(f, q, S) /\ FlattenSeq(q) = f[Len(q)]
      BY <2>2, JoinedExists
    <3>2. Len(q) \in 1..Len(q)
      BY <2>2, EmptySeq
    <3>. QED BY <3>1, <3>2 DEF Joined
  <2>. QED BY <2>1, <2>2
<1>3. ASSUME NEW e \in Seq(S)
      PROVE  FlattenSeq(Append(q, e)) = FlattenSeq(q) \o e
  <2>. DEFINE r == Append(q, e)  n == Len(q)
  <2>1. /\ r \in Seq(Seq(S)) /\ n \in Nat /\ Len(r) = n + 1 /\ r # <<>> /\ r[n + 1] = e
        /\ \A i \in 1..n : r[i] = q[i]
    BY AppendProperties, LenProperties
  <2>. HIDE DEF r
  <2>2. PICK g : Joined(g, r, S) /\ FlattenSeq(r) = g[Len(r)]
    BY <2>1, JoinedExists
  <2>3. CASE q = <<>>
    <3>1. n = 0
      BY <2>3, EmptySeq
    <3>2. FlattenSeq(r) = e
      BY <2>1, <2>2, <3>1 DEF Joined
    <3>3. <<>> \o e = e
      BY ConcatEmptySeq
    <3>. QED BY <1>1, <2>3, <3>2, <3>3 DEF r
  <2>4. CASE q # <<>>
    <3>1. n \in Nat \ {0}
      BY <2>4, EmptySeq
    <3>2. PICK f : Joined(f, q, S) /\ FlattenSeq(q) = f[Len(q)]
      BY <2>4, JoinedExists
    <3>3. g[n] = f[n]
      <4>1. n <= Len(r) /\ n <= Len(q)
        BY <2>1
      <4>2. Len(q) \in Nat /\ Len(r) \in Nat
        BY <2>1
      <4>3. Joined(g, r, S) /\ Joined(f, q, S) /\ \A i \in 1..n : r[i] = q[i]
        BY <2>1, <2>2, <3>2
      <4>. HIDE DEF n
      <4>. QED BY <3>1, <4>1, <4>2, <4>3, JoinedAgree
    <3>4. n + 1 \in 2..Len(r) /\ (n + 1) - 1 = n
      BY <2>1, <3>1
    <3>5. g[n + 1] = g[n] \o e
      <4>1. \A i \in 2..Len(r) : g[i] = g[i - 1] \o r[i]
        BY <2>2 DEF Joined
      <4>2. g[n + 1] = g[(n + 1) - 1] \o r[n + 1]
        <5>. HIDE DEF n
        <5>. QED BY <3>4, <4>1
      <4>. HIDE DEF n
      <4>. QED BY <2>1, <3>4, <4>2
    <3>. QED BY <2>1, <2>2, <3>2, <3>3, <3>5 DEF r
  <2>. QED BY <2>3, <2>4
<1>. QED BY <1>1, <1>2, <1>3

-----------------------------------------------------------------------------
(* Division *)

\* The one quotient and the one remainder.
LEMMA DivisionUnique ==
    ASSUME NEW n \in Int, NEW d \in Nat \ {0}, NEW q \in Int, NEW r \in 0..(d - 1), n = (d * q) + r
    PROVE  n \div d = q /\ n % d = r
<1>. DEFINE x == n \div d  y == n % d
<1>1. x \in Int /\ y \in 0..(d - 1) /\ n = (d * x) + y
  OBVIOUS
<1>. HIDE DEF x, y
<1>2. CASE x = q
  BY <1>1, <1>2 DEF x, y
<1>3. CASE x < q
  <2>1. q >= x + 1
    BY <1>1, <1>3
  <2>2. d * q >= d * (x + 1) /\ d * (x + 1) = (d * x) + d
    BY <1>1, <2>1
  <2>. QED BY <1>1, <2>2
<1>4. CASE x > q
  <2>1. x >= q + 1
    BY <1>1, <1>4
  <2>2. d * x >= d * (q + 1) /\ d * (q + 1) = (d * q) + d
    BY <1>1, <2>1
  <2>. QED BY <1>1, <2>2
<1>. QED BY <1>1, <1>2, <1>3, <1>4

\* Dividing by a product is dividing by one factor, and then by the other.
DividesTwice(n, b, q) ==
    /\ n \div (b * q) = (n \div b) \div q
    /\ n % (b * q) = (n % b) + (b * ((n \div b) % q))

LEMMA DivisionTwice ==
    ASSUME NEW n \in Int, NEW b \in Nat \ {0}, NEW q \in Nat \ {0}
    PROVE  DividesTwice(n, b, q)
<1>. DEFINE x == n \div b  s == n % b  y == x \div q  t == x % q
<1>1. x \in Int /\ s \in 0..(b - 1) /\ n = (b * x) + s
  OBVIOUS
<1>2. y \in Int /\ t \in 0..(q - 1) /\ x = (q * y) + t
  BY <1>1
<1>. HIDE DEF x, s, y, t
<1>3. b * x = (b * (q * y)) + (b * t) /\ b * (q * y) = (b * q) * y
  BY <1>2
<1>4. b * t \in Nat /\ b * t <= b * (q - 1) /\ b * (q - 1) = (b * q) - b /\ b * q \in Nat \ {0}
  BY <1>2
<1>5. n = ((b * q) * y) + (s + (b * t)) /\ (b * q) * y \in Int
  BY <1>1, <1>2, <1>3, <1>4
<1>6. s + (b * t) \in 0..((b * q) - 1)
  BY <1>1, <1>4
<1>7. n \div (b * q) = y /\ n % (b * q) = s + (b * t)
  <2>. DEFINE d == b * q  r == s + (b * t)
  <2>1. d \in Nat \ {0} /\ r \in 0..(d - 1) /\ n = (d * y) + r
    BY <1>4, <1>5, <1>6
  <2>. HIDE DEF d, r
  <2>2. n \div d = y /\ n % d = r
    BY <1>2, <2>1, DivisionUnique
  <2>. QED BY <2>2 DEF d, r
<1>. QED BY <1>7 DEF x, s, y, t, DividesTwice

\* The remainder by a multiple has the same remainder.
LEMMA RestOfRest ==
    ASSUME NEW n \in Int, NEW b \in Nat \ {0}, NEW q \in Nat \ {0}
    PROVE  (n % (b * q)) % b = n % b
<1>. DEFINE x == n % (b * q)  t == (n \div b) % q  r == n % b
<1>1. DividesTwice(n, b, q)
  BY DivisionTwice, Zenon
<1>2. x = r + (b * t)
  BY <1>1 DEF DividesTwice
<1>3. r \in 0..(b - 1) /\ n \div b \in Int
  OBVIOUS
<1>4. t \in Int
  BY <1>3
<1>. HIDE DEF x, t, r
<1>5. b * t \in Int
  BY <1>4
<1>6. x \in Int /\ x = (b * t) + r
  BY <1>2, <1>3, <1>5
<1>7. x % b = r
  BY <1>3, <1>4, <1>6, DivisionUnique
<1>. QED BY <1>7 DEF x, r

\* Numbers a multiple apart have the same remainder.
LEMMA SameRest ==
    ASSUME NEW m \in Nat \ {0}, NEW x \in Int, NEW n \in Int, (x - n) % m = 0
    PROVE  x % m = n % m
<1>. DEFINE k == (x - n) \div m  j == n \div m  r == n % m
<1>1. k \in Int /\ x - n = m * k
  OBVIOUS
<1>2. j \in Int /\ r \in 0..(m - 1) /\ n = (m * j) + r
  OBVIOUS
<1>. HIDE DEF k, j, r
<1>3. m * (k + j) = (m * k) + (m * j) /\ k + j \in Int /\ m * k \in Int /\ m * j \in Int
  BY <1>1, <1>2
<1>4. x = (m * (k + j)) + r
  BY <1>1, <1>2, <1>3
<1>5. x % m = r
  BY <1>2, <1>3, <1>4, DivisionUnique
<1>. QED BY <1>5 DEF r

\* A number less its remainder is a multiple, also if one more is taken off.
LEMMA RestApart ==
    ASSUME NEW m \in Nat \ {0}, NEW n \in Int
    PROVE  ((n % m) - n) % m = 0 /\ (((n % m) - m) - n) % m = 0
<1>. DEFINE j == n \div m  r == n % m
<1>1. j \in Int /\ r \in 0..(m - 1) /\ n = (m * j) + r
  OBVIOUS
<1>. HIDE DEF j, r
<1>2. m * j \in Int /\ m * (-j) = -(m * j) /\ m * ((-j) - 1) = (-(m * j)) - m /\ -j \in Int /\ (-j) - 1 \in Int
  BY <1>1
<1>3. r - n = (m * (-j)) + 0 /\ (r - m) - n = (m * ((-j) - 1)) + 0
  BY <1>1, <1>2
<1>4. 0 \in 0..(m - 1)
  OBVIOUS
<1>5. (r - n) % m = 0
  BY <1>1, <1>2, <1>3, <1>4, DivisionUnique
<1>6. ((r - m) - n) % m = 0
  BY <1>1, <1>2, <1>3, <1>4, DivisionUnique
<1>. QED BY <1>5, <1>6 DEF r

=============================================================================
