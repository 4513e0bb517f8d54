-------------------------- MODULE TypeLayoutProofs --------------------------
(***************************************************************************)
(* Proofs about TypeLayout, for any primitives and any representations,    *)
(* however wide and deep, where the table of primitives gives each the     *)
(* size that libffi and C give it.                                         *)
(*                                                                         *)
(* By induction over the depth of a type, libffi and the C compiler make   *)
(* the same of it: the same alignment and size, and walkTree's offset for  *)
(* each of its elements is where the compiler puts it (LaidOut).  From     *)
(* there the elements are apart, and a byte that a step writes keeps its   *)
(* element (LayoutIInv).                                                   *)
(***************************************************************************)
EXTENDS TypeLayout, DataLemmas

-----------------------------------------------------------------------------
(* Multiples *)

Aligned(n, a) == \E k \in Int : n = a * k

\* A number that leaves no remainder is a multiple.
LEMMA NoRemainder ==
    ASSUME NEW n \in Nat, NEW a \in Nat \ {0}, n % a = 0
    PROVE  Aligned(n, a)
<1>1. n \div a \in Int /\ n = a * (n \div a)
  OBVIOUS
<1>. QED BY <1>1 DEF Aligned

\* Sums of multiples, and multiples of multiples.
LEMMA AlignedFacts ==
    ASSUME NEW a \in Nat \ {0}
    PROVE  /\ Aligned(0, a) /\ Aligned(a, a)
           /\ \A m, n \in Nat : Aligned(m, a) /\ Aligned(n, a) => Aligned(m + n, a)
           /\ \A b \in Nat \ {0}, n \in Nat : Aligned(n, b) /\ Aligned(b, a) => Aligned(n, a)
           /\ \A m, n \in Nat : Aligned(m, a) /\ Aligned(n, a) /\ m < n => m + a <= n
<1>1. Aligned(0, a) /\ Aligned(a, a)
  <2>1. 0 = a * 0 /\ a = a * 1 /\ 0 \in Int /\ 1 \in Int
    OBVIOUS
  <2>. QED BY <2>1 DEF Aligned
<1>2. ASSUME NEW m \in Nat, NEW n \in Nat, Aligned(m, a), Aligned(n, a) PROVE Aligned(m + n, a)
  <2>1. PICK j \in Int : m = a * j
    BY <1>2 DEF Aligned
  <2>2. PICK k \in Int : n = a * k
    BY <1>2 DEF Aligned
  <2>3. j + k \in Int /\ a * (j + k) = (a * j) + (a * k)
    OBVIOUS
  <2>4. m + n = a * (j + k)
    BY <2>1, <2>2, <2>3
  <2>. QED BY <2>3, <2>4 DEF Aligned
<1>3. ASSUME NEW b \in Nat \ {0}, NEW n \in Nat, Aligned(n, b), Aligned(b, a) PROVE Aligned(n, a)
  <2>1. PICK j \in Int : n = b * j
    BY <1>3 DEF Aligned
  <2>2. PICK k \in Int : b = a * k
    BY <1>3 DEF Aligned
  <2>3. k * j \in Int /\ (a * k) * j = a * (k * j)
    OBVIOUS
  <2>4. n = a * (k * j)
    BY <2>1, <2>2, <2>3
  <2>. QED BY <2>3, <2>4 DEF Aligned
<1>4. ASSUME NEW m \in Nat, NEW n \in Nat, Aligned(m, a), Aligned(n, a), m < n PROVE m + a <= n
  <2>1. PICK j \in Int : m = a * j
    BY <1>4 DEF Aligned
  <2>2. PICK k \in Int : n = a * k
    BY <1>4 DEF Aligned
  <2>3. j >= k => a * j >= a * k
    OBVIOUS
  <2>4. j + 1 <= k
    BY <1>4, <2>1, <2>2, <2>3
  <2>5. a * (j + 1) <= a * k
    BY <2>4
  <2>6. a * (j + 1) = (a * j) + a
    OBVIOUS
  <2>. QED BY <2>1, <2>2, <2>5, <2>6
<1>. QED BY <1>1, <1>2, <1>3, <1>4

\* AlignUp gives the multiple that is less than a from n on.
LEMMA AlignUpFacts ==
    ASSUME NEW n \in Nat, NEW a \in Nat \ {0}
    PROVE  /\ AlignUp(n, a) \in Nat /\ n <= AlignUp(n, a) /\ AlignUp(n, a) < n + a
           /\ Aligned(AlignUp(n, a), a)
           /\ \A m \in Nat : Aligned(m, a) /\ n <= m /\ m < n + a => m = AlignUp(n, a)
<1>. DEFINE q == ((n + a) - 1) \div a  r == ((n + a) - 1) % a
<1>1. q \in Int /\ r \in 0..(a - 1) /\ (n + a) - 1 = (a * q) + r
  OBVIOUS
<1>2. AlignUp(n, a) = q * a
  BY DEF AlignUp
<1>. HIDE DEF q, r
<1>3. q * a = a * q /\ a * q \in Int
  BY <1>1
<1>4. AlignUp(n, a) \in Nat /\ n <= AlignUp(n, a) /\ AlignUp(n, a) < n + a
  BY <1>1, <1>2, <1>3
<1>5. Aligned(AlignUp(n, a), a)
  BY <1>1, <1>2, <1>3 DEF Aligned
<1>6. ASSUME NEW m \in Nat, Aligned(m, a), n <= m, m < n + a PROVE m = AlignUp(n, a)
  <2>. DEFINE u == AlignUp(n, a)
  <2>1. u \in Nat /\ n <= u /\ u < n + a /\ Aligned(u, a)
    BY <1>4, <1>5
  <2>. HIDE DEF u
  <2>2. ~(m < u) /\ ~(u < m)
    <3>1. m < u => m + a <= u
      BY <1>6, <2>1, AlignedFacts
    <3>2. u < m => u + a <= m
      BY <1>6, <2>1, AlignedFacts
    <3>. QED BY <1>6, <2>1, <3>1, <3>2
  <2>. QED BY <2>1, <2>2 DEF u
<1>. QED BY <1>4, <1>5, <1>6

\* AlignUp from a multiple on, of a multiple, and to one multiple after another.
LEMMA AlignUpOfMultiple ==
    ASSUME NEW a \in Nat \ {0}, NEW k \in Nat, NEW o \in Nat, Aligned(o, a)
    PROVE  AlignUp(o + k, a) = o + AlignUp(k, a) /\ AlignUp(o, a) = o
<1>. DEFINE u == AlignUp(k, a)
<1>1. u \in Nat /\ k <= u /\ u < k + a /\ Aligned(u, a)
  BY AlignUpFacts
<1>. HIDE DEF u
<1>2. o + u \in Nat /\ o + k \in Nat /\ Aligned(o + u, a) /\ o + k <= o + u /\ o + u < (o + k) + a
  BY <1>1, AlignedFacts
<1>3. o + u = AlignUp(o + k, a)
  BY <1>2, AlignUpFacts
<1>4. o <= o /\ o < o + a
  OBVIOUS
<1>5. o = AlignUp(o, a)
  BY <1>4, AlignUpFacts
<1>. QED BY <1>3, <1>5 DEF u

LEMMA AlignUpTwice ==
    ASSUME NEW a \in Nat \ {0}, NEW b \in Nat \ {0}, NEW n \in Nat, Aligned(b, a)
    PROVE  AlignUp(AlignUp(n, a), b) = AlignUp(n, b)
<1>. DEFINE u == AlignUp(n, a)  v == AlignUp(n, b)
<1>1. u \in Nat /\ n <= u /\ u < n + a /\ Aligned(u, a)
  BY AlignUpFacts
<1>2. v \in Nat /\ n <= v /\ v < n + b /\ Aligned(v, b)
  BY AlignUpFacts
<1>. HIDE DEF u, v
<1>3. Aligned(v, a)
  BY <1>2, AlignedFacts
<1>4. v < u => v + a <= u
  BY <1>1, <1>2, <1>3, AlignedFacts
<1>5. u <= v /\ v < u + b
  BY <1>1, <1>2, <1>4
<1>6. v = AlignUp(u, b)
  BY <1>1, <1>2, <1>5, AlignUpFacts
<1>. QED BY <1>6 DEF u, v

-----------------------------------------------------------------------------
(* The members of a struct *)

FfiTypes == [size : Nat, align : Nat \ {0}, offsets : Seq(Nat)]

Places == [at : Seq(Nat), end : Nat]

\* A function of positions is a sequence.
LEMMA SequenceOf ==
    ASSUME NEW S, NEW n \in Nat, NEW f \in [1..n -> S]
    PROVE  f \in Seq(S) /\ Len(f) = n /\ DOMAIN f = 1..n
<1>1. f \in Seq(S)
  OBVIOUS
<1>2. DOMAIN f = 1..Len(f) /\ Len(f) \in Nat /\ DOMAIN f = 1..n
  BY <1>1, LenProperties
<1>. QED BY <1>1, <1>2

LEMMA FfiEndsFacts ==
    ASSUME NEW ms \in Seq(FfiTypes)
    PROVE  /\ FfiEnds(ms) \in [0..Len(ms) -> Nat] /\ FfiEnds(ms)[0] = 0
           /\ \A i \in 1..Len(ms) :
                /\ ms[i].align \in Nat \ {0} /\ ms[i].size \in Nat
                /\ FfiEnds(ms)[i - 1] \in Nat
                /\ FfiEnds(ms)[i] = AlignUp(FfiEnds(ms)[i - 1], ms[i].align) + ms[i].size
<1>. DEFINE n == Len(ms)
            V == Nat
            F == [i \in 1..n |-> [v \in V |-> AlignUp(v, ms[i].align) + ms[i].size]]
            Def(f) == f = [i \in 0..n |->
                             IF i = 0 THEN 0 ELSE AlignUp(f[i - 1], ms[i].align) + ms[i].size]
            to == CHOOSE f : Def(f)
<1>1. n \in Nat /\ \A i \in 1..n : ms[i].align \in Nat \ {0} /\ ms[i].size \in Nat
  <2>1. n \in Nat /\ \A i \in 1..n : ms[i] \in FfiTypes
    BY SeqFacts
  <2>. HIDE DEF n
  <2>. QED BY <2>1 DEF FfiTypes
<1>2. F \in [1..n -> [V -> V]]
  <2>1. ASSUME NEW i \in 1..n, NEW v \in Nat PROVE AlignUp(v, ms[i].align) + ms[i].size \in Nat
    <3>1. ms[i].align \in Nat \ {0} /\ ms[i].size \in Nat
      BY <1>1
    <3>2. AlignUp(v, ms[i].align) \in Nat
      BY <3>1, AlignUpFacts
    <3>. QED BY <3>1, <3>2
  <2>. HIDE DEF n
  <2>. QED BY <2>1
<1>3. PICK f \in [0..n -> V] : Counts(f, n, V, 0, F)
  <2>1. n \in Nat /\ 0 \in V
    BY <1>1
  <2>. HIDE DEF n, V, F
  <2>. QED BY <1>2, <2>1, Counting, Zenon
<1>4. /\ f[0] = 0 /\ \A i \in 1..n : f[i - 1] \in V /\ f[i] = F[i][f[i - 1]]
      /\ \A g : g[0] = 0 /\ (\A i \in 1..n : g[i - 1] \in V => g[i] = F[i][g[i - 1]])
              => \A i \in 0..n : g[i] = f[i]
  <2>. HIDE DEF n, V, F
  <2>. QED BY <1>3 DEF Counts
<1>5. Def(f)
  <2>1. ASSUME NEW i \in 0..n, i # 0 PROVE f[i] = AlignUp(f[i - 1], ms[i].align) + ms[i].size
    <3>1. i \in 1..n
      BY <1>1, <2>1
    <3>. HIDE DEF n
    <3>. QED BY <1>3, <1>4, <3>1
  <2>2. f = [i \in 0..n |-> f[i]]
    BY <1>3, <1>4
  <2>. HIDE DEF n, V, F
  <2>. QED BY <1>3, <1>4, <2>1, <2>2
<1>6. Def(to)
  <2>. HIDE DEF Def
  <2>. QED BY <1>5
<1>7. FfiEnds(ms) = to
  BY DEF FfiEnds
<1>. HIDE DEF to
<1>8. \A i \in 0..n : to[i] = f[i]
  <2>1. to[0] = 0
    <3>1. 0 \in 0..n
      BY <1>1
    <3>. HIDE DEF n, V, F
    <3>. QED BY <1>6, <3>1
  <2>2. ASSUME NEW i \in 1..n, to[i - 1] \in V PROVE to[i] = F[i][to[i - 1]]
    <3>1. i \in 0..n /\ i # 0
      BY <1>1
    <3>2. to[i] = AlignUp(to[i - 1], ms[i].align) + ms[i].size
      <4>. HIDE DEF n, V, F
      <4>. QED BY <1>6, <3>1
    <3>. HIDE DEF n, V
    <3>. QED BY <2>2, <3>2
  <2>. HIDE DEF n, V, F, Def
  <2>. QED BY <1>3, <1>4, <2>1, <2>2
<1>9. to = f
  <2>1. to = [i \in 0..n |-> to[i]]
    <3>. HIDE DEF n
    <3>. QED BY <1>6
  <2>. HIDE DEF n, V, F, Def
  <2>. QED BY <1>3, <1>4, <1>8, <2>1
<1>. HIDE DEF n, Def
<1>10. \A i \in 1..n : f[i] = AlignUp(f[i - 1], ms[i].align) + ms[i].size
  BY <1>3, <1>4
<1>. HIDE DEF F
<1>11. FfiEnds(ms) = f
  BY <1>7, <1>9
<1>. QED BY <1>1, <1>3, <1>4, <1>10, <1>11 DEF n

LEMMA CEndsFacts ==
    ASSUME NEW ms \in Seq([Nat -> Places]), NEW start \in Nat
    PROVE  /\ CEnds(ms, start) \in [0..Len(ms) -> Nat] /\ CEnds(ms, start)[0] = start
           /\ \A i \in 1..Len(ms) :
                /\ CEnds(ms, start)[i - 1] \in Nat
                /\ CEnds(ms, start)[i] = ms[i][CEnds(ms, start)[i - 1]].end
<1>. DEFINE n == Len(ms)
            V == Nat
            F == [i \in 1..n |-> [v \in V |-> ms[i][v].end]]
            Def(f) == f = [i \in 0..n |-> IF i = 0 THEN start ELSE ms[i][f[i - 1]].end]
            to == CHOOSE f : Def(f)
<1>1. n \in Nat /\ \A i \in 1..n : ms[i] \in [Nat -> Places]
  BY SeqFacts
<1>2. F \in [1..n -> [V -> V]]
  <2>1. ASSUME NEW i \in 1..n, NEW v \in Nat PROVE ms[i][v].end \in Nat
    <3>1. ms[i][v] \in Places
      BY <1>1
    <3>. QED BY <3>1 DEF Places
  <2>. HIDE DEF n
  <2>. QED BY <2>1
<1>3. PICK f \in [0..n -> V] : Counts(f, n, V, start, F)
  <2>1. n \in Nat /\ start \in V
    BY <1>1
  <2>. HIDE DEF n, V, F
  <2>. QED BY <1>2, <2>1, Counting, Zenon
<1>4. /\ f[0] = start /\ \A i \in 1..n : f[i - 1] \in V /\ f[i] = F[i][f[i - 1]]
      /\ \A g : g[0] = start /\ (\A i \in 1..n : g[i - 1] \in V => g[i] = F[i][g[i - 1]])
              => \A i \in 0..n : g[i] = f[i]
  <2>. HIDE DEF n, V, F
  <2>. QED BY <1>3 DEF Counts
<1>5. Def(f)
  <2>1. ASSUME NEW i \in 0..n, i # 0 PROVE f[i] = ms[i][f[i - 1]].end
    <3>1. i \in 1..n
      BY <1>1, <2>1
    <3>. HIDE DEF n
    <3>. QED BY <1>3, <1>4, <3>1
  <2>2. f = [i \in 0..n |-> f[i]]
    BY <1>3, <1>4
  <2>. HIDE DEF n, V, F
  <2>. QED BY <1>3, <1>4, <2>1, <2>2
<1>6. Def(to)
  <2>. HIDE DEF Def
  <2>. QED BY <1>5
<1>7. CEnds(ms, start) = to
  BY DEF CEnds
<1>. HIDE DEF to
<1>8. \A i \in 0..n : to[i] = f[i]
  <2>1. to[0] = start
    <3>1. 0 \in 0..n
      BY <1>1
    <3>. HIDE DEF n, V, F
    <3>. QED BY <1>6, <3>1
  <2>2. ASSUME NEW i \in 1..n, to[i - 1] \in V PROVE to[i] = F[i][to[i - 1]]
    <3>1. i \in 0..n /\ i # 0
      BY <1>1
    <3>2. to[i] = ms[i][to[i - 1]].end
      <4>. HIDE DEF n, V, F
      <4>. QED BY <1>6, <3>1
    <3>. HIDE DEF n, V
    <3>. QED BY <2>2, <3>2
  <2>. HIDE DEF n, V, F, Def
  <2>. QED BY <1>3, <1>4, <2>1, <2>2
<1>9. to = f
  <2>1. to = [i \in 0..n |-> to[i]]
    <3>. HIDE DEF n
    <3>. QED BY <1>6
  <2>. HIDE DEF n, V, F, Def
  <2>. QED BY <1>3, <1>4, <1>8, <2>1
<1>. HIDE DEF n, Def
<1>10. \A i \in 1..n : f[i] = ms[i][f[i - 1]].end
  BY <1>3, <1>4
<1>. HIDE DEF F
<1>11. CEnds(ms, start) = f
  BY <1>7, <1>9
<1>. QED BY <1>1, <1>3, <1>4, <1>10, <1>11 DEF n

-----------------------------------------------------------------------------
(* The functions of a representation *)

\* What Parsable asks of t, where f says it of its members.
Parses(f, t) ==
    /\ t \notin Unknown
    /\ t \notin Primitives => t # <<>> /\ \A i \in DOMAIN t : f[t[i]]

LEMMA ParsableIs ==
    \A t \in Types : Parsable[t] = Parses(Parsable, t)
<1>. DEFINE V == BOOLEAN
            B == Primitives \cup Unknown
            b == [t \in Types |-> t \notin Unknown]
            C == [t \in Types \ B |-> [m \in [DOMAIN t -> V] |-> t # <<>> /\ \A i \in DOMAIN t : m[i]]]
            Def(f) == f = [t \in Types |-> Parses(f, t)]
<1>1. TreeRecursionOn(Types, V, B, b, C, Depth)
  <2>1. b \in [Types -> V] /\ \A t \in Types \ B : C[t] \in [[DOMAIN t -> V] -> V]
    OBVIOUS
  <2>2. Depth \in [Types -> Nat] /\ \A t \in Types \ B : \A i \in DOMAIN t : t[i] \in Types /\ Depth[t[i]] < Depth[t]
    BY TypesAssumption, ElementOfSeq, LenProperties
  <2>. HIDE DEF V, B, b, C
  <2>. QED BY <2>1, <2>2 DEF TreeRecursionOn
<1>2. PICK f \in [Types -> V] : Unfolds(f, Types, V, B, b, C)
  <2>. HIDE DEF V, B, b, C
  <2>. QED BY <1>1, TreeRecursion
<1>3. \A t \in Types : f[t] = IF t \in B THEN b[t] ELSE C[t][[i \in DOMAIN t |-> f[t[i]]]]
  <2>. HIDE DEF V, B, b, C
  <2>. QED BY <1>2 DEF Unfolds
<1>4. ASSUME NEW t \in Types
      PROVE  f[t] = Parses(f, t)
  <2>1. CASE t \in Unknown
    BY <1>3, <2>1 DEF Parses
  <2>2. CASE t \in Primitives /\ t \notin Unknown
    BY <1>3, <2>2 DEF Parses
  <2>3. CASE t \notin B
    <3>1. [i \in DOMAIN t |-> f[t[i]]] \in [DOMAIN t -> V]
      <4>1. \A i \in DOMAIN t : t[i] \in Types
        BY <2>3, TypesAssumption, ElementOfSeq, LenProperties
      <4>. QED BY <1>2, <4>1
    <3>2. f[t] = C[t][[i \in DOMAIN t |-> f[t[i]]]]
      BY <1>3, <2>3
    <3>3. f[t] = (t # <<>> /\ \A i \in DOMAIN t : f[t[i]])
      BY <2>3, <3>1, <3>2
    <3>. QED BY <2>3, <3>3 DEF Parses
  <2>. QED BY <2>1, <2>2, <2>3
<1>5. Def(f)
  <2>1. f = [t \in Types |-> f[t]]
    BY <1>2
  <2>. QED BY <1>4, <2>1
<1>6. Def(Parsable)
  <2>. HIDE DEF Def
  <2>1. Parsable = CHOOSE g : g = [t \in Types |-> Parses(g, t)]
    BY DEF Parsable, Parses
  <2>. QED BY <1>5, <2>1 DEF Def
<1>. QED BY <1>6

\* What parses is a primitive, or a list of what parses.
LEMMA ParsedFacts ==
    \A t \in Parsed : /\ t \in Types
                      /\ t \in Primitives \/ (t \in Seq(Parsed) /\ Len(t) \in Nat \ {0} /\ DOMAIN t = 1..Len(t))
<1>. SUFFICES ASSUME NEW t \in Parsed, t \notin Primitives
              PROVE  t \in Seq(Parsed) /\ Len(t) \in Nat \ {0} /\ DOMAIN t = 1..Len(t)
  BY DEF Parsed
<1>1. t \in Types /\ Parsable[t]
  BY DEF Parsed
<1>2. t \notin Unknown /\ t # <<>> /\ \A i \in DOMAIN t : Parsable[t[i]]
  BY <1>1, ParsableIs DEF Parses
<1>3. t \in Seq(Types) /\ Len(t) \in Nat /\ DOMAIN t = 1..Len(t) /\ \A i \in 1..Len(t) : t[i] \in Types
  BY <1>1, <1>2, TypesAssumption, SeqFacts
<1>4. \A i \in 1..Len(t) : t[i] \in Parsed
  BY <1>2, <1>3 DEF Parsed
<1>5. t \in [1..Len(t) -> Parsed]
  BY <1>3, <1>4
<1>6. t \in Seq(Parsed)
  BY <1>3, <1>5, SequenceOf
<1>7. Len(t) # 0
  BY <1>2, <1>3, EmptySeq
<1>. QED BY <1>3, <1>6, <1>7

\* A function of what parses is as its definition has it.
LEMMA TreeFunction ==
    ASSUME NEW V, NEW b \in [Parsed -> V], NEW C,
           \A t \in Parsed \ Primitives : C[t] \in [[DOMAIN t -> V] -> V]
    PROVE  \E f \in [Parsed -> V] : Unfolds(f, Parsed, V, Primitives, b, C)
<1>. DEFINE depth == [t \in Parsed |-> Depth[t]]
<1>1. depth \in [Parsed -> Nat]
  BY TypesAssumption, ParsedFacts
<1>2. ASSUME NEW t \in Parsed \ Primitives, NEW i \in DOMAIN t
      PROVE  t[i] \in Parsed /\ depth[t[i]] < depth[t]
  <2>1. t \in Types /\ t[i] \in Parsed
    BY <1>2, ParsedFacts, SeqFacts
  <2>2. t \notin Unknown
    BY <1>2, <2>1, ParsableIs DEF Parsed, Parses
  <2>3. Depth[t[i]] < Depth[t]
    BY <1>2, <2>1, <2>2, TypesAssumption
  <2>. QED BY <2>1, <2>3
<1>. HIDE DEF depth
<1>3. TreeRecursionOn(Parsed, V, Primitives, b, C, depth)
  BY <1>1, <1>2 DEF TreeRecursionOn
<1>. QED BY <1>3, TreeRecursion

\* The values at the members of a list.
LEMMA MembersFacts ==
    ASSUME NEW V, NEW t \in Parsed, t \notin Primitives, NEW m \in [DOMAIN t -> V]
    PROVE  /\ m \in Seq(V) /\ Len(m) = Len(t) /\ DOMAIN m = 1..Len(t) /\ DOMAIN t = 1..Len(t)
           /\ Len(t) \in Nat \ {0}
           /\ \A i \in 1..Len(t) : m[i] \in V /\ t[i] \in Parsed
<1>1. Len(t) \in Nat \ {0} /\ DOMAIN t = 1..Len(t) /\ \A i \in 1..Len(t) : t[i] \in Parsed
  BY ParsedFacts, SeqFacts
<1>2. m \in [1..Len(t) -> V]
  BY <1>1
<1>3. m \in Seq(V) /\ Len(m) = Len(t) /\ DOMAIN m = 1..Len(t)
  <2>1. Len(t) \in Nat
    BY <1>1
  <2>. QED BY <1>2, <2>1, SequenceOf
<1>. QED BY <1>1, <1>2, <1>3

LEMMA LeavesFacts ==
    /\ Leaves \in [Parsed -> Seq(Primitives)]
    /\ \A t \in Parsed : Leaves[t] = IF t \in Primitives THEN <<t>>
                                     ELSE FlattenSeq([i \in DOMAIN t |-> Leaves[t[i]]])
<1>. DEFINE V == Seq(Primitives)
            b == [t \in Parsed |-> IF t \in Primitives THEN <<t>> ELSE <<>>]
            C == [t \in Parsed \ Primitives |-> [m \in [DOMAIN t -> V] |-> FlattenSeq(m)]]
            Def(f) == f = [t \in Parsed |-> IF t \in Primitives THEN <<t>>
                                            ELSE FlattenSeq([i \in DOMAIN t |-> f[t[i]]])]
<1>1. b \in [Parsed -> V]
  <2>1. ASSUME NEW t \in Primitives PROVE <<t>> \in Seq(Primitives)
    BY <2>1
  <2>2. <<>> \in Seq(Primitives)
    OBVIOUS
  <2>. QED BY <2>1, <2>2
<1>2. \A t \in Parsed \ Primitives : C[t] \in [[DOMAIN t -> V] -> V]
  <2>1. ASSUME NEW t \in Parsed, t \notin Primitives, NEW m \in [DOMAIN t -> V] PROVE FlattenSeq(m) \in V
    <3>1. m \in Seq(V)
      <4>. HIDE DEF V
      <4>. QED BY <2>1, MembersFacts
    <3>. QED BY <3>1, FlattenFacts
  <2>. HIDE DEF V
  <2>. QED BY <2>1
<1>3. PICK f \in [Parsed -> V] : Unfolds(f, Parsed, V, Primitives, b, C)
  <2>. HIDE DEF V, b, C
  <2>. QED BY <1>1, <1>2, TreeFunction
<1>. HIDE DEF V
<1>4. Def(f)
  <2>1. ASSUME NEW t \in Parsed
        PROVE  f[t] = IF t \in Primitives THEN <<t>> ELSE FlattenSeq([i \in DOMAIN t |-> f[t[i]]])
    <3>1. f[t] = IF t \in Primitives THEN b[t] ELSE C[t][[i \in DOMAIN t |-> f[t[i]]]]
      <4>. HIDE DEF b, C
      <4>. QED BY <1>3 DEF Unfolds
    <3>2. ASSUME t \notin Primitives
          PROVE  C[t][[i \in DOMAIN t |-> f[t[i]]]] = FlattenSeq([i \in DOMAIN t |-> f[t[i]]])
      <4>1. [i \in DOMAIN t |-> f[t[i]]] \in [DOMAIN t -> V]
        <5>1. \A i \in DOMAIN t : t[i] \in Parsed
          BY <3>2, ParsedFacts, SeqFacts
        <5>. QED BY <1>3, <5>1
      <4>. QED BY <3>2, <4>1
    <3>. QED BY <3>1, <3>2
  <2>2. f = [t \in Parsed |-> f[t]]
    BY <1>3
  <2>. QED BY <2>1, <2>2
<1>5. Def(Leaves)
  <2>. HIDE DEF Def
  <2>1. Leaves = CHOOSE g : Def(g)
    BY DEF Leaves, Def
  <2>. QED BY <1>4, <2>1
<1>6. Leaves = f
  <2>1. ASSUME NEW t \in Parsed, t \in Primitives PROVE Leaves[t] = b[t]
    BY <1>5, <2>1
  <2>2. ASSUME NEW t \in Parsed, t \notin Primitives, \A i \in DOMAIN t : Leaves[t[i]] \in V
        PROVE  Leaves[t] = C[t][[i \in DOMAIN t |-> Leaves[t[i]]]]
    <3>1. [i \in DOMAIN t |-> Leaves[t[i]]] \in [DOMAIN t -> V]
      BY <2>2
    <3>2. Leaves[t] = FlattenSeq([i \in DOMAIN t |-> Leaves[t[i]]])
      BY <1>5, <2>2
    <3>. QED BY <2>2, <3>1, <3>2
  <2>3. \A t \in Parsed : Leaves[t] = f[t]
    <3>. HIDE DEF b, C, Def
    <3>. QED BY <1>3, <2>1, <2>2 DEF Unfolds
  <2>4. Leaves = [t \in Parsed |-> Leaves[t]]
    BY <1>5
  <2>. QED BY <1>3, <2>3, <2>4
<1>7. \A t \in Parsed : Leaves[t] = IF t \in Primitives THEN <<t>>
                                     ELSE FlattenSeq([i \in DOMAIN t |-> Leaves[t[i]]])
  BY <1>5
<1>. QED BY <1>3, <1>6, <1>7 DEF V

\* The layout of a struct.
LEMMA AggregateFacts ==
    ASSUME NEW ms \in Seq(FfiTypes), Len(ms) # 0
    PROVE  /\ Aggregate(ms) \in FfiTypes
           /\ Aggregate(ms).align \in {ms[i].align : i \in 1..Len(ms)}
           /\ \A i \in 1..Len(ms) : ms[i].align <= Aggregate(ms).align
           /\ Aggregate(ms).align = Max({ms[i].align : i \in 1..Len(ms)})
           /\ Aggregate(ms).size = AlignUp(FfiEnds(ms)[Len(ms)], Aggregate(ms).align)
           /\ \A i \in 1..Len(ms) : Aggregate(ms).offsets[i] = AlignUp(FfiEnds(ms)[i - 1], ms[i].align)
<1>. DEFINE n == Len(ms)
            to == FfiEnds(ms)
            g == [i \in 1..n |-> ms[i].align]
            align == Max({ms[i].align : i \in 1..n})
            offsets == [i \in 1..n |-> AlignUp(to[i - 1], ms[i].align)]
<1>1. n \in Nat \ {0} /\ DOMAIN ms = 1..n
  BY SeqFacts
<1>2. /\ to \in [0..n -> Nat]
      /\ \A i \in 1..n : ms[i].align \in Nat \ {0} /\ to[i - 1] \in Nat
  <2>. HIDE DEF n, to
  <2>. QED BY FfiEndsFacts DEF n, to
<1>3. Aggregate(ms) = [size |-> AlignUp(to[n], align), align |-> align, offsets |-> offsets]
  BY <1>1 DEF Aggregate
<1>4. align \in {ms[i].align : i \in 1..n} /\ \A i \in 1..n : ms[i].align <= align
  <2>1. g \in [1..n -> Nat] /\ {g[i] : i \in 1..n} = {ms[i].align : i \in 1..n}
    <3>. HIDE DEF n, to
    <3>. QED BY <1>2
  <2>2. Max({g[i] : i \in 1..n}) \in {g[i] : i \in 1..n} /\ \A i \in 1..n : g[i] <= Max({g[j] : j \in 1..n})
    <3>. HIDE DEF n, g
    <3>. QED BY <1>1, <2>1, LargestOf
  <2>3. \A i \in 1..n : g[i] = ms[i].align
    OBVIOUS
  <2>. HIDE DEF g, n
  <2>. QED BY <2>1, <2>2, <2>3
<1>. HIDE DEF n, to, g, align
<1>5. align \in Nat \ {0}
  BY <1>2, <1>4
<1>6. AlignUp(to[n], align) \in Nat
  <2>1. to[n] \in Nat
    BY <1>1, <1>2
  <2>. QED BY <1>5, <2>1, AlignUpFacts
<1>7. \A i \in 1..n : AlignUp(to[i - 1], ms[i].align) \in Nat
  BY <1>2, AlignUpFacts
<1>8. offsets \in Seq(Nat) /\ \A i \in 1..n : offsets[i] = AlignUp(to[i - 1], ms[i].align)
  <2>1. offsets \in [1..n -> Nat]
    BY <1>7
  <2>2. offsets \in Seq(Nat)
    <3>. HIDE DEF offsets
    <3>. QED BY <1>1, <2>1, SequenceOf
  <2>. QED BY <2>2
<1>. HIDE DEF offsets
<1>9. Aggregate(ms) \in FfiTypes
  BY <1>3, <1>5, <1>6, <1>8 DEF FfiTypes
<1>10. Aggregate(ms).align = align /\ Aggregate(ms).size = AlignUp(to[n], align) /\ Aggregate(ms).offsets = offsets
  BY <1>3
<1>. QED BY <1>4, <1>8, <1>9, <1>10 DEF n, to, align

LEMMA FfiTypeFacts ==
    /\ FfiType \in [Parsed -> FfiTypes]
    /\ \A t \in Parsed : FfiType[t] = IF t \in Primitives THEN [size |-> FfiSize[t], align |-> FfiAlign[t], offsets |-> <<>>]
                              ELSE Aggregate([i \in DOMAIN t |-> FfiType[t[i]]])
<1>. DEFINE V == FfiTypes
            b == [t \in Parsed |-> IF t \in Primitives THEN [size |-> FfiSize[t], align |-> FfiAlign[t], offsets |-> <<>>]
                                           ELSE [size |-> 0, align |-> 1, offsets |-> <<>>]]
            C == [t \in Parsed \ Primitives |-> [m \in [DOMAIN t -> V] |-> Aggregate(m)]]
            Def(f) == f = [t \in Parsed |-> IF t \in Primitives THEN [size |-> FfiSize[t], align |-> FfiAlign[t], offsets |-> <<>>]
                              ELSE Aggregate([i \in DOMAIN t |-> f[t[i]]])]
<1>1. b \in [Parsed -> V]
  <2>1. \A t \in Primitives : FfiSize[t] \in Nat /\ FfiAlign[t] \in Nat \ {0}
    BY LayoutAssumption
  <2>2. <<>> \in Seq(Nat)
    OBVIOUS
  <2>. QED BY <2>1, <2>2 DEF FfiTypes
<1>2. \A t \in Parsed \ Primitives : C[t] \in [[DOMAIN t -> V] -> V]
  <2>1. ASSUME NEW t \in Parsed, t \notin Primitives, NEW m \in [DOMAIN t -> V] PROVE Aggregate(m) \in V
    <3>1. m \in Seq(V) /\ Len(m) # 0
      <4>. HIDE DEF V
      <4>. QED BY <2>1, MembersFacts
    <3>. QED BY <3>1, AggregateFacts
  <2>. HIDE DEF V
  <2>. QED BY <2>1
<1>3. PICK f \in [Parsed -> V] : Unfolds(f, Parsed, V, Primitives, b, C)
  <2>. HIDE DEF V, b, C
  <2>. QED BY <1>1, <1>2, TreeFunction
<1>. HIDE DEF V
<1>4. Def(f)
  <2>1. ASSUME NEW t \in Parsed
        PROVE  f[t] = IF t \in Primitives THEN [size |-> FfiSize[t], align |-> FfiAlign[t], offsets |-> <<>>]
                              ELSE Aggregate([i \in DOMAIN t |-> f[t[i]]])
    <3>1. f[t] = IF t \in Primitives THEN b[t] ELSE C[t][[i \in DOMAIN t |-> f[t[i]]]]
      <4>. HIDE DEF b, C
      <4>. QED BY <1>3 DEF Unfolds
    <3>2. ASSUME t \notin Primitives
          PROVE  C[t][[i \in DOMAIN t |-> f[t[i]]]] = Aggregate([i \in DOMAIN t |-> f[t[i]]])
      <4>1. [i \in DOMAIN t |-> f[t[i]]] \in [DOMAIN t -> V]
        <5>1. \A i \in DOMAIN t : t[i] \in Parsed
          BY <3>2, ParsedFacts, SeqFacts
        <5>. QED BY <1>3, <5>1
      <4>. QED BY <3>2, <4>1
    <3>. QED BY <3>1, <3>2
  <2>2. f = [t \in Parsed |-> f[t]]
    BY <1>3
  <2>. QED BY <2>1, <2>2
<1>5. Def(FfiType)
  <2>. HIDE DEF Def
  <2>1. FfiType = CHOOSE g : Def(g)
    BY DEF FfiType, Def
  <2>. QED BY <1>4, <2>1
<1>6. FfiType = f
  <2>1. ASSUME NEW t \in Parsed, t \in Primitives PROVE FfiType[t] = b[t]
    BY <1>5, <2>1
  <2>2. ASSUME NEW t \in Parsed, t \notin Primitives, \A i \in DOMAIN t : FfiType[t[i]] \in V
        PROVE  FfiType[t] = C[t][[i \in DOMAIN t |-> FfiType[t[i]]]]
    <3>1. [i \in DOMAIN t |-> FfiType[t[i]]] \in [DOMAIN t -> V]
      BY <2>2
    <3>2. FfiType[t] = Aggregate([i \in DOMAIN t |-> FfiType[t[i]]])
      BY <1>5, <2>2
    <3>. QED BY <2>2, <3>1, <3>2
  <2>3. \A t \in Parsed : FfiType[t] = f[t]
    <3>. HIDE DEF b, C, Def
    <3>. QED BY <1>3, <2>1, <2>2 DEF Unfolds
  <2>4. FfiType = [t \in Parsed |-> FfiType[t]]
    BY <1>5
  <2>. QED BY <1>3, <2>3, <2>4
<1>7. \A t \in Parsed : FfiType[t] = IF t \in Primitives THEN [size |-> FfiSize[t], align |-> FfiAlign[t], offsets |-> <<>>]
                              ELSE Aggregate([i \in DOMAIN t |-> FfiType[t[i]]])
  BY <1>5
<1>. QED BY <1>3, <1>6, <1>7 DEF V

LEMMA CAlignOfFacts ==
    /\ CAlignOf \in [Parsed -> Nat \ {0}]
    /\ \A t \in Parsed : CAlignOf[t] = IF t \in Primitives THEN CAlign[t] ELSE Max({CAlignOf[t[i]] : i \in DOMAIN t})
<1>. DEFINE V == Nat \ {0}
            b == [t \in Parsed |-> IF t \in Primitives THEN CAlign[t] ELSE 1]
            C == [t \in Parsed \ Primitives |-> [m \in [DOMAIN t -> V] |-> Max({m[i] : i \in DOMAIN t})]]
            Def(f) == f = [t \in Parsed |-> IF t \in Primitives THEN CAlign[t] ELSE Max({f[t[i]] : i \in DOMAIN t})]
<1>1. b \in [Parsed -> V]
  BY LayoutAssumption
<1>2. \A t \in Parsed \ Primitives : C[t] \in [[DOMAIN t -> V] -> V]
  <2>1. ASSUME NEW t \in Parsed, t \notin Primitives, NEW m \in [DOMAIN t -> V] PROVE Max({m[i] : i \in DOMAIN t}) \in V
    <3>. DEFINE n == Len(t)
    <3>1. m \in [1..n -> V] /\ n \in Nat \ {0} /\ DOMAIN t = 1..n
      <4>. HIDE DEF V
      <4>. QED BY <2>1, MembersFacts
    <3>. HIDE DEF n
    <3>2. m \in [1..n -> Nat]
      BY <3>1
    <3>3. Max({m[i] : i \in 1..n}) \in {m[i] : i \in 1..n}
      BY <3>1, <3>2, LargestOf
    <3>. QED BY <3>1, <3>3
  <2>. HIDE DEF V
  <2>. QED BY <2>1
<1>3. PICK f \in [Parsed -> V] : Unfolds(f, Parsed, V, Primitives, b, C)
  <2>. HIDE DEF V, b, C
  <2>. QED BY <1>1, <1>2, TreeFunction
<1>. HIDE DEF V
<1>4. Def(f)
  <2>1. ASSUME NEW t \in Parsed
        PROVE  f[t] = IF t \in Primitives THEN CAlign[t] ELSE Max({f[t[i]] : i \in DOMAIN t})
    <3>1. f[t] = IF t \in Primitives THEN b[t] ELSE C[t][[i \in DOMAIN t |-> f[t[i]]]]
      <4>. HIDE DEF b, C
      <4>. QED BY <1>3 DEF Unfolds
    <3>2. ASSUME t \notin Primitives
          PROVE  C[t][[i \in DOMAIN t |-> f[t[i]]]] = Max({f[t[i]] : i \in DOMAIN t})
      <4>1. [i \in DOMAIN t |-> f[t[i]]] \in [DOMAIN t -> V]
        <5>1. \A i \in DOMAIN t : t[i] \in Parsed
          BY <3>2, ParsedFacts, SeqFacts
        <5>. QED BY <1>3, <5>1
      <4>. QED BY <3>2, <4>1
    <3>. QED BY <3>1, <3>2
  <2>2. f = [t \in Parsed |-> f[t]]
    BY <1>3
  <2>. QED BY <2>1, <2>2
<1>5. Def(CAlignOf)
  <2>. HIDE DEF Def
  <2>1. CAlignOf = CHOOSE g : Def(g)
    BY DEF CAlignOf, Def
  <2>. QED BY <1>4, <2>1
<1>6. CAlignOf = f
  <2>1. ASSUME NEW t \in Parsed, t \in Primitives PROVE CAlignOf[t] = b[t]
    BY <1>5, <2>1
  <2>2. ASSUME NEW t \in Parsed, t \notin Primitives, \A i \in DOMAIN t : CAlignOf[t[i]] \in V
        PROVE  CAlignOf[t] = C[t][[i \in DOMAIN t |-> CAlignOf[t[i]]]]
    <3>1. [i \in DOMAIN t |-> CAlignOf[t[i]]] \in [DOMAIN t -> V]
      BY <2>2
    <3>2. CAlignOf[t] = Max({CAlignOf[t[i]] : i \in DOMAIN t})
      BY <1>5, <2>2
    <3>. QED BY <2>2, <3>1, <3>2
  <2>3. \A t \in Parsed : CAlignOf[t] = f[t]
    <3>. HIDE DEF b, C, Def
    <3>. QED BY <1>3, <2>1, <2>2 DEF Unfolds
  <2>4. CAlignOf = [t \in Parsed |-> CAlignOf[t]]
    BY <1>5
  <2>. QED BY <1>3, <2>3, <2>4
<1>7. \A t \in Parsed : CAlignOf[t] = IF t \in Primitives THEN CAlign[t] ELSE Max({CAlignOf[t[i]] : i \in DOMAIN t})
  BY <1>5
<1>. QED BY <1>3, <1>6, <1>7 DEF V

\* Where a C compiler puts a struct's elements, and where it ends.
LEMMA CStructFacts ==
    ASSUME NEW ms \in Seq([Nat -> Places]), NEW align \in Nat \ {0}
    PROVE  /\ CStruct(ms, align) \in [Nat -> Places]
           /\ \A a \in Nat : LET to == CEnds(ms, AlignUp(a, align)) IN
                CStruct(ms, align)[a] =
                  [at  |-> FlattenSeq([i \in 1..Len(ms) |-> ms[i][to[i - 1]].at]),
                   end |-> AlignUp(to[Len(ms)], align)]
<1>. DEFINE n == Len(ms)
            to(a) == CEnds(ms, AlignUp(a, align))
            ats(a) == [i \in 1..n |-> ms[i][to(a)[i - 1]].at]
            Place(a) == [at |-> FlattenSeq(ats(a)), end |-> AlignUp(to(a)[n], align)]
<1>1. n \in Nat /\ DOMAIN ms = 1..n /\ \A i \in 1..n : ms[i] \in [Nat -> Places]
  BY SeqFacts
<1>2. CStruct(ms, align) = [a \in Nat |-> Place(a)]
  BY <1>1 DEF CStruct
<1>3. ASSUME NEW a \in Nat PROVE Place(a) \in Places
  <2>. HIDE DEF n
  <2>1. AlignUp(a, align) \in Nat
    BY AlignUpFacts
  <2>2. to(a) \in [0..n -> Nat] /\ \A i \in 1..n : to(a)[i - 1] \in Nat
    BY <2>1, CEndsFacts DEF n
  <2>. HIDE DEF to
  <2>3. ASSUME NEW i \in 1..n PROVE ms[i][to(a)[i - 1]].at \in Seq(Nat)
    <3>1. ms[i][to(a)[i - 1]] \in Places
      BY <1>1, <2>2
    <3>. QED BY <3>1 DEF Places
  <2>4. ats(a) \in Seq(Seq(Nat))
    <3>1. ats(a) \in [1..n -> Seq(Nat)]
      BY <2>3
    <3>. HIDE DEF ats
    <3>. QED BY <1>1, <3>1, SequenceOf
  <2>. HIDE DEF ats
  <2>5. FlattenSeq(ats(a)) \in Seq(Nat)
    BY <2>4, FlattenFacts
  <2>6. to(a)[n] \in Nat
    BY <1>1, <2>2
  <2>7. AlignUp(to(a)[n], align) \in Nat
    BY <2>6, AlignUpFacts
  <2>. QED BY <2>5, <2>7 DEF Places
<1>4. CStruct(ms, align) \in [Nat -> Places]
  <2>. HIDE DEF Place
  <2>. QED BY <1>2, <1>3
<1>5. \A a \in Nat : CStruct(ms, align)[a] = Place(a)
  <2>. HIDE DEF Place
  <2>. QED BY <1>2
<1>. QED BY <1>4, <1>5

\* The offsets of a struct's elements.
LEMMA WalkChildrenFacts ==
    ASSUME NEW walks \in Seq([Nat -> Seq(Nat)]), NEW offsets,
           \A i \in 1..Len(walks) : offsets[i] \in Nat
    PROVE  /\ WalkChildren(walks, offsets) \in [Nat -> Seq(Nat)]
           /\ \A o \in Nat : WalkChildren(walks, offsets)[o] =
                              FlattenSeq([i \in 1..Len(walks) |-> walks[i][o + offsets[i]]])
<1>. DEFINE n == Len(walks)
            parts(o) == [i \in 1..n |-> walks[i][o + offsets[i]]]
<1>1. n \in Nat /\ DOMAIN walks = 1..n /\ \A i \in 1..n : walks[i] \in [Nat -> Seq(Nat)]
  BY SeqFacts
<1>2. \A o \in Nat, i \in 1..n : offsets[i] \in Nat /\ AbsOffset(o, offsets[i]) = o + offsets[i] /\ o + offsets[i] \in Nat
  <2>1. \A o \in Nat, k \in Nat : k + o = o + k /\ o + k \in Nat
    OBVIOUS
  <2>. HIDE DEF n
  <2>. QED BY <2>1 DEF n, AbsOffset
<1>3. ASSUME NEW o \in Nat
      PROVE  [i \in DOMAIN walks |-> walks[i][AbsOffset(o, offsets[i])]] = parts(o)
  <2>. HIDE DEF n
  <2>. QED BY <1>1, <1>2
<1>4. \A o \in Nat : WalkChildren(walks, offsets)[o] = FlattenSeq(parts(o))
  <2>. HIDE DEF parts
  <2>. QED BY <1>3 DEF WalkChildren
<1>5. ASSUME NEW o \in Nat PROVE FlattenSeq(parts(o)) \in Seq(Nat)
  <2>. HIDE DEF n
  <2>1. parts(o) \in [1..n -> Seq(Nat)]
    BY <1>1, <1>2
  <2>. HIDE DEF parts
  <2>2. parts(o) \in Seq(Seq(Nat))
    BY <1>1, <2>1, SequenceOf
  <2>. QED BY <2>2, FlattenFacts
<1>6. WalkChildren(walks, offsets) \in [Nat -> Seq(Nat)]
  <2>1. WalkChildren(walks, offsets) = [o \in Nat |-> WalkChildren(walks, offsets)[o]]
    BY DEF WalkChildren
  <2>. HIDE DEF parts
  <2>. QED BY <1>4, <1>5, <2>1
<1>. QED BY <1>4, <1>6

LEMMA CPlaceFacts ==
    /\ CPlace \in [Parsed -> [Nat -> Places]]
    /\ \A t \in Parsed : CPlace[t] = IF t \in Primitives
                 THEN [a \in Nat |-> LET start == AlignUp(a, CAlign[t]) IN [at |-> <<start>>, end |-> start + CSize[t]]]
                 ELSE CStruct([i \in DOMAIN t |-> CPlace[t[i]]], CAlignOf[t])
<1>. DEFINE V == [Nat -> Places]
            b == [t \in Parsed |-> IF t \in Primitives
                                THEN [a \in Nat |-> LET start == AlignUp(a, CAlign[t]) IN [at |-> <<start>>, end |-> start + CSize[t]]]
                                ELSE [a \in Nat |-> [at |-> <<>>, end |-> 0]]]
            C == [t \in Parsed \ Primitives |-> [m \in [DOMAIN t -> V] |-> CStruct(m, CAlignOf[t])]]
            Def(f) == f = [t \in Parsed |-> IF t \in Primitives
                 THEN [a \in Nat |-> LET start == AlignUp(a, CAlign[t]) IN [at |-> <<start>>, end |-> start + CSize[t]]]
                 ELSE CStruct([i \in DOMAIN t |-> f[t[i]]], CAlignOf[t])]
<1>1. b \in [Parsed -> V]
  <2>1. ASSUME NEW t \in Primitives, NEW a \in Nat
        PROVE  [at |-> <<AlignUp(a, CAlign[t])>>, end |-> AlignUp(a, CAlign[t]) + CSize[t]] \in Places
    <3>1. CAlign[t] \in Nat \ {0} /\ CSize[t] \in Nat
      BY LayoutAssumption
    <3>2. AlignUp(a, CAlign[t]) \in Nat
      BY <3>1, AlignUpFacts
    <3>. QED BY <3>1, <3>2 DEF Places
  <2>2. [at |-> <<>>, end |-> 0] \in Places
    BY DEF Places
  <2>. QED BY <2>1, <2>2
<1>2. \A t \in Parsed \ Primitives : C[t] \in [[DOMAIN t -> V] -> V]
  <2>1. ASSUME NEW t \in Parsed, t \notin Primitives, NEW m \in [DOMAIN t -> V] PROVE CStruct(m, CAlignOf[t]) \in V
    <3>1. m \in Seq(V)
      <4>. HIDE DEF V
      <4>. QED BY <2>1, MembersFacts
    <3>2. CAlignOf[t] \in Nat \ {0}
      BY CAlignOfFacts
    <3>. QED BY <3>1, <3>2, CStructFacts
  <2>. HIDE DEF V
  <2>. QED BY <2>1
<1>3. PICK f \in [Parsed -> V] : Unfolds(f, Parsed, V, Primitives, b, C)
  <2>. HIDE DEF V, b, C
  <2>. QED BY <1>1, <1>2, TreeFunction
<1>. HIDE DEF V
<1>4. Def(f)
  <2>1. ASSUME NEW t \in Parsed
        PROVE  f[t] = IF t \in Primitives
                 THEN [a \in Nat |-> LET start == AlignUp(a, CAlign[t]) IN [at |-> <<start>>, end |-> start + CSize[t]]]
                 ELSE CStruct([i \in DOMAIN t |-> f[t[i]]], CAlignOf[t])
    <3>1. f[t] = IF t \in Primitives THEN b[t] ELSE C[t][[i \in DOMAIN t |-> f[t[i]]]]
      <4>. HIDE DEF b, C
      <4>. QED BY <1>3 DEF Unfolds
    <3>2. ASSUME t \notin Primitives
          PROVE  C[t][[i \in DOMAIN t |-> f[t[i]]]] = CStruct([i \in DOMAIN t |-> f[t[i]]], CAlignOf[t])
      <4>1. [i \in DOMAIN t |-> f[t[i]]] \in [DOMAIN t -> V]
        <5>1. \A i \in DOMAIN t : t[i] \in Parsed
          BY <3>2, ParsedFacts, SeqFacts
        <5>. QED BY <1>3, <5>1
      <4>. QED BY <3>2, <4>1
    <3>. QED BY <3>1, <3>2
  <2>2. f = [t \in Parsed |-> f[t]]
    BY <1>3
  <2>. QED BY <2>1, <2>2
<1>5. Def(CPlace)
  <2>. HIDE DEF Def
  <2>1. CPlace = CHOOSE g : Def(g)
    BY DEF CPlace, Def
  <2>. QED BY <1>4, <2>1
<1>6. CPlace = f
  <2>1. ASSUME NEW t \in Parsed, t \in Primitives PROVE CPlace[t] = b[t]
    BY <1>5, <2>1
  <2>2. ASSUME NEW t \in Parsed, t \notin Primitives, \A i \in DOMAIN t : CPlace[t[i]] \in V
        PROVE  CPlace[t] = C[t][[i \in DOMAIN t |-> CPlace[t[i]]]]
    <3>1. [i \in DOMAIN t |-> CPlace[t[i]]] \in [DOMAIN t -> V]
      BY <2>2
    <3>2. CPlace[t] = CStruct([i \in DOMAIN t |-> CPlace[t[i]]], CAlignOf[t])
      BY <1>5, <2>2
    <3>. QED BY <2>2, <3>1, <3>2
  <2>3. \A t \in Parsed : CPlace[t] = f[t]
    <3>. HIDE DEF b, C, Def
    <3>. QED BY <1>3, <2>1, <2>2 DEF Unfolds
  <2>4. CPlace = [t \in Parsed |-> CPlace[t]]
    BY <1>5
  <2>. QED BY <1>3, <2>3, <2>4
<1>7. \A t \in Parsed : CPlace[t] = IF t \in Primitives
                 THEN [a \in Nat |-> LET start == AlignUp(a, CAlign[t]) IN [at |-> <<start>>, end |-> start + CSize[t]]]
                 ELSE CStruct([i \in DOMAIN t |-> CPlace[t[i]]], CAlignOf[t])
  BY <1>5
<1>. QED BY <1>3, <1>6, <1>7 DEF V

\* libffi's members of a struct.
LEMMA StructOffsetsFacts ==
    ASSUME NEW t \in Parsed, t \notin Primitives
    PROVE  LET ms == [i \in 1..Len(t) |-> FfiType[t[i]]] IN
           /\ ms \in Seq(FfiTypes) /\ Len(ms) = Len(t) /\ Len(t) \in Nat \ {0}
           /\ FfiType[t] = Aggregate(ms)
           /\ \A i \in 1..Len(t) : /\ StructOffsets(t)[i] = AlignUp(FfiEnds(ms)[i - 1], ms[i].align)
                                   /\ StructOffsets(t)[i] \in Nat
<1>. DEFINE ms == [i \in 1..Len(t) |-> FfiType[t[i]]]
<1>1. /\ DOMAIN t = 1..Len(t) /\ Len(t) \in Nat \ {0} /\ \A i \in 1..Len(t) : t[i] \in Parsed
  BY ParsedFacts, SeqFacts
<1>2. ms \in [1..Len(t) -> FfiTypes]
  BY <1>1, FfiTypeFacts
<1>3. FfiType[t] = Aggregate(ms)
  BY <1>1, FfiTypeFacts
<1>. HIDE DEF ms
<1>4. ms \in Seq(FfiTypes) /\ Len(ms) = Len(t)
  BY <1>1, <1>2, SequenceOf
<1>5. ASSUME NEW i \in 1..Len(t)
      PROVE  /\ StructOffsets(t)[i] = AlignUp(FfiEnds(ms)[i - 1], ms[i].align)
             /\ StructOffsets(t)[i] \in Nat
  <2>1. i \in 1..Len(ms) /\ Len(ms) # 0
    BY <1>1, <1>4
  <2>2. Aggregate(ms).offsets[i] = AlignUp(FfiEnds(ms)[i - 1], ms[i].align)
    BY <1>4, <2>1, AggregateFacts
  <2>3. ms[i].align \in Nat \ {0} /\ FfiEnds(ms)[i - 1] \in Nat
    BY <1>4, <2>1, FfiEndsFacts
  <2>4. AlignUp(FfiEnds(ms)[i - 1], ms[i].align) \in Nat
    BY <2>3, AlignUpFacts
  <2>. QED BY <1>3, <2>2, <2>4 DEF StructOffsets
<1>. QED BY <1>1, <1>3, <1>4, <1>5 DEF ms

LEMMA WalkFacts ==
    /\ Walk \in [Parsed -> [Nat -> Seq(Nat)]]
    /\ \A t \in Parsed : Walk[t] = IF t \in Primitives THEN [o \in Nat |-> <<o>>]
                 ELSE WalkChildren([i \in DOMAIN t |-> Walk[t[i]]], StructOffsets(t))
<1>. DEFINE V == [Nat -> Seq(Nat)]
            b == [t \in Parsed |-> IF t \in Primitives THEN [o \in Nat |-> <<o>>] ELSE [o \in Nat |-> <<>>]]
            C == [t \in Parsed \ Primitives |-> [m \in [DOMAIN t -> V] |-> WalkChildren(m, StructOffsets(t))]]
            Def(f) == f = [t \in Parsed |-> IF t \in Primitives THEN [o \in Nat |-> <<o>>]
                 ELSE WalkChildren([i \in DOMAIN t |-> f[t[i]]], StructOffsets(t))]
<1>1. b \in [Parsed -> V]
  <2>1. ASSUME NEW o \in Nat PROVE <<o>> \in Seq(Nat) /\ <<>> \in Seq(Nat)
    BY <2>1
  <2>. QED BY <2>1
<1>2. \A t \in Parsed \ Primitives : C[t] \in [[DOMAIN t -> V] -> V]
  <2>1. ASSUME NEW t \in Parsed, t \notin Primitives, NEW m \in [DOMAIN t -> V] PROVE WalkChildren(m, StructOffsets(t)) \in V
    <3>1. m \in Seq(V) /\ Len(m) = Len(t)
      <4>. HIDE DEF V
      <4>. QED BY <2>1, MembersFacts
    <3>2. \A i \in 1..Len(m) : StructOffsets(t)[i] \in Nat
      BY <2>1, <3>1, StructOffsetsFacts
    <3>. QED BY <3>1, <3>2, WalkChildrenFacts
  <2>. HIDE DEF V
  <2>. QED BY <2>1
<1>3. PICK f \in [Parsed -> V] : Unfolds(f, Parsed, V, Primitives, b, C)
  <2>. HIDE DEF V, b, C
  <2>. QED BY <1>1, <1>2, TreeFunction
<1>. HIDE DEF V
<1>4. Def(f)
  <2>1. ASSUME NEW t \in Parsed
        PROVE  f[t] = IF t \in Primitives THEN [o \in Nat |-> <<o>>]
                 ELSE WalkChildren([i \in DOMAIN t |-> f[t[i]]], StructOffsets(t))
    <3>1. f[t] = IF t \in Primitives THEN b[t] ELSE C[t][[i \in DOMAIN t |-> f[t[i]]]]
      <4>. HIDE DEF b, C
      <4>. QED BY <1>3 DEF Unfolds
    <3>2. ASSUME t \notin Primitives
          PROVE  C[t][[i \in DOMAIN t |-> f[t[i]]]] = WalkChildren([i \in DOMAIN t |-> f[t[i]]], StructOffsets(t))
      <4>1. [i \in DOMAIN t |-> f[t[i]]] \in [DOMAIN t -> V]
        <5>1. \A i \in DOMAIN t : t[i] \in Parsed
          BY <3>2, ParsedFacts, SeqFacts
        <5>. QED BY <1>3, <5>1
      <4>. QED BY <3>2, <4>1
    <3>. QED BY <3>1, <3>2
  <2>2. f = [t \in Parsed |-> f[t]]
    BY <1>3
  <2>. QED BY <2>1, <2>2
<1>5. Def(Walk)
  <2>. HIDE DEF Def
  <2>1. Walk = CHOOSE g : Def(g)
    BY DEF Walk, Def
  <2>. QED BY <1>4, <2>1
<1>6. Walk = f
  <2>1. ASSUME NEW t \in Parsed, t \in Primitives PROVE Walk[t] = b[t]
    BY <1>5, <2>1
  <2>2. ASSUME NEW t \in Parsed, t \notin Primitives, \A i \in DOMAIN t : Walk[t[i]] \in V
        PROVE  Walk[t] = C[t][[i \in DOMAIN t |-> Walk[t[i]]]]
    <3>1. [i \in DOMAIN t |-> Walk[t[i]]] \in [DOMAIN t -> V]
      BY <2>2
    <3>2. Walk[t] = WalkChildren([i \in DOMAIN t |-> Walk[t[i]]], StructOffsets(t))
      BY <1>5, <2>2
    <3>. QED BY <2>2, <3>1, <3>2
  <2>3. \A t \in Parsed : Walk[t] = f[t]
    <3>. HIDE DEF b, C, Def
    <3>. QED BY <1>3, <2>1, <2>2 DEF Unfolds
  <2>4. Walk = [t \in Parsed |-> Walk[t]]
    BY <1>5
  <2>. QED BY <1>3, <2>3, <2>4
<1>7. \A t \in Parsed : Walk[t] = IF t \in Primitives THEN [o \in Nat |-> <<o>>]
                 ELSE WalkChildren([i \in DOMAIN t |-> Walk[t[i]]], StructOffsets(t))
  BY <1>5
<1>. QED BY <1>3, <1>6, <1>7 DEF V

-----------------------------------------------------------------------------
(* A type is laid out alike on both sides *)

\* The table, libffi and C have one size and one alignment for each primitive.
SizesAgree ==
    \A p \in Primitives : Width[p] = CSize[p] /\ FfiSize[p] = CSize[p] /\ FfiAlign[p] = CAlign[p]

Alignments == {CAlign[p] : p \in Primitives}

LEMMA AlignmentFacts ==
    \A a, b \in Alignments : a \in Nat \ {0} /\ (a <= b => Aligned(b, a))
<1>. SUFFICES ASSUME NEW p \in Primitives, NEW q \in Primitives
              PROVE  CAlign[p] \in Nat \ {0} /\ (CAlign[p] <= CAlign[q] => Aligned(CAlign[q], CAlign[p]))
  BY DEF Alignments
<1>1. CAlign[p] \in Nat \ {0} /\ CAlign[q] \in Nat
  BY LayoutAssumption
<1>2. CAlign[p] <= CAlign[q] => CAlign[q] % CAlign[p] = 0
  BY AlignmentAssumption
<1>. QED BY <1>1, <1>2, NoRemainder

\* The elements es are at the offsets os, one after the other from o on, and the
\* last of them ends at z.
Laid(es, os, o, z) ==
    /\ es \in Seq(Primitives) /\ os \in Seq(Nat) /\ Len(es) = Len(os) /\ Len(os) # 0
    /\ os[1] = o /\ z = os[Len(os)] + CSize[es[Len(os)]]
    /\ \A d, e \in 1..Len(os) : d < e => os[d] + CSize[es[d]] <= os[e]

\* libffi's layout of t is the C compiler's, and walkTree finds the elements where
\* the compiler has them; only padding comes after the last of them.
LaidOut(t) ==
    /\ CAlignOf[t] \in Alignments /\ FfiType[t].align = CAlignOf[t]
    /\ \A o \in Nat : Aligned(o, CAlignOf[t]) =>
         \E z \in Nat : Laid(Leaves[t], Walk[t][o], o, z) /\ AlignUp(z, CAlignOf[t]) = o + FfiType[t].size
    /\ \A a \in Nat : LET o == AlignUp(a, CAlignOf[t]) IN
         CPlace[t][a] = [at |-> Walk[t][o], end |-> o + FfiType[t].size]

LEMMA LaidFacts ==
    ASSUME NEW es, NEW os, NEW o, NEW z, Laid(es, os, o, z)
    PROVE  /\ Len(os) \in Nat \ {0} /\ z \in Nat
           /\ \A e \in 1..Len(os) : /\ os[e] \in Nat /\ es[e] \in Primitives
                                     /\ CSize[es[e]] \in Nat \ {0}
                                     /\ o <= os[e] /\ os[e] + CSize[es[e]] <= z
<1>. DEFINE n == Len(os)
<1>1. /\ n \in Nat \ {0} /\ Len(es) = n
      /\ \A e \in 1..n : os[e] \in Nat /\ es[e] \in Primitives
      /\ os[1] = o /\ z = os[n] + CSize[es[n]]
      /\ \A d, e \in 1..n : d < e => os[d] + CSize[es[d]] <= os[e]
  BY SeqFacts DEF Laid
<1>2. \A e \in 1..n : CSize[es[e]] \in Nat \ {0}
  <2>. HIDE DEF n
  <2>. QED BY <1>1, LayoutAssumption
<1>. HIDE DEF n
<1>3. 1 \in 1..n /\ n \in 1..n
  BY <1>1
<1>4. z \in Nat
  BY <1>1, <1>2, <1>3
<1>5. ASSUME NEW e \in 1..n PROVE o <= os[e] /\ os[e] + CSize[es[e]] <= z
  <2>1. e = 1 \/ 1 < e
    OBVIOUS
  <2>2. e = n \/ e < n
    BY <1>1
  <2>. DEFINE c == CSize[es[e]]  c1 == CSize[es[1]]  cn == CSize[es[n]]
  <2>3. c \in Nat /\ c1 \in Nat /\ cn \in Nat
    BY <1>2, <1>3
  <2>4. 1 < e => os[1] + c1 <= os[e]
    BY <1>1, <1>3
  <2>5. e < n => os[e] + c <= os[n]
    BY <1>1, <1>3
  <2>6. z = os[n] + cn /\ os[1] \in Nat /\ os[n] \in Nat /\ os[e] \in Nat /\ o = os[1]
    BY <1>1, <1>3
  <2>7. e = n => c = cn
    OBVIOUS
  <2>. HIDE DEF c, c1, cn
  <2>8. o <= os[e]
    BY <2>1, <2>3, <2>4, <2>6
  <2>9. os[e] + c <= z
    BY <2>2, <2>3, <2>5, <2>6, <2>7
  <2>. QED BY <2>8, <2>9 DEF c
<1>. QED BY <1>1, <1>2, <1>4, <1>5 DEF n

\* What is laid after what is laid.
LEMMA LaidTogether ==
    ASSUME NEW es, NEW os, NEW o, NEW z, Laid(es, os, o, z),
           NEW fs, NEW ps, NEW p, NEW y, Laid(fs, ps, p, y), z <= p
    PROVE  Laid(es \o fs, os \o ps, o, y)
<1>. DEFINE n == Len(os)  m == Len(ps)  gs == es \o fs  qs == os \o ps
<1>1. /\ n \in Nat \ {0} /\ Len(es) = n /\ m \in Nat \ {0} /\ Len(fs) = m
      /\ gs \in Seq(Primitives) /\ qs \in Seq(Nat) /\ Len(gs) = n + m /\ Len(qs) = n + m
      /\ \A e \in 1..n : gs[e] = es[e] /\ qs[e] = os[e]
      /\ \A e \in 1..m : gs[n + e] = fs[e] /\ qs[n + e] = ps[e]
  <2>1. /\ es \in Seq(Primitives) /\ fs \in Seq(Primitives) /\ os \in Seq(Nat) /\ ps \in Seq(Nat)
        /\ Len(es) = n /\ Len(fs) = m /\ n \in Nat \ {0} /\ m \in Nat \ {0}
    BY LaidFacts DEF Laid
  <2>. HIDE DEF n, m
  <2>2. gs \in Seq(Primitives) /\ qs \in Seq(Nat) /\ Len(gs) = n + m /\ Len(qs) = n + m
    <3>1. gs \in Seq(Primitives) /\ Len(gs) = Len(es) + Len(fs)
      BY <2>1, ConcatProperties
    <3>2. qs \in Seq(Nat) /\ Len(qs) = Len(os) + Len(ps)
      BY <2>1, ConcatProperties
    <3>. QED BY <2>1, <3>1, <3>2 DEF n, m
  <2>3. \A e \in 1..(n + m) : gs[e] = IF e <= n THEN es[e] ELSE fs[e - n]
    BY <2>1, ConcatProperties
  <2>4. \A e \in 1..(n + m) : qs[e] = IF e <= n THEN os[e] ELSE ps[e - n]
    BY <2>1, ConcatProperties DEF n, m
  <2>. HIDE DEF gs, qs
  <2>5. \A e \in 1..n : e \in 1..(n + m) /\ e <= n
    BY <2>1
  <2>6. \A e \in 1..m : n + e \in 1..(n + m) /\ ~(n + e <= n) /\ (n + e) - n = e
    BY <2>1
  <2>7. \A e \in 1..n : gs[e] = es[e] /\ qs[e] = os[e]
    BY <2>3, <2>4, <2>5
  <2>8. \A e \in 1..m : gs[n + e] = fs[e] /\ qs[n + e] = ps[e]
    BY <2>3, <2>4, <2>6
  <2>. QED BY <2>1, <2>2, <2>7, <2>8
<1>2. /\ os[1] = o /\ p \in Nat /\ z \in Nat
      /\ \A e \in 1..n : os[e] \in Nat /\ CSize[es[e]] \in Nat /\ os[e] + CSize[es[e]] <= z
      /\ \A e \in 1..m : ps[e] \in Nat /\ p <= ps[e]
  <2>1. os[1] = o /\ ps[1] = p /\ 1 \in 1..m
    BY LaidFacts DEF Laid
  <2>2. z \in Nat /\ \A e \in 1..n : os[e] \in Nat /\ CSize[es[e]] \in Nat /\ os[e] + CSize[es[e]] <= z
    BY LaidFacts
  <2>3. \A e \in 1..m : ps[e] \in Nat /\ p <= ps[e]
    BY LaidFacts
  <2>. HIDE DEF n, m
  <2>. QED BY <2>1, <2>2, <2>3
<1>3. /\ \A d, e \in 1..n : d < e => os[d] + CSize[es[d]] <= os[e]
      /\ \A d, e \in 1..m : d < e => ps[d] + CSize[fs[d]] <= ps[e]
      /\ y = ps[m] + CSize[fs[m]]
  BY DEF Laid
<1>. HIDE DEF n, m, gs, qs
<1>4. ASSUME NEW d \in 1..(n + m), NEW e \in 1..(n + m), d < e
      PROVE  qs[d] + CSize[gs[d]] <= qs[e]
  <2>1. CASE e <= n
    <3>1. d \in 1..n /\ e \in 1..n
      BY <1>1, <1>4, <2>1
    <3>. QED BY <1>1, <1>3, <1>4, <3>1
  <2>2. CASE ~(e <= n) /\ d <= n
    <3>1. d \in 1..n /\ e - n \in 1..m /\ n + (e - n) = e
      BY <1>1, <2>2
    <3>2. qs[e] = ps[e - n] /\ qs[d] = os[d] /\ gs[d] = es[d]
      BY <1>1, <3>1
    <3>3. os[d] + CSize[es[d]] <= z /\ p <= ps[e - n] /\ ps[e - n] \in Nat /\ os[d] \in Nat /\ CSize[es[d]] \in Nat
      BY <1>2, <3>1
    <3>. QED BY <1>2, <3>2, <3>3
  <2>3. CASE ~(e <= n) /\ ~(d <= n)
    <3>1. d - n \in 1..m /\ e - n \in 1..m /\ n + (e - n) = e /\ n + (d - n) = d /\ d - n < e - n
      BY <1>1, <1>4, <2>3
    <3>2. qs[e] = ps[e - n] /\ qs[d] = ps[d - n] /\ gs[d] = fs[d - n]
      BY <1>1, <3>1
    <3>3. ps[d - n] + CSize[fs[d - n]] <= ps[e - n]
      BY <1>3, <3>1
    <3>. QED BY <3>2, <3>3
  <2>. QED BY <1>1, <2>1, <2>2, <2>3
<1>5. qs[1] = o /\ y = qs[n + m] + CSize[gs[n + m]]
  <2>1. 1 \in 1..n /\ m \in 1..m
    BY <1>1
  <2>. QED BY <1>1, <1>2, <1>3, <2>1
<1>6. Len(qs) # 0
  BY <1>1
<1>. QED BY <1>1, <1>4, <1>5, <1>6 DEF Laid, gs, qs

LEMMA PrimitiveLaidOut ==
    ASSUME SizesAgree, NEW t \in Parsed, t \in Primitives
    PROVE  LaidOut(t)
<1>. DEFINE a == CAlign[t]  c == CSize[t]
<1>1. a \in Nat \ {0} /\ c \in Nat \ {0} /\ a \in Alignments /\ Aligned(c, a)
  <2>1. a \in Nat \ {0} /\ c \in Nat \ {0} /\ a \in Alignments
    BY LayoutAssumption DEF Alignments
  <2>2. c % a = 0
    BY AlignmentAssumption
  <2>. HIDE DEF a, c
  <2>3. c \in Nat
    BY <2>1
  <2>4. Aligned(c, a)
    BY <2>1, <2>2, <2>3, NoRemainder
  <2>. QED BY <2>1, <2>4
<1>2. CAlignOf[t] = a
  BY CAlignOfFacts
<1>3. FfiType[t].align = a /\ FfiType[t].size = c
  <2>1. FfiType[t] = [size |-> FfiSize[t], align |-> FfiAlign[t], offsets |-> <<>>]
    BY FfiTypeFacts, Zenon
  <2>2. FfiSize[t] = c /\ FfiAlign[t] = a
    BY DEF SizesAgree
  <2>. HIDE DEF a, c
  <2>. QED BY <2>1, <2>2
<1>4. Leaves[t] = <<t>>
  BY LeavesFacts
<1>5. \A o \in Nat : Walk[t][o] = <<o>>
  BY WalkFacts
<1>6. \A x \in Nat : CPlace[t][x] = [at |-> <<AlignUp(x, a)>>, end |-> AlignUp(x, a) + c]
  BY CPlaceFacts
<1>. HIDE DEF a, c
<1>7. ASSUME NEW o \in Nat, Aligned(o, a)
      PROVE  Laid(Leaves[t], Walk[t][o], o, o + c) /\ AlignUp(o + c, a) = o + c
  <2>1. <<t>> \in Seq(Primitives) /\ <<o>> \in Seq(Nat) /\ Len(<<t>>) = 1 /\ Len(<<o>>) = 1
    OBVIOUS
  <2>2. <<o>>[1] = o /\ <<t>>[1] = t
    OBVIOUS
  <2>3. \A d, e \in 1..1 : ~(d < e)
    OBVIOUS
  <2>4. Laid(<<t>>, <<o>>, o, o + c)
    BY <2>1, <2>2, <2>3 DEF Laid, c
  <2>5. o + c \in Nat /\ Aligned(o + c, a)
    BY <1>1, <1>7, AlignedFacts
  <2>6. AlignUp(o + c, a) = o + c
    BY <1>1, <2>5, AlignUpOfMultiple
  <2>. QED BY <1>4, <1>5, <2>4, <2>6
<1>8. \A o \in Nat : o + c \in Nat
  BY <1>1
<1>9. \A x \in Nat : AlignUp(x, a) \in Nat
  BY <1>1, AlignUpFacts
<1>10. \A o \in Nat : Aligned(o, CAlignOf[t]) =>
         \E z \in Nat : Laid(Leaves[t], Walk[t][o], o, z) /\ AlignUp(z, CAlignOf[t]) = o + FfiType[t].size
  BY <1>2, <1>3, <1>7, <1>8
<1>11. \A x \in Nat : LET o == AlignUp(x, CAlignOf[t]) IN
         CPlace[t][x] = [at |-> Walk[t][o], end |-> o + FfiType[t].size]
  BY <1>2, <1>3, <1>5, <1>6, <1>9
<1>. QED BY <1>1, <1>2, <1>3, <1>10, <1>11 DEF LaidOut

\* A struct of members that are laid out alike is.
LEMMA StructLaidOut ==
    ASSUME NEW t \in Parsed, t \notin Primitives, \A i \in 1..Len(t) : LaidOut(t[i])
    PROVE  LaidOut(t)
<1>. DEFINE n == Len(t)
            ms == [i \in 1..Len(t) |-> FfiType[t[i]]]
            to == FfiEnds(ms)
            off == StructOffsets(t)
            align == CAlignOf[t]
            al == [i \in 1..n |-> CAlignOf[t[i]]]
            size == [i \in 1..n |-> FfiType[t[i]].size]
<1>1. /\ n \in Nat \ {0} /\ DOMAIN t = 1..n /\ \A i \in 1..n : t[i] \in Parsed
  BY ParsedFacts, SeqFacts
<1>2. /\ ms \in Seq(FfiTypes) /\ Len(ms) = n /\ FfiType[t] = Aggregate(ms)
      /\ \A i \in 1..n : off[i] = AlignUp(to[i - 1], ms[i].align) /\ off[i] \in Nat
  <2>. HIDE DEF to, off
  <2>. QED BY StructOffsetsFacts DEF to, off
<1>3. \A i \in 1..n : /\ al[i] \in Alignments /\ al[i] \in Nat \ {0}
                      /\ ms[i].align = al[i] /\ ms[i].size = size[i] /\ size[i] \in Nat
                      /\ FfiType[t[i]].size = size[i] /\ CAlignOf[t[i]] = al[i]
  <2>. SUFFICES ASSUME NEW i \in 1..n
                PROVE  /\ al[i] \in Alignments /\ al[i] \in Nat \ {0}
                       /\ ms[i].align = al[i] /\ ms[i].size = size[i] /\ size[i] \in Nat
                       /\ FfiType[t[i]].size = size[i] /\ CAlignOf[t[i]] = al[i]
    OBVIOUS
  <2>1. ms[i] = FfiType[t[i]] /\ FfiType[t[i]] \in FfiTypes
    BY <1>1, FfiTypeFacts
  <2>2. FfiType[t[i]].size \in Nat
    BY <2>1 DEF FfiTypes
  <2>3. CAlignOf[t[i]] \in Alignments /\ FfiType[t[i]].align = CAlignOf[t[i]]
    BY DEF LaidOut
  <2>. QED BY <2>1, <2>2, <2>3, AlignmentFacts
<1>4. /\ align \in Alignments /\ align \in Nat \ {0} /\ FfiType[t].align = align
      /\ FfiType[t].size = AlignUp(to[n], align)
      /\ \A i \in 1..n : Aligned(align, al[i])
  <2>1. align = Max({al[i] : i \in 1..n})
    <3>1. align = Max({CAlignOf[t[i]] : i \in DOMAIN t})
      BY CAlignOfFacts
    <3>2. {CAlignOf[t[i]] : i \in DOMAIN t} = {al[i] : i \in 1..n}
      BY <1>1
    <3>. QED BY <3>1, <3>2
  <2>2. {ms[i].align : i \in 1..n} = {al[i] : i \in 1..n}
    <3>. HIDE DEF ms, al, n
    <3>. QED BY <1>3
  <2>. HIDE DEF n, ms, al, to, align
  <2>3. /\ Aggregate(ms).align \in {ms[i].align : i \in 1..n}
        /\ \A i \in 1..n : ms[i].align <= Aggregate(ms).align
        /\ Aggregate(ms).align = Max({ms[i].align : i \in 1..n})
        /\ Aggregate(ms).size = AlignUp(to[n], Aggregate(ms).align)
    <3>1. Len(ms) # 0
      BY <1>1, <1>2
    <3>. QED BY <1>2, <3>1, AggregateFacts DEF to
  <2>4. FfiType[t].align = align
    BY <1>2, <2>1, <2>2, <2>3
  <2>5. align \in {al[i] : i \in 1..n} /\ \A i \in 1..n : al[i] <= align
    <3>1. align = Aggregate(ms).align
      BY <1>2, <2>4
    <3>2. \A i \in 1..n : ms[i].align = al[i]
      BY <1>3
    <3>. QED BY <2>2, <2>3, <3>1, <3>2
  <2>6. align \in Alignments
    BY <1>3, <2>5
  <2>. QED BY <1>2, <1>3, <2>3, <2>4, <2>5, <2>6, AlignmentFacts
<1>5. /\ to \in [0..n -> Nat] /\ to[0] = 0
      /\ \A i \in 1..n : /\ to[i - 1] \in Nat /\ to[i] \in Nat
                          /\ off[i] \in Nat /\ off[i] = AlignUp(to[i - 1], al[i])
                          /\ to[i] = off[i] + size[i] /\ to[i - 1] <= off[i] /\ Aligned(off[i], al[i])
  <2>. HIDE DEF n, ms, al, to, off, size
  <2>1. /\ to \in [0..n -> Nat] /\ to[0] = 0
        /\ \A i \in 1..n : to[i - 1] \in Nat /\ to[i] = AlignUp(to[i - 1], ms[i].align) + ms[i].size
    BY <1>2, FfiEndsFacts DEF to
  <2>2. \A i \in 1..n : off[i] \in Nat /\ off[i] = AlignUp(to[i - 1], al[i]) /\ to[i] = off[i] + size[i]
    BY <1>2, <1>3, <2>1
  <2>3. \A i \in 1..n : to[i - 1] <= off[i] /\ Aligned(off[i], al[i])
    <3>. SUFFICES ASSUME NEW i \in 1..n PROVE to[i - 1] <= off[i] /\ Aligned(off[i], al[i])
      OBVIOUS
    <3>. DEFINE k == to[i - 1]  a == al[i]
    <3>1. k \in Nat /\ a \in Nat \ {0} /\ off[i] = AlignUp(k, a)
      BY <1>3, <2>1, <2>2
    <3>. HIDE DEF k, a
    <3>2. k <= AlignUp(k, a) /\ Aligned(AlignUp(k, a), a)
      BY <3>1, AlignUpFacts
    <3>. QED BY <3>1, <3>2 DEF k, a
  <2>4. \A i \in 1..n : to[i] \in Nat
    BY <1>3, <2>2
  <2>. QED BY <2>1, <2>2, <2>3, <2>4
<1>6. \A i \in 1..n : /\ LaidOut(t[i]) /\ t[i] \in Parsed
  BY <1>1
<1>7. \A o \in Nat : Walk[t][o] = FlattenSeq([i \in 1..n |-> Walk[t[i]][o + off[i]]])
  <2>. DEFINE walks == [i \in 1..n |-> Walk[t[i]]]
  <2>1. walks \in [1..n -> [Nat -> Seq(Nat)]]
    <3>. HIDE DEF n
    <3>. QED BY <1>6, WalkFacts
  <2>2. Walk[t] = WalkChildren(walks, off)
    BY <1>1, WalkFacts
  <2>3. \A i \in 1..n : walks[i] = Walk[t[i]]
    OBVIOUS
  <2>. HIDE DEF n, walks, off
  <2>4. walks \in Seq([Nat -> Seq(Nat)]) /\ Len(walks) = n
    BY <1>1, <2>1, SequenceOf
  <2>5. \A i \in 1..Len(walks) : off[i] \in Nat
    BY <1>5, <2>4
  <2>6. \A o \in Nat : WalkChildren(walks, off)[o] = FlattenSeq([i \in 1..Len(walks) |-> walks[i][o + off[i]]])
    BY <2>4, <2>5, WalkChildrenFacts
  <2>7. \A o \in Nat : [i \in 1..Len(walks) |-> walks[i][o + off[i]]] = [i \in 1..n |-> Walk[t[i]][o + off[i]]]
    BY <2>3, <2>4
  <2>. QED BY <2>2, <2>6, <2>7
<1>8. Leaves[t] = FlattenSeq([i \in 1..n |-> Leaves[t[i]]])
  BY <1>1, LeavesFacts
<1>. HIDE DEF n, ms, to, off, align, al, size
<1>9. ASSUME NEW o \in Nat, Aligned(o, align), NEW i \in 1..n
      PROVE  o + off[i] \in Nat /\ Aligned(o + off[i], al[i]) /\ AlignUp(o + to[i - 1], al[i]) = o + off[i]
  <2>. DEFINE a == al[i]  k == to[i - 1]  p == off[i]
  <2>1. a \in Nat \ {0} /\ Aligned(align, a) /\ k \in Nat /\ p \in Nat /\ p = AlignUp(k, a) /\ Aligned(p, a)
    BY <1>3, <1>4, <1>5
  <2>. HIDE DEF a, k, p
  <2>2. Aligned(o, a)
    BY <1>4, <1>9, <2>1, AlignedFacts
  <2>3. Aligned(o + p, a) /\ o + p \in Nat
    <3>1. \A m, r \in Nat : Aligned(m, a) /\ Aligned(r, a) => Aligned(m + r, a)
      BY <2>1, AlignedFacts
    <3>2. o + p \in Nat
      BY <2>1
    <3>. QED BY <2>1, <2>2, <3>1, <3>2
  <2>4. AlignUp(o + k, a) = o + AlignUp(k, a)
    BY <2>1, <2>2, AlignUpOfMultiple
  <2>. QED BY <2>1, <2>3, <2>4 DEF a, k, p
<1>10. ASSUME NEW o \in Nat, Aligned(o, align)
       PROVE  \E z \in Nat : Laid(Leaves[t], Walk[t][o], o, z) /\ AlignUp(z, align) = o + FfiType[t].size
  <2>. DEFINE es == [i \in 1..n |-> Leaves[t[i]]]
              os == [i \in 1..n |-> Walk[t[i]][o + off[i]]]
              Ends(i, z) == Laid(es[i], os[i], o + off[i], z) /\ AlignUp(z, al[i]) = o + to[i]
              zs == [i \in 1..n |-> CHOOSE z \in Nat : Ends(i, z)]
  <2>1. \A i \in 1..n : zs[i] \in Nat /\ Ends(i, zs[i])
    <3>1. ASSUME NEW i \in 1..n PROVE \E z \in Nat : Ends(i, z)
      <4>. DEFINE p == o + off[i]
      <4>1. p \in Nat /\ Aligned(p, al[i]) /\ CAlignOf[t[i]] = al[i] /\ FfiType[t[i]].size = size[i]
        BY <1>3, <1>9, <1>10
      <4>2. p + size[i] = o + to[i]
        BY <1>3, <1>5
      <4>3. es[i] = Leaves[t[i]] /\ os[i] = Walk[t[i]][p]
        OBVIOUS
      <4>. HIDE DEF p, es, os
      <4>4. PICK z \in Nat : Laid(Leaves[t[i]], Walk[t[i]][p], p, z) /\ AlignUp(z, al[i]) = p + size[i]
        BY <1>6, <4>1 DEF LaidOut
      <4>. QED BY <4>2, <4>3, <4>4 DEF p
    <3>. HIDE DEF Ends
    <3>. QED BY <3>1
  <2>. HIDE DEF zs
  <2>2. /\ es \in Seq(Seq(Primitives)) /\ Len(es) = n /\ os \in Seq(Seq(Nat)) /\ Len(os) = n
        /\ es # <<>> /\ os # <<>>
    <3>1. es \in [1..n -> Seq(Primitives)]
      BY <1>6, LeavesFacts
    <3>2. os \in [1..n -> Seq(Nat)]
      <4>1. \A i \in 1..n : o + off[i] \in Nat
        BY <1>9, <1>10
      <4>. QED BY <1>6, <4>1, WalkFacts
    <3>. HIDE DEF es, os
    <3>3. es \in Seq(Seq(Primitives)) /\ Len(es) = n /\ os \in Seq(Seq(Nat)) /\ Len(os) = n
      BY <1>1, <3>1, <3>2, SequenceOf
    <3>. QED BY <1>1, <3>3, EmptySeq
  <2>. HIDE DEF es, os
  <2>3. PICK f : Joined(f, es, Primitives) /\ FlattenSeq(es) = f[n]
    BY <2>2, JoinedExists
  <2>4. PICK g : Joined(g, os, Nat) /\ FlattenSeq(os) = g[n]
    BY <2>2, JoinedExists
  <2>5. /\ f[1] = es[1] /\ \A i \in 2..n : f[i] = f[i - 1] \o es[i]
        /\ g[1] = os[1] /\ \A i \in 2..n : g[i] = g[i - 1] \o os[i]
    BY <2>2, <2>3, <2>4 DEF Joined
  <2>6. \A i \in 1..n : Laid(f[i], g[i], o, zs[i])
    <3>. DEFINE Bad == {i \in Nat : i \in 1..n /\ ~Laid(f[i], g[i], o, zs[i])}
    <3>1. SUFFICES ASSUME Bad # {} PROVE FALSE
      BY <1>1
    <3>2. PICK i \in Bad : \A j \in Bad : i <= j
      <4>1. Bad \in SUBSET Nat
        OBVIOUS
      <4>. HIDE DEF Bad
      <4>. QED BY <3>1, <4>1, LeastNatural
    <3>3. i \in 1..n /\ ~Laid(f[i], g[i], o, zs[i])
      BY <3>2
    <3>4. CASE i = 1
      <4>1. off[1] = 0
        <5>1. 1 \in 1..n /\ al[1] \in Nat \ {0} /\ off[1] = AlignUp(to[1 - 1], al[1]) /\ 1 - 1 = 0
          <6>1. 1 \in 1..n /\ 1 - 1 = 0
            BY <1>1
          <6>2. off[1] = AlignUp(to[1 - 1], al[1])
            BY <1>5, <6>1
          <6>. QED BY <1>3, <6>1, <6>2
        <5>2. AlignUp(0, al[1]) = 0
          BY <5>1, AlignedFacts, AlignUpOfMultiple
        <5>. QED BY <1>5, <5>1, <5>2
      <4>2. o + off[1] = o
        BY <4>1
      <4>3. Laid(es[1], os[1], o, zs[1])
        BY <1>1, <2>1, <3>3, <3>4, <4>2
      <4>. QED BY <2>5, <3>3, <3>4, <4>3
    <3>5. CASE i # 1
      <4>1. i - 1 \in 1..n /\ i \in 2..n /\ i - 1 \in Nat /\ ~(i <= i - 1)
        BY <1>1, <3>3, <3>5
      <4>2. Laid(f[i - 1], g[i - 1], o, zs[i - 1])
        BY <3>2, <4>1
      <4>3. Laid(es[i], os[i], o + off[i], zs[i])
        BY <2>1, <3>3
      <4>4. zs[i - 1] <= o + off[i]
        <5>1. zs[i - 1] \in Nat /\ AlignUp(zs[i - 1], al[i - 1]) = o + to[i - 1] /\ al[i - 1] \in Nat \ {0}
          BY <1>3, <2>1, <4>1
        <5>2. zs[i - 1] <= o + to[i - 1]
          <6>. DEFINE z == zs[i - 1]  a == al[i - 1]
          <6>1. z \in Nat /\ a \in Nat \ {0} /\ AlignUp(z, a) = o + to[i - 1]
            BY <5>1
          <6>. HIDE DEF z, a
          <6>2. z <= AlignUp(z, a)
            BY <6>1, AlignUpFacts
          <6>. QED BY <6>1, <6>2 DEF z
        <5>3. to[i - 1] \in Nat /\ off[i] \in Nat /\ to[i - 1] <= off[i]
          BY <1>5, <3>3
        <5>. QED BY <5>1, <5>2, <5>3
      <4>5. Laid(f[i - 1] \o es[i], g[i - 1] \o os[i], o, zs[i])
        BY <4>2, <4>3, <4>4, LaidTogether
      <4>. QED BY <2>5, <3>3, <4>1, <4>5
    <3>. QED BY <3>4, <3>5
  <2>7. n \in 1..n /\ Leaves[t] = f[n] /\ Walk[t][o] = g[n]
    BY <1>1, <1>7, <1>8, <2>3, <2>4 DEF es, os
  <2>8. Laid(Leaves[t], Walk[t][o], o, zs[n])
    BY <2>6, <2>7
  <2>9. AlignUp(zs[n], align) = o + FfiType[t].size
    <3>. DEFINE z == zs[n]  a == al[n]  k == to[n]
    <3>1. z \in Nat /\ a \in Nat \ {0} /\ Aligned(align, a) /\ AlignUp(z, a) = o + k /\ k \in Nat
      BY <1>3, <1>4, <1>5, <2>1, <2>7
    <3>2. FfiType[t].size = AlignUp(k, align)
      BY <1>4
    <3>. HIDE DEF z, a, k
    <3>3. AlignUp(z, align) = AlignUp(o + k, align)
      BY <1>4, <3>1, AlignUpTwice
    <3>4. AlignUp(o + k, align) = o + AlignUp(k, align)
      BY <1>4, <1>10, <3>1, AlignUpOfMultiple
    <3>. QED BY <3>2, <3>3, <3>4 DEF z
  <2>10. zs[n] \in Nat
    BY <2>1, <2>7
  <2>. QED BY <2>8, <2>9, <2>10
<1>11. ASSUME NEW a \in Nat
       PROVE  CPlace[t][a] = [at |-> Walk[t][AlignUp(a, align)], end |-> AlignUp(a, align) + FfiType[t].size]
  <2>. DEFINE o == AlignUp(a, align)
              cs == [i \in 1..n |-> CPlace[t[i]]]
              ends == CEnds(cs, o)
  <2>1. o \in Nat /\ Aligned(o, align)
    BY <1>4, AlignUpFacts
  <2>2. CPlace[t] = CStruct(cs, align)
    BY <1>1, CPlaceFacts DEF n, align
  <2>3. cs \in Seq([Nat -> Places]) /\ Len(cs) = n /\ \A i \in 1..n : cs[i] = CPlace[t[i]]
    <3>1. cs \in [1..n -> [Nat -> Places]] /\ \A i \in 1..n : cs[i] = CPlace[t[i]]
      BY <1>6, CPlaceFacts
    <3>. HIDE DEF cs
    <3>. QED BY <1>1, <3>1, SequenceOf
  <2>. HIDE DEF o, cs
  <2>4. CPlace[t][a] = [at |-> FlattenSeq([i \in 1..n |-> cs[i][ends[i - 1]].at]), end |-> AlignUp(ends[n], align)]
    <3>1. cs \in Seq([Nat -> Places]) /\ align \in Nat \ {0}
      BY <1>4, <2>3
    <3>. HIDE DEF align
    <3>2. CStruct(cs, align)[a] = [at  |-> FlattenSeq([i \in 1..Len(cs) |-> cs[i][CEnds(cs, AlignUp(a, align))[i - 1]].at]),
                                   end |-> AlignUp(CEnds(cs, AlignUp(a, align))[Len(cs)], align)]
      BY <3>1, CStructFacts, Zenon
    <3>. QED BY <2>2, <2>3, <3>2 DEF o
  <2>5. ends[0] = o /\ \A i \in 1..n : ends[i] = cs[i][ends[i - 1]].end
    BY <2>1, <2>3, CEndsFacts
  <2>. HIDE DEF ends
  <2>6. ASSUME NEW i \in 1..n, ends[i - 1] = o + to[i - 1]
        PROVE  cs[i][ends[i - 1]].at = Walk[t[i]][o + off[i]] /\ cs[i][ends[i - 1]].end = o + to[i]
    <3>. DEFINE x == o + to[i - 1]  p == o + off[i]
    <3>1. x \in Nat /\ p \in Nat /\ AlignUp(x, al[i]) = p
      BY <1>5, <1>9, <2>1
    <3>2. p + size[i] = o + to[i]
      BY <1>3, <1>5, <2>1
    <3>3. CAlignOf[t[i]] = al[i] /\ FfiType[t[i]].size = size[i]
      BY <1>3
    <3>4. cs[i][ends[i - 1]] = CPlace[t[i]][x]
      BY <2>3, <2>6
    <3>. HIDE DEF x, p
    <3>5. CPlace[t[i]][x] = [at |-> Walk[t[i]][p], end |-> p + size[i]]
      BY <1>6, <3>1, <3>3 DEF LaidOut
    <3>. QED BY <3>2, <3>4, <3>5 DEF p
  <2>7. \A i \in 0..n : ends[i] = o + to[i]
    <3>. DEFINE Bad == {i \in Nat : i \in 0..n /\ ends[i] # o + to[i]}
    <3>1. SUFFICES ASSUME Bad # {} PROVE FALSE
      BY <1>1
    <3>2. PICK i \in Bad : \A j \in Bad : i <= j
      <4>1. Bad \in SUBSET Nat
        OBVIOUS
      <4>. HIDE DEF Bad
      <4>. QED BY <3>1, <4>1, LeastNatural
    <3>3. i \in 0..n /\ ends[i] # o + to[i]
      BY <3>2
    <3>4. i # 0
      <4>1. o + to[0] = o
        BY <1>5, <2>1
      <4>. QED BY <2>5, <3>3, <4>1
    <3>5. i \in 1..n /\ i - 1 \in 0..n /\ i - 1 \in Nat /\ ~(i <= i - 1)
      BY <1>1, <3>3, <3>4
    <3>6. ends[i - 1] = o + to[i - 1]
      BY <3>2, <3>5
    <3>7. cs[i][ends[i - 1]].end = o + to[i]
      BY <2>6, <3>5, <3>6
    <3>. QED BY <2>5, <3>3, <3>5, <3>7
  <2>8. \A i \in 1..n : ends[i - 1] = o + to[i - 1]
    <3>1. \A i \in 1..n : i - 1 \in 0..n
      BY <1>1
    <3>. QED BY <2>7, <3>1
  <2>9. \A i \in 1..n : cs[i][ends[i - 1]].at = Walk[t[i]][o + off[i]]
    BY <2>6, <2>8
  <2>10. [i \in 1..n |-> cs[i][ends[i - 1]].at] = [i \in 1..n |-> Walk[t[i]][o + off[i]]]
    BY <2>9
  <2>11. FlattenSeq([i \in 1..n |-> cs[i][ends[i - 1]].at]) = Walk[t][o]
    BY <1>7, <2>1, <2>10
  <2>12. AlignUp(ends[n], align) = o + FfiType[t].size
    <3>. DEFINE k == to[n]
    <3>1. k \in Nat /\ n \in 0..n
      BY <1>1, <1>5
    <3>2. ends[n] = o + k /\ FfiType[t].size = AlignUp(k, align)
      BY <1>4, <2>7, <3>1
    <3>. HIDE DEF k
    <3>3. AlignUp(o + k, align) = o + AlignUp(k, align)
      BY <1>4, <2>1, <3>1, AlignUpOfMultiple
    <3>. QED BY <3>2, <3>3
  <2>. QED BY <2>4, <2>11, <2>12 DEF o
<1>12. CAlignOf[t] = align
  BY DEF align
<1>. QED BY <1>4, <1>10, <1>11, <1>12 DEF LaidOut

\* By induction over the depth.
LEMMA AllLaidOut ==
    ASSUME SizesAgree
    PROVE  \A t \in Parsed : LaidOut(t)
<1>. DEFINE Apart == {k \in Nat : \E t \in Parsed : Depth[t] = k /\ ~LaidOut(t)}
<1>1. \A t \in Parsed : Depth[t] \in Nat
  BY TypesAssumption, ParsedFacts
<1>2. SUFFICES ASSUME Apart # {} PROVE FALSE
  BY <1>1
<1>3. PICK k \in Apart : \A j \in Apart : k <= j
  <2>1. Apart \in SUBSET Nat
    OBVIOUS
  <2>. HIDE DEF Apart
  <2>. QED BY <1>2, <2>1, LeastNatural
<1>4. PICK t \in Parsed : Depth[t] = k /\ ~LaidOut(t)
  BY <1>3
<1>5. t \notin Primitives
  BY <1>4, PrimitiveLaidOut
<1>6. ASSUME NEW i \in 1..Len(t) PROVE LaidOut(t[i])
  <2>1. t[i] \in Parsed /\ i \in DOMAIN t /\ t \in Types
    BY <1>5, ParsedFacts, SeqFacts
  <2>2. t \notin Unknown
    BY <2>1, ParsableIs DEF Parsed, Parses
  <2>3. Depth[t[i]] \in Nat /\ Depth[t[i]] < k /\ k \in Nat
    BY <1>1, <1>4, <1>5, <2>1, <2>2, TypesAssumption
  <2>4. Depth[t[i]] \notin Apart
    <3>1. ~(k <= Depth[t[i]])
      BY <2>3
    <3>. HIDE DEF Apart
    <3>. QED BY <1>3, <3>1
  <2>. QED BY <2>1, <2>3, <2>4
<1>. QED BY <1>4, <1>5, <1>6, StructLaidOut

-----------------------------------------------------------------------------
(* The two sides of a call *)

\* What parseType has made of the representation.
Understood ==
    /\ repr \in Parsed
    /\ Laid(ereprs, eoffsets, 0, nbytes)
    /\ cplace.at = eoffsets /\ cplace.end = AlignUp(nbytes, CAlignOf[repr])
    /\ cplace.end = FfiType[repr].size

\* The bytes of the first k elements hold them, and those of the others nothing.
Held(k) ==
    \A e \in 1..Len(ereprs) : \A b \in CBytes(e) :
      b \in DOMAIN mem /\ mem[b] = IF e <= k THEN e ELSE Junk

\* The first k elements have been read.
Gotten(k) ==
    got \in Seq(SUBSET Nat) /\ Len(got) = k /\ \A e \in 1..k : got[e] = {e}

\* How many bytes of a value native code accesses in the bundle's memory.
PassedEnd ==
    IF outward \/ repr \notin Primitives THEN cplace.end ELSE FfiReturn[repr]

\* The bytes that have been accessed.
Touched ==
    IF ~ours THEN 0..(cplace.end - 1)
    ELSE (0..(nbytes - 1)) \cup IF step \in {"read", "done"} THEN 0..(PassedEnd - 1) ELSE {}

LayoutIInv ==
    /\ outward \in BOOLEAN /\ ours \in BOOLEAN /\ repr \in Types /\ next \in Nat /\ given \in Nat
    /\ step \in {"parse", "write", "native", "read", "done", "throw", "refused"}
    /\ step \in {"parse", "throw"} => mem = <<>> /\ eoffsets = <<>> /\ next = 1 /\ got = <<>>
    /\ step \notin {"parse", "throw"} => Understood /\ DOMAIN mem = Touched
    /\ step = "write" => outward /\ next \in 1..(Len(ereprs) + 1) /\ next <= given + 1 /\ Held(next - 1)
                         /\ (ours \/ given <= Len(ereprs))
    /\ step = "native" => IF outward THEN Held(given)
                          ELSE next = 1 /\ got = <<>> /\ given = Len(ereprs)
    /\ step = "read" => /\ ~outward /\ next \in 1..Len(ereprs) /\ given = Len(ereprs)
                       /\ Held(Len(ereprs)) /\ Gotten(next - 1)
    /\ step = "done" => Received

\* Each element is where native code has it, within nbytes, and apart from the others.
LEMMA ElementsFacts ==
    ASSUME SizesAgree, Understood
    PROVE  /\ Len(ereprs) \in Nat \ {0} /\ DOMAIN ereprs = 1..Len(ereprs) /\ DOMAIN eoffsets = 1..Len(ereprs)
           /\ nbytes \in Nat /\ cplace.end \in Nat /\ nbytes <= cplace.end
           /\ cplace.end - nbytes < CAlignOf[repr]
           /\ \A e \in 1..Len(ereprs) :
                /\ Bytes(e) = CBytes(e) /\ CBytes(e) \subseteq 0..(nbytes - 1)
                /\ \E b \in CBytes(e) : TRUE
           /\ \A d, e \in 1..Len(ereprs) : \A b \in CBytes(d) : b \in CBytes(e) => d = e
<1>. DEFINE n == Len(ereprs)
<1>1. /\ n \in Nat \ {0} /\ Len(eoffsets) = n /\ DOMAIN ereprs = 1..n /\ DOMAIN eoffsets = 1..n
      /\ nbytes \in Nat /\ eoffsets[1] = 0
      /\ \A d, e \in 1..n : d < e => eoffsets[d] + CSize[ereprs[d]] <= eoffsets[e]
      /\ \A e \in 1..n : /\ eoffsets[e] \in Nat /\ ereprs[e] \in Primitives
                          /\ CSize[ereprs[e]] \in Nat \ {0}
                          /\ eoffsets[e] + CSize[ereprs[e]] <= nbytes
  <2>1. ereprs \in Seq(Primitives) /\ eoffsets \in Seq(Nat) /\ Len(ereprs) = Len(eoffsets) /\ eoffsets[1] = 0
    BY DEF Understood, Laid
  <2>2. /\ n \in Nat \ {0} /\ nbytes \in Nat
        /\ \A e \in 1..n : /\ eoffsets[e] \in Nat /\ ereprs[e] \in Primitives
                            /\ CSize[ereprs[e]] \in Nat \ {0}
                            /\ eoffsets[e] + CSize[ereprs[e]] <= nbytes
    BY <2>1, LaidFacts DEF Understood
  <2>3. \A d, e \in 1..n : d < e => eoffsets[d] + CSize[ereprs[d]] <= eoffsets[e]
    BY <2>1 DEF Understood, Laid
  <2>4. DOMAIN ereprs = 1..n /\ DOMAIN eoffsets = 1..n
    BY <2>1, SeqFacts
  <2>. QED BY <2>1, <2>2, <2>3, <2>4
<1>2. cplace.end \in Nat /\ nbytes <= cplace.end /\ cplace.end - nbytes < CAlignOf[repr]
  <2>. DEFINE a == CAlignOf[repr]
  <2>1. a \in Nat \ {0} /\ cplace.end = AlignUp(nbytes, a)
    BY CAlignOfFacts DEF Understood
  <2>. HIDE DEF a
  <2>2. AlignUp(nbytes, a) \in Nat /\ nbytes <= AlignUp(nbytes, a) /\ AlignUp(nbytes, a) < nbytes + a
    BY <1>1, <2>1, AlignUpFacts
  <2>3. cplace.end \in Nat /\ nbytes <= cplace.end /\ cplace.end - nbytes < a
    BY <1>1, <2>1, <2>2
  <2>. QED BY <2>3 DEF a
<1>3. cplace.at = eoffsets
  BY DEF Understood
<1>. HIDE DEF n
<1>4. \A e \in 1..n : CBytes(e) = eoffsets[e]..(eoffsets[e] + (CSize[ereprs[e]] - 1))
  <2>. SUFFICES ASSUME NEW e \in 1..n
                PROVE  CBytes(e) = eoffsets[e]..(eoffsets[e] + (CSize[ereprs[e]] - 1))
    OBVIOUS
  <2>. DEFINE x == cplace.at[e]  y == eoffsets[e]  c == CSize[ereprs[e]]
  <2>1. x = y
    BY <1>3
  <2>2. CBytes(e) = x..(x + (c - 1))
    BY DEF CBytes
  <2>. HIDE DEF x, y, c
  <2>3. CBytes(e) = y..(y + (c - 1))
    BY <2>1, <2>2
  <2>. QED BY <2>3 DEF y, c
<1>5. \A e \in 1..n : Bytes(e) = eoffsets[e]..(eoffsets[e] + (CSize[ereprs[e]] - 1))
  <2>. SUFFICES ASSUME NEW e \in 1..n
                PROVE  Bytes(e) = eoffsets[e]..(eoffsets[e] + (CSize[ereprs[e]] - 1))
    OBVIOUS
  <2>1. Width[ereprs[e]] = CSize[ereprs[e]]
    BY <1>1 DEF SizesAgree
  <2>2. ElementAt(e) = eoffsets[e]
    <3>1. n > 1 \/ e = 1
      BY <1>1
    <3>. QED BY <1>1, <3>1 DEF ElementAt, n
  <2>. DEFINE x == ElementAt(e)  w == Width[ereprs[e]]  y == eoffsets[e]  c == CSize[ereprs[e]]
  <2>3. Bytes(e) = x..(x + (w - 1))
    BY DEF Bytes
  <2>4. x = y /\ w = c
    BY <2>1, <2>2
  <2>. HIDE DEF x, w, y, c
  <2>5. Bytes(e) = y..(y + (c - 1))
    BY <2>3, <2>4
  <2>. QED BY <2>5 DEF y, c
<1>6. ASSUME NEW e \in 1..n
      PROVE  /\ Bytes(e) = CBytes(e) /\ CBytes(e) \subseteq 0..(nbytes - 1)
             /\ \E b \in CBytes(e) : TRUE
  <2>. DEFINE p == eoffsets[e]  c == CSize[ereprs[e]]
  <2>1. p \in Nat /\ c \in Nat \ {0} /\ p + c <= nbytes /\ nbytes \in Nat
    BY <1>1
  <2>2. CBytes(e) = p..(p + (c - 1)) /\ Bytes(e) = CBytes(e)
    BY <1>4, <1>5
  <2>. HIDE DEF p, c
  <2>3. p..(p + (c - 1)) \subseteq 0..(nbytes - 1) /\ p \in p..(p + (c - 1))
    BY <2>1
  <2>. QED BY <2>2, <2>3
<1>7. ASSUME NEW d \in 1..n, NEW e \in 1..n, NEW b \in CBytes(d), b \in CBytes(e)
      PROVE  d = e
  <2>. DEFINE p == eoffsets[d]  c == CSize[ereprs[d]]  q == eoffsets[e]  k == CSize[ereprs[e]]
  <2>1. p \in Nat /\ c \in Nat /\ q \in Nat /\ k \in Nat
    BY <1>1
  <2>2. (d < e => p + c <= q) /\ (e < d => q + k <= p)
    BY <1>1
  <2>3. b \in p..(p + (c - 1)) /\ b \in q..(q + (k - 1))
    BY <1>4, <1>7
  <2>. HIDE DEF p, c, q, k
  <2>4. ~(d < e) /\ ~(e < d)
    BY <2>1, <2>2, <2>3
  <2>. QED BY <1>1, <2>4
<1>. QED BY <1>1, <1>2, <1>6, <1>7 DEF n

\* Of what has been laid out, parseType's sizes are right.
LEMMA ParseUnderstands ==
    ASSUME SizesAgree, ParseType
    PROVE  Understood'
<1>. DEFINE al == CAlignOf[repr]
<1>1. /\ repr \in Parsed /\ repr' = repr
      /\ ereprs' = Leaves[repr] /\ eoffsets' = Walk[repr][0]
      /\ nbytes' = NBytes(ereprs', eoffsets') /\ cplace' = CPlace[repr][0]
  BY DEF ParseType
<1>2. LaidOut(repr)
  BY <1>1, AllLaidOut
<1>3. al \in Nat \ {0}
  BY <1>1, CAlignOfFacts
<1>4. Aligned(0, al) /\ AlignUp(0, al) = 0
  BY <1>3, AlignedFacts, AlignUpOfMultiple
<1>5. PICK z \in Nat : Laid(Leaves[repr], Walk[repr][0], 0, z) /\ AlignUp(z, al) = 0 + FfiType[repr].size
  BY <1>2, <1>4 DEF LaidOut
<1>6. CPlace[repr][0] = [at |-> Walk[repr][0], end |-> 0 + FfiType[repr].size]
  BY <1>2, <1>4 DEF LaidOut
<1>7. z = nbytes'
  <2>1. /\ ereprs' \in Seq(Primitives) /\ Len(ereprs') = Len(eoffsets') /\ Len(ereprs') # 0
        /\ z = eoffsets'[Len(eoffsets')] + CSize[ereprs'[Len(eoffsets')]]
    BY <1>1, <1>5 DEF Laid
  <2>2. ereprs'[Len(eoffsets')] \in Primitives
    <3>1. Len(ereprs') \in 1..Len(ereprs')
      BY <2>1, SeqFacts
    <3>. QED BY <2>1, <3>1, SeqFacts
  <2>3. nbytes' = eoffsets'[Len(eoffsets')] + Width[ereprs'[Len(eoffsets')]]
    BY <1>1, <2>1 DEF NBytes, Last
  <2>. QED BY <2>1, <2>2, <2>3 DEF SizesAgree
<1>8. /\ cplace'.at = eoffsets' /\ cplace'.end = AlignUp(nbytes', al)
      /\ cplace'.end = FfiType[repr'].size
  <2>1. FfiType[repr].size \in Nat
    BY <1>1, FfiTypeFacts DEF FfiTypes
  <2>2. 0 + FfiType[repr].size = FfiType[repr].size
    BY <2>1
  <2>. QED BY <1>1, <1>5, <1>6, <1>7, <2>2
<1>. QED BY <1>1, <1>5, <1>7, <1>8 DEF Understood

\* What is read of an element that is held is that element.
LEMMA HeldIsRead ==
    ASSUME SizesAgree, Understood, NEW k, Held(k), NEW e \in 1..Len(ereprs)
    PROVE  /\ {Byte(b) : b \in CBytes(e)} = {IF e <= k THEN e ELSE Junk}
           /\ {Byte(b) : b \in Bytes(e)} = {IF e <= k THEN e ELSE Junk}
<1>. DEFINE v == IF e <= k THEN e ELSE Junk
<1>1. Bytes(e) = CBytes(e) /\ \E b \in CBytes(e) : TRUE
  BY ElementsFacts
<1>2. \A b \in CBytes(e) : Byte(b) = v
  BY DEF Held, Byte
<1>. HIDE DEF v
<1>3. {Byte(b) : b \in CBytes(e)} = {v}
  BY <1>1, <1>2
<1>4. {Byte(b) : b \in Bytes(e)} = {v}
  BY <1>1, <1>3
<1>. QED BY <1>3, <1>4 DEF v

\* What a step that leaves the type alone does not change.
LEMMA SameType ==
    ASSUME UNCHANGED type
    PROVE  /\ Understood => Understood'
           /\ \A e : CBytes(e)' = CBytes(e)
           /\ PassedEnd' = PassedEnd
  BY DEF type, Understood, CBytes, PassedEnd

\* There are elements, and they are within nbytes.
ElementsWithin ==
    /\ Len(ereprs) \in Nat \ {0} /\ nbytes \in Nat /\ cplace.end \in Nat /\ nbytes <= cplace.end
    /\ \A e \in 1..Len(ereprs) : CBytes(e) \subseteq 0..(nbytes - 1)

LEMMA UnderstoodWithin ==
    ASSUME SizesAgree
    PROVE  Understood => ElementsWithin
  BY ElementsFacts DEF ElementsWithin

LEMMA LayoutStart == LayoutInit => LayoutIInv
  BY DEF LayoutInit, LayoutIInv

LEMMA ParseKeeps ==
    ASSUME SizesAgree, LayoutIInv, ParseType
    PROVE  LayoutIInv'
<1>1. Understood'
  BY ParseUnderstands
<1>2. /\ step = "parse" /\ mem' = [b \in 0..((IF ours THEN nbytes' ELSE cplace'.end) - 1) |-> Junk]
      /\ step' = (IF outward THEN "write" ELSE "native")
      /\ given' \in (IF outward THEN 0..(Len(ereprs') + IF ours THEN 1 ELSE 0) ELSE {Len(ereprs')})
      /\ repr' = repr /\ outward' = outward /\ ours' = ours /\ next' = next /\ got' = got
      /\ repr \in Types /\ outward \in BOOLEAN /\ ours \in BOOLEAN /\ next = 1 /\ got = <<>>
  BY DEF ParseType, LayoutIInv
<1>3. /\ Len(ereprs') \in Nat \ {0} /\ nbytes' \in Nat /\ cplace'.end \in Nat /\ nbytes' <= cplace'.end
      /\ \A e \in 1..Len(ereprs') : CBytes(e)' \subseteq 0..(nbytes' - 1)
  <2>1. ElementsWithin'
    BY <1>1, UnderstoodWithin, PTL
  <2>. QED BY <2>1 DEF ElementsWithin
<1>4. DOMAIN mem' = Touched'
  <2>1. step' \notin {"read", "done"}
    BY <1>2
  <2>. QED BY <1>2, <2>1 DEF Touched
<1>5. Held(0)'
  <2>. SUFFICES ASSUME NEW e \in 1..Len(ereprs'), NEW b \in CBytes(e)'
                PROVE  b \in DOMAIN mem' /\ mem'[b] = IF e <= 0 THEN e ELSE Junk
    BY DEF Held
  <2>1. b \in 0..(nbytes' - 1) /\ ~(e <= 0)
    BY <1>3
  <2>. DEFINE m == nbytes'  k == cplace'.end
  <2>2. 0..(m - 1) \subseteq 0..(k - 1)
    <3>1. m \in Nat /\ k \in Nat /\ m <= k
      BY <1>3
    <3>. HIDE DEF m, k
    <3>. QED BY <3>1
  <2>3. b \in 0..((IF ours THEN nbytes' ELSE cplace'.end) - 1)
    BY <2>1, <2>2
  <2>. QED BY <1>2, <2>1, <2>3
<1>6. given' \in Nat /\ (outward => ours \/ given' <= Len(ereprs')) /\ (~outward => given' = Len(ereprs'))
  BY <1>2, <1>3
<1>7. next' = 1 /\ next' - 1 = 0 /\ next' \in 1..(Len(ereprs') + 1) /\ next' <= given' + 1
  <2>. DEFINE n == Len(ereprs')  g == given'  x == next'
  <2>1. x = 1 /\ n \in Nat /\ n # 0 /\ g \in Nat
    BY <1>2, <1>3, <1>6
  <2>. HIDE DEF n, g, x
  <2>2. x - 1 = 0 /\ x <= g + 1
    BY <2>1
  <2>3. x \in 1..(n + 1)
    BY <2>1
  <2>. QED BY <2>1, <2>2, <2>3 DEF n, g, x
<1>8. Held(next - 1)'
  BY <1>5, <1>7
<1>. QED BY <1>1, <1>2, <1>4, <1>6, <1>7, <1>8 DEF LayoutIInv

\* A step before native code's turn accesses no other byte.
LEMMA NothingElseTouched ==
    ASSUME UNCHANGED type, step \notin {"read", "done"}, step' \notin {"read", "done"}
    PROVE  Touched' = Touched
  BY DEF type, Touched

LEMMA WriteKeeps ==
    ASSUME SizesAgree, LayoutIInv, WriteElement
    PROVE  LayoutIInv'
<1>. DEFINE n == Len(ereprs)
<1>1. /\ step = "write" /\ outward /\ next \in 1..(n + 1) /\ Held(next - 1) /\ Understood
      /\ DOMAIN mem = Touched /\ repr \in Types /\ outward \in BOOLEAN /\ ours \in BOOLEAN
      /\ given \in Nat /\ (ours \/ given <= n)
  BY DEF LayoutIInv, WriteElement
<1>2. /\ mem' = [b \in DOMAIN mem \cup Bytes(next) |-> IF b \in Bytes(next) THEN next ELSE mem[b]]
      /\ next <= given /\ next <= n /\ next' = next + 1 /\ step' = step /\ UNCHANGED type
  BY DEF WriteElement, Matched
<1>3. n \in Nat \ {0} /\ next \in 1..n
  BY <1>1, <1>2, ElementsFacts
<1>4. Bytes(next) = CBytes(next)
  BY <1>1, <1>3, ElementsFacts
<1>5. \A d, e \in 1..n : \A b \in CBytes(d) : b \in CBytes(e) => d = e
  BY <1>1, ElementsFacts
<1>6. Understood' /\ \A e : CBytes(e)' = CBytes(e)
  BY <1>1, <1>2, SameType
<1>7. mem' = [b \in DOMAIN mem |-> IF b \in CBytes(next) THEN next ELSE mem[b]]
  <2>1. \A b \in CBytes(next) : b \in DOMAIN mem
    BY <1>1, <1>3 DEF Held
  <2>2. DOMAIN mem \cup Bytes(next) = DOMAIN mem
    BY <1>4, <2>1
  <2>. QED BY <1>2, <1>4, <2>2
<1>8. Len(ereprs') = n
  BY <1>2 DEF type
<1>. HIDE DEF n
<1>9. \A e \in 1..n : \A b \in CBytes(e) :
        b \in DOMAIN mem' /\ mem'[b] = IF e <= next THEN e ELSE Junk
  <2>. SUFFICES ASSUME NEW e \in 1..n, NEW b \in CBytes(e)
                PROVE  b \in DOMAIN mem' /\ mem'[b] = IF e <= next THEN e ELSE Junk
    OBVIOUS
  <2>1. b \in DOMAIN mem /\ mem[b] = IF e <= next - 1 THEN e ELSE Junk
    BY <1>1 DEF Held, n
  <2>2. b \in DOMAIN mem' /\ mem'[b] = IF b \in CBytes(next) THEN next ELSE mem[b]
    BY <1>7, <2>1
  <2>3. CASE e = next
    BY <1>3, <2>2, <2>3
  <2>4. CASE e # next
    <3>1. b \notin CBytes(next)
      BY <1>3, <1>5, <2>4
    <3>2. (e <= next - 1) = (e <= next)
      BY <1>3, <2>4
    <3>. QED BY <2>1, <2>2, <3>1, <3>2
  <2>. QED BY <2>3, <2>4
<1>10. next' - 1 = next /\ next' \in 1..(n + 1) /\ next' <= given + 1 /\ next' \in Nat
  BY <1>1, <1>2, <1>3
<1>11. Held(next - 1)'
  <2>1. \A e \in 1..Len(ereprs') : \A b \in CBytes(e)' :
          b \in DOMAIN mem' /\ mem'[b] = IF e <= next' - 1 THEN e ELSE Junk
    BY <1>6, <1>8, <1>9, <1>10
  <2>. QED BY <2>1 DEF Held
<1>12. DOMAIN mem' = Touched'
  <2>1. Touched' = Touched
    BY <1>1, <1>2, NothingElseTouched
  <2>. QED BY <1>1, <1>7, <2>1
<1>13. /\ outward' /\ outward' \in BOOLEAN /\ ours' \in BOOLEAN /\ repr' \in Types
       /\ given' = given /\ ours' = ours
  BY <1>1, <1>2 DEF type
<1>14. step' = "write"
  BY <1>1, <1>2
<1>. QED BY <1>1, <1>6, <1>8, <1>10, <1>11, <1>12, <1>13, <1>14 DEF LayoutIInv

LEMMA WriteThrowsKeeps ==
    ASSUME SizesAgree, LayoutIInv, WriteThrows
    PROVE  LayoutIInv'
<1>1. /\ step = "write" /\ Understood /\ DOMAIN mem = Touched /\ repr \in Types /\ next \in Nat
      /\ outward \in BOOLEAN /\ ours \in BOOLEAN /\ given \in Nat
  BY DEF LayoutIInv, WriteThrows
<1>2. step' = "refused" /\ UNCHANGED <<type, mem, next, got>>
  BY DEF WriteThrows
<1>3. Understood'
  BY <1>1, <1>2, SameType
<1>4. Touched' = Touched
  BY <1>1, <1>2, NothingElseTouched
<1>. QED BY <1>1, <1>2, <1>3, <1>4 DEF LayoutIInv, type

LEMMA WriteEndsKeeps ==
    ASSUME SizesAgree, LayoutIInv, WriteEnds
    PROVE  LayoutIInv'
<1>1. /\ step = "write" /\ Understood /\ DOMAIN mem = Touched /\ repr \in Types
      /\ outward /\ outward \in BOOLEAN /\ ours \in BOOLEAN /\ given \in Nat
      /\ next \in 1..(Len(ereprs) + 1) /\ next <= given + 1 /\ Held(next - 1)
      /\ (ours \/ given <= Len(ereprs)) /\ next > Turns
  BY DEF LayoutIInv, WriteEnds
<1>2. step' = "native" /\ UNCHANGED <<type, mem, next, got>>
  BY DEF WriteEnds
<1>3. Understood' /\ \A e : CBytes(e)' = CBytes(e)
  BY <1>1, <1>2, SameType
<1>4. Touched' = Touched
  BY <1>1, <1>2, NothingElseTouched
<1>5. Len(ereprs) \in Nat
  BY <1>1, ElementsFacts
<1>6. next - 1 = given
  <2>. DEFINE n == Len(ereprs)
  <2>1. CASE ours
    BY <1>1, <2>1 DEF Turns
  <2>2. CASE ~ours
    <3>1. next > n /\ given <= n
      BY <1>1, <2>2 DEF Turns
    <3>. HIDE DEF n
    <3>. QED BY <1>1, <1>5, <3>1 DEF n
  <2>. QED BY <2>1, <2>2
<1>7. Held(given)'
  <2>1. Held(given)
    BY <1>1, <1>6
  <2>. QED BY <1>2, <1>3, <2>1 DEF Held, type
<1>8. next \in Nat
  BY <1>1, <1>5
<1>. QED BY <1>1, <1>2, <1>3, <1>4, <1>7, <1>8 DEF LayoutIInv, type

\* Native code's turn takes what is accessed from the one case of Touched to the other.
LEMMA NativeTouches ==
    ASSUME Understood, DOMAIN mem = Touched, step = "native", UNCHANGED type, step' \in {"read", "done"}
    PROVE  Accessed = Touched'
<1>1. Passed = 0..(PassedEnd - 1)
  BY DEF Passed, PassedEnd, Understood
<1>2. PassedEnd' = PassedEnd
  BY SameType
<1>3. CASE ours
  BY <1>1, <1>2, <1>3 DEF Accessed, Touched, type
<1>4. CASE ~ours
  BY <1>4 DEF Accessed, Touched, type
<1>. QED BY <1>3, <1>4

LEMMA NativeReadsKeeps ==
    ASSUME SizesAgree, LayoutIInv, NativeReads
    PROVE  LayoutIInv'
<1>. DEFINE n == Len(ereprs)
            Value(e) == {IF e <= given THEN e ELSE Junk}
<1>1. /\ step = "native" /\ outward /\ Held(given) /\ Understood /\ DOMAIN mem = Touched
      /\ repr \in Types /\ outward \in BOOLEAN /\ ours \in BOOLEAN /\ next \in Nat /\ given \in Nat
  BY DEF LayoutIInv, NativeReads
<1>2. /\ got' = [e \in DOMAIN ereprs |-> {Byte(b) : b \in CBytes(e)}] /\ step' = "done"
      /\ mem' = [b \in Accessed |-> Byte(b)] /\ UNCHANGED type /\ next' = next
  BY DEF NativeReads
<1>3. DOMAIN ereprs = 1..n
  BY <1>1, ElementsFacts
<1>4. \A e \in 1..n : {Byte(b) : b \in CBytes(e)} = Value(e)
  BY <1>1, HeldIsRead
<1>5. Understood'
  BY <1>1, <1>2, SameType
<1>6. got' = [e \in DOMAIN ereprs |-> Value(e)]
  <2>. HIDE DEF n, Value
  <2>. QED BY <1>2, <1>3, <1>4
<1>7. Received'
  BY <1>2, <1>6 DEF Received, type
<1>8. DOMAIN mem' = Touched'
  <2>1. Accessed = Touched'
    BY <1>1, <1>2, NativeTouches
  <2>. QED BY <1>2, <2>1
<1>9. /\ outward' /\ repr' \in Types /\ outward' \in BOOLEAN /\ ours' \in BOOLEAN
      /\ next' \in Nat /\ given' \in Nat
  BY <1>1, <1>2 DEF type
<1>. QED BY <1>2, <1>5, <1>7, <1>8, <1>9 DEF LayoutIInv

LEMMA NativeWritesKeeps ==
    ASSUME SizesAgree, LayoutIInv, NativeWrites
    PROVE  LayoutIInv'
<1>. DEFINE n == Len(ereprs)
            Holds(b) == CHOOSE e \in 1..n : b \in CBytes(e)
<1>1. /\ step = "native" /\ ~outward /\ next = 1 /\ got = <<>> /\ given = n /\ Understood
      /\ DOMAIN mem = Touched /\ repr \in Types /\ outward \in BOOLEAN /\ ours \in BOOLEAN /\ given \in Nat
  BY DEF LayoutIInv, NativeWrites
<1>2. /\ n \in Nat \ {0} /\ DOMAIN ereprs = 1..n
      /\ nbytes \in Nat /\ cplace.end \in Nat /\ nbytes <= cplace.end
  BY <1>1, ElementsFacts
<1>3. \A d, e \in 1..n : \A b \in CBytes(d) : b \in CBytes(e) => d = e
  BY <1>1, ElementsFacts
<1>4. \A e \in 1..n : CBytes(e) \subseteq 0..(nbytes - 1)
  BY <1>1, ElementsFacts
<1>5. /\ mem' = [b \in Accessed |-> IF \E e \in 1..n : b \in CBytes(e) THEN Holds(b) ELSE Junk]
      /\ step' = "read" /\ UNCHANGED type /\ next' = next /\ got' = got
  <2>. HIDE DEF n
  <2>. QED BY <1>1, <1>2 DEF NativeWrites
<1>6. Understood' /\ \A e : CBytes(e)' = CBytes(e)
  BY <1>1, <1>5, SameType
<1>7. n = Len(ereprs')
  BY <1>5 DEF type
<1>. HIDE DEF n
<1>8. ASSUME NEW e \in 1..n, NEW b \in CBytes(e) PROVE b \in DOMAIN mem' /\ mem'[b] = e
  <2>1. b \in 0..(nbytes - 1) /\ b \in 0..(cplace.end - 1)
    BY <1>2, <1>4, <1>8
  <2>2. b \in Touched
    BY <2>1 DEF Touched
  <2>3. b \in Accessed
    BY <1>1, <2>2 DEF Accessed
  <2>4. Holds(b) = e
    <3>1. Holds(b) \in 1..n /\ b \in CBytes(Holds(b))
      BY <1>8
    <3>. HIDE DEF Holds
    <3>. QED BY <1>3, <1>8, <3>1
  <2>. HIDE DEF Holds
  <2>. QED BY <1>5, <1>8, <2>3, <2>4
<1>9. \A e \in 1..Len(ereprs') : \A b \in CBytes(e)' :
        b \in DOMAIN mem' /\ mem'[b] = IF e <= Len(ereprs') THEN e ELSE Junk
  <2>1. \A e \in 1..n : e <= n
    BY <1>2
  <2>. QED BY <1>6, <1>7, <1>8, <2>1
<1>10. Held(Len(ereprs))'
  BY <1>9 DEF Held
<1>11. DOMAIN mem' = Touched'
  <2>1. Accessed = Touched'
    BY <1>1, <1>5, NativeTouches
  <2>. QED BY <1>5, <2>1
<1>12. /\ ~outward' /\ repr' \in Types /\ outward' \in BOOLEAN /\ ours' \in BOOLEAN
       /\ given' \in Nat /\ given' = Len(ereprs')
  BY <1>1, <1>5, <1>7 DEF type
<1>13. next' = 1 /\ next' \in Nat /\ next' - 1 = 0 /\ next' \in 1..Len(ereprs')
  BY <1>1, <1>2, <1>5, <1>7
<1>14. Gotten(next - 1)'
  <2>1. got' \in Seq(SUBSET Nat) /\ Len(got') = 0 /\ \A e \in 1..0 : got'[e] = {e}
    BY <1>1, <1>5
  <2>. QED BY <1>13, <2>1 DEF Gotten
<1>. QED BY <1>5, <1>6, <1>10, <1>11, <1>12, <1>13, <1>14 DEF LayoutIInv

\* Every element has been read.
AllRead == Understood /\ Gotten(Len(ereprs)) /\ given = Len(ereprs)

LEMMA AllReadReceived ==
    ASSUME SizesAgree
    PROVE  AllRead => Received
<1>. SUFFICES ASSUME Understood, Gotten(Len(ereprs)), given = Len(ereprs)
              PROVE  got = [e \in DOMAIN ereprs |-> {IF e <= given THEN e ELSE Junk}]
  BY DEF AllRead, Received
<1>. DEFINE n == Len(ereprs)
<1>1. n \in Nat /\ DOMAIN ereprs = 1..n
  BY ElementsFacts
<1>2. got \in Seq(SUBSET Nat) /\ Len(got) = n /\ \A e \in 1..n : got[e] = {e}
  BY DEF Gotten
<1>3. got = [e \in 1..Len(got) |-> got[e]]
  BY <1>2, LenProperties
<1>. HIDE DEF n
<1>4. got = [e \in 1..n |-> {e}]
  BY <1>2, <1>3
<1>5. \A e \in 1..n : e <= given
  BY <1>1 DEF n
<1>. QED BY <1>1, <1>4, <1>5

LEMMA ReadKeeps ==
    ASSUME SizesAgree, LayoutIInv, ReadElement
    PROVE  LayoutIInv'
<1>. DEFINE n == Len(ereprs)
<1>1. /\ step = "read" /\ ~outward /\ next \in 1..n /\ Held(n) /\ Gotten(next - 1) /\ Understood
      /\ DOMAIN mem = Touched /\ repr \in Types /\ outward \in BOOLEAN /\ ours \in BOOLEAN
      /\ given \in Nat /\ given = n
  BY DEF LayoutIInv, ReadElement
<1>2. /\ got' = Append(got, {Byte(b) : b \in Bytes(next)})
      /\ next' = next + 1 /\ step' = (IF next = n THEN "done" ELSE "read")
      /\ UNCHANGED type /\ mem' = mem
  BY DEF ReadElement
<1>3. n \in Nat \ {0}
  BY <1>1, ElementsFacts
<1>4. got' = Append(got, {next})
  <2>1. next <= n
    BY <1>1
  <2>2. {Byte(b) : b \in Bytes(next)} = {IF next <= n THEN next ELSE Junk}
    BY <1>1, HeldIsRead
  <2>. QED BY <1>2, <2>1, <2>2
<1>5. Understood' /\ \A e : CBytes(e)' = CBytes(e)
  BY <1>1, <1>2, SameType
<1>6. n = Len(ereprs')
  BY <1>2 DEF type
<1>. HIDE DEF n
<1>7. Held(Len(ereprs))'
  <2>1. \A e \in 1..Len(ereprs') : \A b \in CBytes(e)' :
          b \in DOMAIN mem' /\ mem'[b] = IF e <= Len(ereprs') THEN e ELSE Junk
    <3>1. \A e \in 1..n : \A b \in CBytes(e) : b \in DOMAIN mem /\ mem[b] = IF e <= n THEN e ELSE Junk
      BY <1>1 DEF Held, n
    <3>. QED BY <1>2, <1>5, <1>6, <3>1
  <2>. QED BY <2>1 DEF Held
<1>8. got' \in Seq(SUBSET Nat) /\ Len(got') = next /\ \A e \in 1..next : got'[e] = {e}
  <2>1. got \in Seq(SUBSET Nat) /\ Len(got) = next - 1 /\ \A e \in 1..(next - 1) : got[e] = {e}
    BY <1>1 DEF Gotten
  <2>2. {next} \in SUBSET Nat
    BY <1>1
  <2>3. /\ got' \in Seq(SUBSET Nat) /\ Len(got') = Len(got) + 1 /\ got'[Len(got) + 1] = {next}
        /\ \A e \in 1..Len(got) : got'[e] = got[e]
    BY <1>4, <2>1, <2>2, AppendProperties
  <2>4. Len(got) + 1 = next /\ \A e \in 1..next : e = next \/ e \in 1..(next - 1)
    BY <1>1, <2>1
  <2>. QED BY <2>1, <2>3, <2>4
<1>9. /\ ~outward' /\ repr' \in Types /\ outward' \in BOOLEAN /\ ours' \in BOOLEAN
      /\ next' \in Nat /\ given' \in Nat /\ given' = Len(ereprs')
  BY <1>1, <1>2, <1>6 DEF type
<1>10. DOMAIN mem' = Touched'
  <2>1. step \in {"read", "done"} /\ step' \in {"read", "done"}
    BY <1>1, <1>2
  <2>2. PassedEnd' = PassedEnd
    BY <1>2, SameType
  <2>3. Touched' = Touched
    BY <1>2, <2>1, <2>2 DEF Touched, type
  <2>. QED BY <1>1, <1>2, <2>3
<1>11. CASE next = n
  <2>1. step' = "done"
    BY <1>2, <1>11
  <2>2. Gotten(Len(ereprs))'
    BY <1>6, <1>8, <1>11 DEF Gotten
  <2>3. Received'
    <3>1. AllRead'
      BY <1>5, <1>9, <2>2 DEF AllRead
    <3>. QED BY <3>1, AllReadReceived, PTL
  <2>. QED BY <1>5, <1>9, <1>10, <2>1, <2>3 DEF LayoutIInv
<1>12. CASE next # n
  <2>1. step' = "read" /\ next' \in 1..Len(ereprs') /\ next' - 1 = next
    BY <1>1, <1>2, <1>3, <1>6, <1>12
  <2>2. Gotten(next - 1)'
    BY <1>8, <2>1 DEF Gotten
  <2>. QED BY <1>5, <1>7, <1>9, <1>10, <2>1, <2>2 DEF LayoutIInv
<1>. QED BY <1>11, <1>12

LEMMA LayoutStep ==
    ASSUME SizesAgree, LayoutIInv, [LayoutNext]_vars
    PROVE  LayoutIInv'
<1>1. CASE ParseType
  BY <1>1, ParseKeeps
<1>2. CASE ParseThrows
  BY <1>2 DEF ParseThrows, LayoutIInv, type
<1>3. CASE WriteElement
  BY <1>3, WriteKeeps
<1>4. CASE WriteThrows
  BY <1>4, WriteThrowsKeeps
<1>5. CASE WriteEnds
  BY <1>5, WriteEndsKeeps
<1>6. CASE NativeReads
  BY <1>6, NativeReadsKeeps
<1>7. CASE NativeWrites
  BY <1>7, NativeWritesKeeps
<1>8. CASE ReadElement
  BY <1>8, ReadKeeps
<1>9. CASE UNCHANGED vars
  <2>1. UNCHANGED <<type, step, mem, next, got>>
    BY <1>9 DEF vars, type
  <2>2. Understood' = Understood /\ (\A e : CBytes(e)' = CBytes(e)) /\ PassedEnd' = PassedEnd
    BY <2>1 DEF type, Understood, CBytes, PassedEnd
  <2>3. Touched' = Touched /\ Received' = Received
    BY <2>1, <2>2 DEF Touched, Received, type
  <2>. QED BY <2>1, <2>2, <2>3 DEF LayoutIInv, Held, Gotten, type
<1>. QED BY <1>1, <1>2, <1>3, <1>4, <1>5, <1>6, <1>7, <1>8, <1>9 DEF LayoutNext

LEMMA LayoutInvariant ==
    ASSUME SizesAgree
    PROVE  LayoutSpec => []LayoutIInv
<1>1. LayoutInit => LayoutIInv
  BY LayoutStart
<1>2. LayoutIInv /\ [LayoutNext]_vars => LayoutIInv'
  BY LayoutStep
<1>. QED BY <1>1, <1>2, PTL DEF LayoutSpec

\* Whatever the representation, a value of it gets from one side to the other
\* whole: each element that is given is read where it was written, and of the others
\* what was there (parseType, writeArg, readRet).
THEOREM EachReceived ==
    ASSUME SizesAgree
    PROVE  LayoutSpec => []Received
<1>1. LayoutIInv => Received
  BY DEF LayoutIInv, Received
<1>. QED BY <1>1, LayoutInvariant, PTL

\* Whatever the representation and however many values the script gives, the script's
\* side stays in the memory of the value, and native code leaves nbytes by just the
\* padding at the end of the type or the register for a returned integer (walkTree,
\* CFunction's constructor).
THEOREM BeyondIsNative ==
    ASSUME SizesAgree
    PROVE  LayoutSpec => []OnlyNativeBeyond
<1>1. ASSUME LayoutIInv PROVE OnlyNativeBeyond
  <2>. SUFFICES ASSUME step \notin {"parse", "throw"} PROVE OnlyNativeBeyond
    BY DEF OnlyNativeBeyond
  <2>. DEFINE native == step \in {"read", "done"}
              end == IF ~outward /\ repr \in Primitives THEN FfiReturn[repr] ELSE cplace.end
  <2>1. Understood /\ DOMAIN mem = Touched
    BY <1>1 DEF LayoutIInv
  <2>2. /\ DOMAIN ereprs = 1..Len(ereprs)
        /\ nbytes \in Nat /\ cplace.end \in Nat /\ nbytes <= cplace.end
        /\ cplace.end - nbytes < CAlignOf[repr]
        /\ \A e \in 1..Len(ereprs) : CBytes(e) \subseteq 0..(nbytes - 1)
    BY <2>1, ElementsFacts
  <2>3. end \in Nat /\ PassedEnd = end
    BY <2>2, LayoutAssumption DEF PassedEnd
  <2>. HIDE DEF end
  <2>4. CASE ~ours
    <3>1. Touched = Allocated
      BY <2>4 DEF Touched, Allocated
    <3>. QED BY <2>1, <2>2, <2>4, <3>1 DEF OnlyNativeBeyond
  <2>5. CASE ours /\ ~native
    <3>1. Touched = Allocated
      BY <2>5 DEF Touched, Allocated
    <3>. QED BY <2>1, <2>2, <2>5, <3>1 DEF OnlyNativeBeyond
  <2>6. CASE ours /\ native
    <3>1. Touched = (0..(nbytes - 1)) \cup 0..(end - 1) /\ Allocated = 0..(nbytes - 1)
      BY <2>3, <2>6 DEF Touched, Allocated
    <3>2. ((0..(nbytes - 1)) \cup 0..(end - 1)) \ (0..(nbytes - 1)) = nbytes..(end - 1)
      BY <2>2, <2>3
    <3>3. DOMAIN mem \ Allocated = nbytes..(end - 1)
      BY <2>1, <3>1, <3>2
    <3>. QED BY <2>2, <2>6, <3>3 DEF OnlyNativeBeyond, end
  <2>. QED BY <2>4, <2>5, <2>6
<1>. QED BY <1>1, LayoutInvariant, PTL

\* Only where the sizes differ, as they do for size_t, can two elements overlap
\* (primitiveTypes).
THEOREM OverlapNeedsSizes ==
    ASSUME SizesAgree
    PROVE  LayoutSpec => []ElementsApart
<1>1. ASSUME LayoutIInv PROVE ElementsApart
  <2>. SUFFICES ASSUME NEW e \in DOMAIN eoffsets, e > 1
                PROVE  eoffsets[e - 1] + Width[ereprs[e - 1]] <= eoffsets[e]
    BY DEF ElementsApart
  <2>1. CASE step \in {"parse", "throw"}
    <3>1. eoffsets = <<>>
      BY <1>1, <2>1 DEF LayoutIInv
    <3>. QED BY <3>1
  <2>2. CASE step \notin {"parse", "throw"}
    <3>1. Understood
      BY <1>1, <2>2 DEF LayoutIInv
    <3>2. Len(ereprs) \in Nat /\ DOMAIN eoffsets = 1..Len(ereprs)
      BY <3>1, ElementsFacts
    <3>3. e \in 1..Len(ereprs) /\ e - 1 \in 1..Len(ereprs) /\ e - 1 < e
      BY <3>2
    <3>4. Len(eoffsets) = Len(ereprs) /\ ereprs[e - 1] \in Primitives
      BY <3>1, <3>3, SeqFacts DEF Understood, Laid
    <3>5. eoffsets[e - 1] + CSize[ereprs[e - 1]] <= eoffsets[e]
      BY <3>1, <3>3, <3>4 DEF Understood, Laid
    <3>. QED BY <3>4, <3>5 DEF SizesAgree
  <2>. QED BY <2>1, <2>2
<1>. QED BY <1>1, LayoutInvariant, PTL

=============================================================================
