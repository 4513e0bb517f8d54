-------------------------- MODULE FfiNativesProofs --------------------------
(***************************************************************************)
(* The bounds checks of the memory accessors, and what is read back of the *)
(* values stored, for an arena, a machine word, numbers and texts of any   *)
(* size.                                                                   *)
(*                                                                         *)
(* An access that passes the test is outside its block only if the sum of  *)
(* offset and length wrapped, or one of the two did on its own; a number   *)
(* of the script below zero is at least half a word in C, and one that is  *)
(* not is less, so that the sum of two of these does not wrap.             *)
(*                                                                         *)
(* A value is read back because its bytes are still those that were        *)
(* stored, wherever realloc has taken them: no other block, and so no      *)
(* other write, reaches into the block it is in.  The bytes of a number    *)
(* are its digits, whose value is its remainder by the numbers that the    *)
(* width has, and the C type's integer is the one with that remainder.     *)
(***************************************************************************)
EXTENDS FfiNatives, DataLemmas, SequenceTheorems, FiniteSetTheorems, TLAPS

\* The blocks are in the arena, and the test in front of an access is sound.
BlockType == block \in [Addresses -> 0..Top]

BoundsInv == BlockType /\ BoundsChecked

\* What the bytes of a remembered value are.
Image(r) ==
    CASE r.kind = "int"   -> BytesOf(ToSize(r.val), r.n)
      [] r.kind = "float" -> FloatBytes(r.val, r.n)
      [] r.kind = "text"  -> [i \in 0..(Len(UpToNul(r.val)) - 1) |-> UpToNul(r.val)[i + 1]]
      [] OTHER -> [i \in 0..Len(r.val) |-> IF i < Len(r.val) THEN r.val[i + 1] ELSE NUL]

\* A remembered value is one that an action stores.
Formed(r) ==
    /\ r.at \in Nat
    /\ \/ r.kind = "int" /\ r.n \in Widths /\ r.val \in Int
       \/ r.kind = "float" /\ r.n \in {4, 8} /\ r.val \in Reals
       \/ r.kind = "text" /\ r.val \in Texts /\ r.n = Len(UpToNul(r.val))
       \/ r.kind = "cstring" /\ r.val \in Texts /\ r.n = Len(r.val) + 1

\* Its bytes are in memory,
Whole(r) == \A i \in 0..(r.n - 1) : mem[r.at + i] = Image(r)[i]

\* and in a block.
Housed(r) == r.n > 0 => \E b \in Blocks : Within(b, r.at, r.n)

\* What is remembered of a value is true.
Kept(r) == Formed(r) /\ Whole(r) /\ Housed(r)

\* The blocks lie in the arena.
BlocksFit == \A b \in Blocks : Extent(b, block[b]) \subseteq Addresses

\* So it is of every value remembered.
StoredInv == BlocksFit /\ \A r \in stored : Kept(r)

-----------------------------------------------------------------------------
(* Numbers *)

\* The powers of a number.
LEMMA PowerFacts ==
    ASSUME NEW b \in Nat \ {0}
    PROVE  /\ Power(b, 0) = 1
           /\ \A k \in Nat : Power(b, k) \in Nat \ {0} /\ Power(b, k + 1) = b * Power(b, k)
<1>. DEFINE V == Nat \ {0}
            one == [k \in Nat |-> 1]
            p == [k \in Nat |-> IF k = 0 THEN 0 ELSE k - 1]
            F == [k \in Nat |-> [v \in V |-> b * v]]
            rank == [k \in Nat |-> k]
            Def(f) == f = [i \in Nat |-> IF i = 0 THEN 1 ELSE b * f[i - 1]]
            to == CHOOSE f : Def(f)
<1>1. RecursionOn(Nat, V, {0}, one, p, F, rank)
  <2>1. one \in [Nat -> V] /\ p \in [Nat -> Nat] /\ rank \in [Nat -> Nat]
        /\ \A k \in Nat \ {0} : rank[p[k]] < rank[k]
    OBVIOUS
  <2>2. \A v \in V : b * v \in V
    OBVIOUS
  <2>3. F \in [Nat -> [V -> V]]
    <3>. HIDE DEF V
    <3>. QED BY <2>2
  <2>. HIDE DEF V, one, p, F, rank
  <2>. QED BY <2>1, <2>3 DEF RecursionOn
<1>2. PICK f \in [Nat -> V] : \A k \in Nat : f[k] = IF k \in {0} THEN one[k] ELSE F[k][f[p[k]]]
  <2>. HIDE DEF V, one, p, F, rank
  <2>. QED BY <1>1, Recursion
<1>3. ASSUME NEW k \in Nat
      PROVE  f[k] = IF k = 0 THEN 1 ELSE b * f[k - 1]
  <2>1. CASE k = 0
    <3>1. k \in {0} /\ one[k] = 1
      BY <2>1
    <3>. HIDE DEF one, F, p, V
    <3>. QED BY <1>2, <2>1, <3>1
  <2>2. CASE k # 0
    <3>1. k \notin {0} /\ p[k] = k - 1 /\ k - 1 \in Nat
      BY <2>2
    <3>2. f[k] = F[k][f[k - 1]]
      <4>. HIDE DEF one, F, p, V
      <4>. QED BY <1>2, <3>1
    <3>3. f[k - 1] \in V
      <4>. HIDE DEF V
      <4>. QED BY <3>1
    <3>4. F[k][f[k - 1]] = b * f[k - 1]
      <4>. HIDE DEF V
      <4>. QED BY <3>3
    <3>. QED BY <2>2, <3>2, <3>4
  <2>. QED BY <2>1, <2>2
<1>4. Def(f)
  <2>. HIDE DEF V
  <2>. QED BY <1>3
<1>5. Def(to)
  <2>. HIDE DEF Def
  <2>. QED BY <1>4
<1>6. \A k \in Nat : Power(b, k) = to[k]
  BY DEF Power
<1>7. to[0] = 1 /\ \A k \in Nat : to[k + 1] = b * to[k]
  <2>1. \A k \in Nat : to[k] = IF k = 0 THEN 1 ELSE b * to[k - 1]
    <3>. HIDE DEF to
    <3>. QED BY <1>5
  <2>2. \A k \in Nat : k + 1 \in Nat /\ k + 1 # 0 /\ (k + 1) - 1 = k
    OBVIOUS
  <2>. HIDE DEF to
  <2>. QED BY <2>1, <2>2
<1>8. \A k \in Nat : to[k] \in V
  <2>. DEFINE Failing == {k \in Nat : to[k] \notin V}
  <2>1. SUFFICES ASSUME Failing # {} PROVE FALSE
    OBVIOUS
  <2>2. PICK k \in Failing : \A j \in Failing : k <= j
    <3>1. Failing \in SUBSET Nat
      OBVIOUS
    <3>. HIDE DEF Failing
    <3>. QED BY <2>1, <3>1, LeastNatural
  <2>. HIDE DEF to
  <2>3. k \in Nat /\ to[k] \notin V /\ k # 0
    BY <1>7, <2>2
  <2>4. k - 1 \in Nat /\ (k - 1) + 1 = k /\ ~(k <= k - 1)
    BY <2>3
  <2>5. to[k - 1] \in V
    BY <2>2, <2>4
  <2>6. to[k] = b * to[k - 1]
    BY <1>7, <2>4
  <2>. QED BY <2>3, <2>5, <2>6
<1>. HIDE DEF to
<1>9. \A k \in Nat : k + 1 \in Nat
  OBVIOUS
<1>. QED BY <1>6, <1>7, <1>8, <1>9
\* The numbers that bytes can stand for,
LEMMA Powers ==
    /\ Power(BYTE, 0) = 1
    /\ \A k \in Nat : /\ Power(BYTE, k) \in Nat \ {0}
                      /\ Power(BYTE, k + 1) = BYTE * Power(BYTE, k)
  <1>1. BYTE \in Nat \ {0}
    BY NativesAssumption
  <1>. QED BY <1>1, PowerFacts

\* and those of a word.
LEMMA WordFacts == /\ WORD \in Nat \ {0} /\ BYTE \in Nat \ {0} /\ Top \in Nat
                   /\ 2 * (Top + 8) < WORD
  <1>1. Power(BYTE, 8) \in Nat \ {0}
    BY Powers
  <1>. QED BY <1>1, NativesAssumption DEF WORD

\* A word is a multiple of the numbers that a width has.
LEMMA WordMultiple ==
    \A w \in 0..8 : \E q \in Nat \ {0} : WORD = Power(BYTE, w) * q
<1>. DEFINE Multiple(w) == \E q \in Nat \ {0} : WORD = Power(BYTE, w) * q
<1>1. Multiple(8)
  <2>1. WORD = Power(BYTE, 8) * 1
    BY WordFacts DEF WORD
  <2>. QED BY <2>1
<1>2. ASSUME NEW w \in Nat, Multiple(w + 1)
      PROVE  Multiple(w)
  <2>1. PICK q \in Nat \ {0} : WORD = Power(BYTE, w + 1) * q
    BY <1>2
  <2>. DEFINE p == Power(BYTE, w)
  <2>2. p \in Nat \ {0} /\ Power(BYTE, w + 1) = BYTE * p /\ BYTE \in Nat \ {0}
    BY Powers, WordFacts
  <2>. HIDE DEF p
  <2>3. (BYTE * p) * q = p * (BYTE * q) /\ BYTE * q \in Nat \ {0}
    BY <2>2
  <2>4. WORD = p * (BYTE * q)
    BY <2>1, <2>2, <2>3
  <2>. QED BY <2>3, <2>4 DEF p
<1>. HIDE DEF Multiple
<1>3. Multiple(7)
  BY <1>1, <1>2, 7 + 1 = 8, 7 \in Nat
<1>4. Multiple(6)
  BY <1>3, <1>2, 6 + 1 = 7, 6 \in Nat
<1>5. Multiple(5)
  BY <1>4, <1>2, 5 + 1 = 6, 5 \in Nat
<1>6. Multiple(4)
  BY <1>5, <1>2, 4 + 1 = 5, 4 \in Nat
<1>7. Multiple(3)
  BY <1>6, <1>2, 3 + 1 = 4, 3 \in Nat
<1>8. Multiple(2)
  BY <1>7, <1>2, 2 + 1 = 3, 2 \in Nat
<1>9. Multiple(1)
  BY <1>8, <1>2, 1 + 1 = 2, 1 \in Nat
<1>10. Multiple(0)
  BY <1>9, <1>2, 0 + 1 = 1, 0 \in Nat
<1>11. \A w \in 0..8 : w \in {0, 1, 2, 3, 4, 5, 6, 7, 8}
  OBVIOUS
<1>12. \A w \in 0..8 : Multiple(w)
  BY <1>1, <1>3, <1>4, <1>5, <1>6, <1>7, <1>8, <1>9, <1>10, <1>11
<1>. QED BY <1>12 DEF Multiple

\* What a width of bytes keeps of a number is what it keeps of its word; and the
\* numbers of a width are evenly many, and no more than a word has.
LEMMA WidthFacts ==
    ASSUME NEW w \in Widths
    PROVE  /\ w \in 1..8
           /\ Power(BYTE, w) \in Nat \ {0} /\ Power(BYTE, w) % 2 = 0
           /\ Power(BYTE, w) <= WORD
           /\ \A n \in Int : (n % WORD) % Power(BYTE, w) = n % Power(BYTE, w)
<1>. DEFINE p == Power(BYTE, w)
<1>1. w \in 1..8 /\ w \in 0..8 /\ w \in Nat
  BY DEF Widths
<1>2. p \in Nat \ {0}
  BY <1>1, Powers
<1>3. p % 2 = 0
  <2>. DEFINE c == Power(BYTE, w - 1)
  <2>1. w - 1 \in Nat /\ (w - 1) + 1 = w
    BY <1>1
  <2>2. c \in Nat /\ p = BYTE * c
    BY <2>1, Powers
  <2>3. BYTE \in Nat /\ BYTE % 2 = 0
    BY NativesAssumption
  <2>. HIDE DEF p, c
  <2>4. PICK h \in Nat : BYTE = 2 * h
    <3>1. BYTE = 2 * (BYTE \div 2) /\ BYTE \div 2 \in Nat
      BY <2>3
    <3>. QED BY <3>1
  <2>5. p = 2 * (h * c) /\ h * c \in Nat
    BY <2>2, <2>4
  <2>. QED BY <2>5
<1>4. PICK q \in Nat \ {0} : WORD = p * q
  BY <1>1, WordMultiple
<1>. HIDE DEF p
<1>5. p <= WORD
  <2>1. p * q >= p * 1
    BY <1>2
  <2>. QED BY <1>2, <1>4, <2>1
<1>6. ASSUME NEW n \in Int
      PROVE  (n % WORD) % p = n % p
  <2>1. (n % (p * q)) % p = n % p
    BY <1>2, RestOfRest
  <2>. QED BY <1>4, <2>1
<1>. QED BY <1>1, <1>2, <1>3, <1>5, <1>6 DEF p

\* The value of the bytes of a number.
LEMMA BytesValue ==
    ASSUME NEW n \in Int, NEW w \in Nat, NEW a,
           \A i \in 0..(w - 1) : mem[a + i] = (n \div Power(BYTE, i)) % BYTE
    PROVE  Unsigned(a, w) = n % Power(BYTE, w)
<1>. DEFINE P(i) == Power(BYTE, i)
            g == [i \in 0..w |-> (n \div P(i)) % P(w - i)]
            Def(f) == f = [i \in 0..w |-> IF i = w THEN 0 ELSE mem[a + i] + (BYTE * f[i + 1])]
            from == CHOOSE f : Def(f)
<1>0. BYTE \in Nat \ {0} /\ P(0) = 1 /\ \A k \in Nat : P(k) \in Nat \ {0} /\ P(k + 1) = BYTE * P(k)
  BY Powers, WordFacts
<1>. HIDE DEF P
<1>1. ASSUME NEW i \in 0..w, i # w
      PROVE  g[i] = mem[a + i] + (BYTE * g[i + 1])
  <2>. DEFINE x == n \div P(i)  q == P(w - (i + 1))
  <2>1. i \in Nat /\ i + 1 \in 0..w /\ w - (i + 1) \in Nat /\ w - i = (w - (i + 1)) + 1 /\ i \in 0..(w - 1)
    BY <1>1
  <2>2. P(i) \in Nat \ {0} /\ q \in Nat \ {0} /\ P(w - i) = BYTE * q /\ P(i + 1) = BYTE * P(i)
    BY <1>0, <2>1
  <2>3. x \in Int
    BY <2>2
  <2>4. mem[a + i] = x % BYTE
    BY <2>1 DEF P
  <2>5. n \div P(i + 1) = x \div BYTE
    <3>. DEFINE p == P(i)
    <3>1. p \in Nat \ {0} /\ P(i + 1) = BYTE * p /\ x = n \div p
      BY <2>2
    <3>. HIDE DEF p, x
    <3>2. BYTE * p = p * BYTE
      BY <1>0, <3>1
    <3>3. BYTE \in Nat \ {0}
      BY <1>0
    <3>4. DividesTwice(n, p, BYTE)
      BY <3>1, <3>3, DivisionTwice, Zenon
    <3>5. n \div (p * BYTE) = (n \div p) \div BYTE
      BY <3>4 DEF DividesTwice
    <3>. QED BY <3>1, <3>2, <3>5
  <2>6. x % (BYTE * q) = (x % BYTE) + (BYTE * ((x \div BYTE) % q))
    <3>. HIDE DEF x, q
    <3>1. BYTE \in Nat \ {0} /\ q \in Nat \ {0} /\ x \in Int
      BY <1>0, <2>2, <2>3
    <3>2. DividesTwice(x, BYTE, q)
      BY <3>1, DivisionTwice, Zenon
    <3>. QED BY <3>2 DEF DividesTwice
  <2>7. g[i] = x % (BYTE * q) /\ g[i + 1] = (x \div BYTE) % q
    BY <1>1, <2>1, <2>2, <2>5
  <2>. HIDE DEF g, x, q
  <2>. QED BY <2>4, <2>6, <2>7
<1>2. g[w] = 0
  <2>1. w \in 0..w /\ w - w = 0 /\ P(w) \in Nat \ {0}
    BY <1>0
  <2>2. n \div P(w) \in Int
    BY <2>1
  <2>3. \A x \in Int : x % 1 = 0
    OBVIOUS
  <2>. QED BY <1>0, <2>1, <2>2, <2>3
<1>3. Def(g)
  <2>1. g = [i \in 0..w |-> g[i]]
    OBVIOUS
  <2>2. \A i \in 0..w : g[i] = IF i = w THEN 0 ELSE mem[a + i] + (BYTE * g[i + 1])
    <3>. HIDE DEF g
    <3>. QED BY <1>1, <1>2
  <2>. HIDE DEF g
  <2>. QED BY <2>1, <2>2
<1>4. Def(from)
  <2>. HIDE DEF Def
  <2>. QED BY <1>3
<1>5. \A i \in 0..w : from[i] = IF i = w THEN 0 ELSE mem[a + i] + (BYTE * from[i + 1])
  <2>. HIDE DEF from
  <2>. QED BY <1>4
<1>. HIDE DEF g, from
<1>6. \A j \in 0..w : from[w - j] = g[w - j]
  <2>. DEFINE Failing == {j \in 0..w : from[w - j] # g[w - j]}
  <2>1. SUFFICES ASSUME Failing # {} PROVE FALSE
    OBVIOUS
  <2>2. PICK j \in Failing : \A k \in Failing : j <= k
    <3>1. Failing \in SUBSET Nat
      OBVIOUS
    <3>. HIDE DEF Failing
    <3>. QED BY <2>1, <3>1, LeastNatural
  <2>3. j \in 0..w /\ from[w - j] # g[w - j] /\ w - 0 = w
    BY <2>2
  <2>4. j # 0
    BY <1>2, <1>5, <2>3, w \in 0..w
  <2>5. /\ w - j \in 0..w /\ w - j # w
        /\ (w - j) + 1 = w - (j - 1) /\ j - 1 \in 0..w /\ ~(j <= j - 1)
    BY <2>3, <2>4
  <2>6. from[w - (j - 1)] = g[w - (j - 1)]
    BY <2>2, <2>5
  <2>7. from[w - j] = mem[a + (w - j)] + (BYTE * from[w - (j - 1)])
    BY <1>5, <2>5
  <2>8. g[w - j] = mem[a + (w - j)] + (BYTE * g[w - (j - 1)])
    BY <1>1, <2>5
  <2>. QED BY <2>3, <2>6, <2>7, <2>8
<1>7. from[0] = g[0]
  BY <1>6, w \in 0..w, w - w = 0
<1>8. g[0] = n % P(w)
  <2>1. 0 \in 0..w /\ w - 0 = w /\ n \div 1 = n
    OBVIOUS
  <2>. QED BY <1>0, <2>1 DEF g
<1>9. Unsigned(a, w) = from[0]
  BY DEF Unsigned, from
<1>. QED BY <1>7, <1>8, <1>9 DEF P

\* Reading a number's remainder as a signed one gives back what is in range.
LEMMA SignedValue ==
    ASSUME NEW m \in Nat \ {0}, NEW x \in Int, -m <= 2 * x, 2 * x < m
    PROVE  Signed(x % m, m) = x
<1>1. CASE x >= 0
  <2>1. x \in 0..(m - 1) /\ x = (m * 0) + x
    BY <1>1
  <2>2. x % m = x
    BY <2>1, DivisionUnique
  <2>. QED BY <2>2 DEF Signed
<1>2. CASE x < 0
  <2>1. x + m \in 0..(m - 1) /\ x = (m * (-1)) + (x + m)
    BY <1>2
  <2>2. x % m = x + m
    BY <2>1, DivisionUnique
  <2>. QED BY <2>1, <2>2 DEF Signed
<1>. QED BY <1>1, <1>2

\* What C makes of a number is what is read of its bytes.
LEMMA AsCValue ==
    ASSUME NEW w \in Widths, NEW n \in Int
    PROVE  /\ AsC(n, FALSE, w) = n % Power(BYTE, w)
           /\ AsC(n, TRUE, w) = Signed(n % Power(BYTE, w), Power(BYTE, w))
<1>. DEFINE m == Power(BYTE, w)  r == n % m  h == m \div 2
            U == 0..(m - 1)  S == (-h)..(h - 1)
<1>0. AsC(n, FALSE, w) = (CHOOSE i \in U : (i - n) % m = 0) /\ AsC(n, TRUE, w) = (CHOOSE i \in S : (i - n) % m = 0)
  BY DEF AsC
<1>1. m \in Nat \ {0} /\ m % 2 = 0
  BY WidthFacts
<1>. HIDE DEF m
<1>2. h \in Nat /\ m = 2 * h /\ r \in 0..(m - 1)
  BY <1>1
<1>3. (r - n) % m = 0 /\ ((r - m) - n) % m = 0
  BY <1>1, RestApart
<1>. HIDE DEF r, h
<1>4. \A i \in U : (i - n) % m = 0 => i = r
  <2>1. SUFFICES ASSUME NEW i \in U, (i - n) % m = 0 PROVE i = r
    OBVIOUS
  <2>2. i \in Int /\ i \in 0..(m - 1) /\ i = (m * 0) + i
    BY <1>1, <2>1
  <2>3. i % m = r
    <3>1. i % m = n % m
      BY <1>1, <2>1, <2>2, SameRest
    <3>. QED BY <3>1 DEF r
  <2>4. i % m = i
    BY <1>1, <2>2, DivisionUnique
  <2>. QED BY <2>3, <2>4
<1>5. (CHOOSE i \in U : (i - n) % m = 0) = r
  <2>1. r \in U /\ (r - n) % m = 0
    BY <1>2, <1>3
  <2>. HIDE DEF U
  <2>. QED BY <1>4, <2>1
<1>6. \A i \in S : (i - n) % m = 0 => i = Signed(r, m)
  <2>1. SUFFICES ASSUME NEW i \in S, (i - n) % m = 0 PROVE i = Signed(r, m)
    OBVIOUS
  <2>2. i % m = r /\ i \in Int
    <3>1. i \in Int
      BY <1>2, <2>1
    <3>2. i % m = n % m
      BY <1>1, <2>1, <3>1, SameRest
    <3>. QED BY <3>1, <3>2 DEF r
  <2>3. -m <= 2 * i /\ 2 * i < m
    BY <1>2, <2>1
  <2>4. Signed(i % m, m) = i
    BY <1>1, <2>2, <2>3, SignedValue
  <2>. QED BY <2>2, <2>4
<1>7. Signed(r, m) \in S /\ (Signed(r, m) - n) % m = 0
  BY <1>1, <1>2, <1>3 DEF Signed
<1>8. (CHOOSE i \in S : (i - n) % m = 0) = Signed(r, m)
  <2>. HIDE DEF S
  <2>. QED BY <1>6, <1>7
<1>. QED BY <1>0, <1>5, <1>8 DEF r, m

\* The integers of a width are those of a word.
LEMMA SignedRange ==
    ASSUME NEW m \in Nat \ {0}, NEW u \in 0..(m - 1)
    PROVE  Signed(u, m) \in Int /\ Abs(Signed(u, m)) <= m
  BY DEF Signed, Abs

\* A number of a word is rounded to one close to it.
LEMMA RoundedClose ==
    ASSUME NEW n \in Int, NEW m \in Nat \ {0}, Abs(n) <= WORD
    PROVE  Rounded(n, m) \in Int /\ Close(Rounded(n, m), n, m)
<1>. DEFINE P(k) == Power(2, k)
            Fits == {s \in Ulps : Abs(n) <= m * s}
            ulp == Min(Fits)
            q == n \div ulp
            r == n % ulp
            up == 2 * r > ulp \/ (2 * r = ulp /\ q % 2 = 1)
            x == IF up THEN (q + 1) * ulp ELSE q * ulp
<1>0. P(0) = 1 /\ \A k \in Nat : P(k) \in Nat \ {0} /\ P(k + 1) = 2 * P(k)
  BY PowerFacts
<1>1. BITS \in Nat /\ WORD <= P(BITS) /\ WORD \in Nat
  BY WordFacts, NativesAssumption
<1>2. Abs(n) \in Nat /\ (Abs(n) = n \/ Abs(n) = -n) /\ (n >= 0 => Abs(n) = n) /\ (n < 0 => Abs(n) = -n)
  BY DEF Abs
<1>3. x = Rounded(n, m)
  BY DEF Rounded
<1>4. Ulps = {P(k) : k \in 0..BITS}
  BY DEF Ulps
<1>. HIDE DEF P
<1>5. Ulps \in SUBSET (Nat \ {0})
  BY <1>0, <1>4
<1>6. P(BITS) \in Fits
  <2>1. P(BITS) \in Ulps /\ P(BITS) \in Nat \ {0}
    BY <1>0, <1>1, <1>4
  <2>. DEFINE p == P(BITS)
  <2>. HIDE DEF p
  <2>2. m * p >= 1 * p
    BY <2>1 DEF p
  <2>3. Abs(n) <= m * p
    BY <1>1, <1>2, <2>1, <2>2 DEF p
  <2>. QED BY <2>1, <2>3 DEF p
<1>7. ulp \in Fits /\ \A s \in Fits : ulp <= s
  <2>1. Fits \in SUBSET Nat /\ Fits # {}
    BY <1>5, <1>6
  <2>. HIDE DEF Fits
  <2>2. PICK s \in Fits : \A t \in Fits : s <= t
    BY <2>1, LeastNatural
  <2>. QED BY <2>2 DEF Min
<1>8. ulp \in Nat \ {0} /\ Abs(n) <= m * ulp /\ ulp \in Ulps
  BY <1>5, <1>7
<1>. HIDE DEF ulp
<1>9. q \in Int /\ r \in 0..(ulp - 1) /\ n = (ulp * q) + r
  BY <1>8
<1>. HIDE DEF q, r
<1>10. up \in BOOLEAN
  OBVIOUS
<1>11. x \in Int /\ 2 * Abs(x - n) <= ulp
  <2>1. q * ulp = ulp * q /\ (q + 1) * ulp = (ulp * q) + ulp /\ ulp * q \in Int
    BY <1>8, <1>9
  <2>2. CASE up
    <3>1. x - n = ulp - r /\ 2 * r >= ulp /\ x \in Int
      BY <1>8, <1>9, <2>1, <2>2
    <3>. HIDE DEF x
    <3>. QED BY <1>8, <1>9, <3>1 DEF Abs
  <2>3. CASE ~up
    <3>1. x - n = -r /\ 2 * r <= ulp /\ x \in Int
      BY <1>8, <1>9, <2>1, <2>3
    <3>. HIDE DEF x
    <3>. QED BY <1>8, <1>9, <3>1 DEF Abs
  <2>. QED BY <2>2, <2>3
<1>12. CASE Abs(n) <= m
  <2>1. 1 \in Fits
    BY <1>0, <1>1, <1>2, <1>4, <1>12
  <2>2. ulp = 1
    BY <1>7, <1>8, <2>1
  <2>3. x = n
    <3>. HIDE DEF x
    <3>. QED BY <1>11, <2>2 DEF Abs
  <2>. HIDE DEF x
  <2>. QED BY <1>3, <1>11, <1>12, <2>3 DEF Close
<1>13. CASE Abs(n) > m
  <2>. DEFINE d == Abs(x - n)
  <2>1. PICK k \in 0..BITS : ulp = P(k)
    BY <1>4, <1>8
  <2>2. k # 0
    BY <1>0, <1>2, <1>8, <1>13, <2>1
  <2>. DEFINE half == P(k - 1)
  <2>3. half \in Ulps /\ half \in Nat \ {0} /\ ulp = 2 * half
    <3>1. k - 1 \in 0..BITS /\ k - 1 \in Nat /\ (k - 1) + 1 = k
      BY <1>1, <2>1, <2>2
    <3>. QED BY <1>0, <1>4, <2>1, <3>1
  <2>. HIDE DEF half, x
  <2>4. ~(Abs(n) <= m * half)
    <3>1. half \notin Fits
      BY <1>7, <2>3
    <3>. QED BY <2>3, <3>1
  <2>5. d \in Nat /\ d <= half
    BY <1>11, <2>3 DEF Abs
  <2>. HIDE DEF d
  <2>6. d * m <= half * m /\ half * m = m * half /\ d * m \in Int /\ m * half \in Int
    BY <2>3, <2>5
  <2>7. d * m <= Abs(n)
    BY <1>2, <2>4, <2>6
  <2>. QED BY <1>2, <1>3, <1>11, <1>13, <2>7 DEF Close, d
<1>. QED BY <1>2, <1>12, <1>13

\* A number becomes a size below WORD, and one that is not negative itself.
LEMMA SizeOf ==
    ASSUME NEW n \in Int
    PROVE  /\ ToSize(n) \in 0..(WORD - 1)
           /\ n >= 0 /\ n < WORD => ToSize(n) = n
  BY WordFacts DEF ToSize

-----------------------------------------------------------------------------
(* Texts *)

\* Copying ends before the first NUL.
LEMMA UntilNul ==
    ASSUME NEW S, NEW t \in Seq(S), NEW k \in 0..Len(t),
           \A i \in 1..k : t[i] # NUL,
           k < Len(t) => t[k + 1] = NUL
    PROVE  UpToNul(t) = SubSeq(t, 1, k)
<1>. DEFINE ends == {i \in DOMAIN t : t[i] = NUL}
<1>0. Len(t) \in Nat /\ DOMAIN t = 1..Len(t) /\ k \in Nat
  OBVIOUS
<1>1. CASE k = Len(t)
  <2>1. ends = {}
    BY <1>0, <1>1
  <2>2. SubSeq(t, 1, k) = t
    BY <1>0, <1>1
  <2>. QED BY <2>1, <2>2 DEF UpToNul
<1>2. CASE k < Len(t)
  <2>1. k + 1 \in ends /\ \A i \in ends : k + 1 <= i
    BY <1>0, <1>2
  <2>2. ends \in SUBSET Int
    BY <1>0
  <2>3. Min(ends) = k + 1
    <3>. HIDE DEF ends
    <3>1. \A x \in ends : (\A i \in ends : x <= i) => x = k + 1
      BY <2>1, <2>2
    <3>. QED BY <2>1, <3>1 DEF Min
  <2>4. ends # {} /\ Min(ends) - 1 = k
    BY <1>0, <2>1, <2>3
  <2>. QED BY <2>4 DEF UpToNul
<1>. DEFINE l == Len(t)
<1>3. k \in 0..l /\ l \in Nat
  BY <1>0
<1>4. k = l \/ k < l
  <2>. HIDE DEF l
  <2>. QED BY <1>3
<1>. QED BY <1>1, <1>2, <1>4

\* There is such an end, and what comes before it is a beginning of the text.
LEMMA NulFacts ==
    ASSUME NEW S, NEW t \in Seq(S)
    PROVE  \E k \in 0..Len(t) :
              /\ \A i \in 1..k : t[i] # NUL
              /\ k < Len(t) => t[k + 1] = NUL
              /\ UpToNul(t) = SubSeq(t, 1, k)
              /\ Len(UpToNul(t)) = k
              /\ \A i \in 1..k : UpToNul(t)[i] = t[i]
<1>. DEFINE ends == {i \in DOMAIN t : t[i] = NUL}
<1>0. Len(t) \in Nat /\ DOMAIN t = 1..Len(t)
  OBVIOUS
<1>1. PICK k \in 0..Len(t) : (\A i \in 1..k : t[i] # NUL) /\ (k < Len(t) => t[k + 1] = NUL)
  <2>1. CASE ends = {}
    <3>1. \A i \in 1..Len(t) : t[i] # NUL
      BY <1>0, <2>1
    <3>. QED BY <1>0, <3>1
  <2>2. CASE ends # {}
    <3>1. ends \in SUBSET Nat
      BY <1>0
    <3>2. PICK e \in ends : \A j \in ends : e <= j
      <4>. HIDE DEF ends
      <4>. QED BY <2>2, <3>1, LeastNatural
    <3>3. e \in 1..Len(t) /\ t[e] = NUL
      BY <1>0, <3>2
    <3>4. \A i \in 1..(e - 1) : t[i] # NUL
      <4>1. ASSUME NEW i \in 1..(e - 1), t[i] = NUL PROVE FALSE
        <5>1. i \in ends
          BY <1>0, <3>3, <4>1
        <5>. QED BY <3>2, <3>3, <5>1
      <4>. QED BY <4>1
    <3>5. e - 1 \in 0..Len(t) /\ (e - 1) + 1 = e
      BY <1>0, <3>3
    <3>. QED BY <3>3, <3>4, <3>5
  <2>. QED BY <2>1, <2>2
<1>2. UpToNul(t) = SubSeq(t, 1, k)
  BY <1>1, UntilNul
<1>3. Len(SubSeq(t, 1, k)) = k /\ \A i \in 1..k : SubSeq(t, 1, k)[i] = t[i]
  BY <1>0
<1>. QED BY <1>1, <1>2, <1>3

\* A C string is no longer than the string it is made of.
LEMMA CStringLength ==
    ASSUME NEW text \in Texts
    PROVE  Len(UpToNul(text)) \in Nat /\ 2 * Len(UpToNul(text)) < WORD
  <1>. DEFINE l == Len(text)
  <1>1. text \in Seq(0..(BYTE - 1)) /\ 2 * l < WORD /\ l \in Nat
    BY NativesAssumption
  <1>2. PICK k \in 0..l : Len(UpToNul(text)) = k
    BY <1>1, NulFacts
  <1>. HIDE DEF l
  <1>3. k \in Nat /\ 2 * k < WORD
    BY <1>1, WordFacts
  <1>. QED BY <1>2, <1>3

-----------------------------------------------------------------------------
(* Bounds *)

\* Numbers that are not negative keep their values and their sum its own.
LEMMA NoWrap ==
    ASSUME NEW offset \in Int, NEW n \in Int, NEW buflen \in 0..Top,
           offset >= 0, n >= 0, 2 * offset < WORD, 2 * n < WORD
    PROVE  OutOfBounds(buflen, offset, n) <=> offset + n > buflen
  <1>1. ToSize(offset) = offset /\ ToSize(n) = n
    BY SizeOf, WordFacts
  <1>2. ToSize(offset + n) = offset + n
    BY SizeOf, WordFacts
  <1>. QED BY <1>1, <1>2 DEF OutOfBounds, ToSize

\* An access of a block that passes the test stays in the block.
LEMMA InsideBlock ==
    ASSUME BlockType, NEW b \in Blocks, NEW offset \in Int, NEW n \in Int,
           offset >= 0, n >= 0, 2 * offset < WORD, 2 * n < WORD,
           ~OutOfBounds(block[b], offset, n)
    PROVE  Within(b, At(b, offset), ToSize(n))
  <1>1. b \in Nat /\ b >= 1 /\ b <= Top /\ block[b] \in 0..Top
    BY NativesAssumption DEF Blocks, Addresses, BlockType
  <1>2. offset + n <= block[b]
    BY <1>1, NoWrap
  <1>3. ToSize(n) = n /\ At(b, offset) = b + offset
    BY <1>1, <1>2, SizeOf, WordFacts DEF At
  <1>. QED BY <1>1, <1>2, <1>3 DEF Within, Extent

-----------------------------------------------------------------------------

\* A block fits in the arena.
LEMMA RoomSize ==
    ASSUME NEW a \in Addresses, NEW n \in Nat, Room(a, n)
    PROVE  n \in 0..Top
  <1>1. a \in Nat /\ a >= 1 /\ Top \in Nat
    BY NativesAssumption DEF Addresses
  <1>2. CASE n = 0
    BY <1>1, <1>2
  <1>3. CASE n > 0
    <2>1. a + n - 1 \in Extent(a, n)
      BY <1>1, <1>3 DEF Extent
    <2>2. a + n - 1 \in Addresses
      BY <2>1 DEF Room
    <2>. QED BY <1>1, <1>3, <2>2 DEF Addresses
  <1>. QED BY <1>2, <1>3

\* The test of an accessor agrees with the block whenever it is asked.
LEMMA TestExact ==
    ASSUME BlockType
    PROVE  \A b \in Blocks, offset, n \in Numbers :
             Representable(offset) /\ Representable(n) => (OutOfBounds(block[b], offset, n) <=> offset + n > block[b])
  <1>1. SUFFICES ASSUME NEW b \in Blocks, NEW offset \in Numbers, NEW n \in Numbers,
                        Representable(offset), Representable(n)
                 PROVE  OutOfBounds(block[b], offset, n) <=> offset + n > block[b]
    OBVIOUS
  <1>2. offset \in Int /\ n \in Int /\ offset >= 0 /\ n >= 0 /\ 2 * offset < WORD /\ 2 * n < WORD
    BY <1>1, NativesAssumption DEF Representable
  <1>3. block[b] \in 0..Top
    BY DEF Blocks, BlockType
  <1>. QED BY <1>1, <1>2, <1>3, NoWrap

\* An access that leaves its block was given a number that C does not have as
\* the script's.
LEMMA FaultWraps ==
    ASSUME BlockType, NEW b \in Blocks, NEW offset \in Numbers, NEW n \in Int, GoesOutside(b, offset, n)
    PROVE  ~(Representable(offset) /\ Representable(n))
  <1>1. offset \in Int
    BY NativesAssumption
  <1>2. SUFFICES ASSUME offset >= 0, n >= 0, 2 * offset < WORD, 2 * n < WORD
                 PROVE  FALSE
    BY DEF Representable
  <1>. QED BY <1>1, <1>2, InsideBlock DEF GoesOutside

\* What an accessor does to the blocks and to fault.
LEMMA AccessPreserves ==
    ASSUME BoundsInv, NEW b \in Blocks, NEW offset \in Numbers, NEW n \in Int,
           \/ UNCHANGED vars
           \/ UNCHANGED <<block, fault>>
           \/ GoesOutside(b, offset, n)
    PROVE  BlockType' /\ (fault # NoFault => ~(Representable(fault.offset) /\ Representable(fault.n)))'
  <1>1. CASE UNCHANGED vars \/ UNCHANGED <<block, fault>>
    BY <1>1 DEF BoundsInv, BlockType, BoundsChecked, NoFault, vars
  <1>2. CASE GoesOutside(b, offset, n)
    <2>1. ~(Representable(offset) /\ Representable(n))
      BY <1>2, FaultWraps DEF BoundsInv
    <2>2. fault' = [offset |-> offset, n |-> n] /\ UNCHANGED block
      BY <1>2 DEF GoesOutside
    <2>3. fault'.offset = offset /\ fault'.n = n
      BY <2>2
    <2>. QED BY <2>1, <2>2, <2>3 DEF BoundsInv, BlockType
  <1>. QED BY <1>1, <1>2

\* Each step preserves the invariant.
LEMMA BoundsStep == BoundsInv /\ [NativesNext]_vars => BoundsInv'
  <1>. SUFFICES ASSUME BoundsInv, [NativesNext]_vars
                PROVE  BlockType' /\ (fault # NoFault => ~(Representable(fault.offset) /\ Representable(fault.n)))'
    <2>1. ASSUME BlockType'
          PROVE  (\A b \in Blocks, offset, n \in Numbers :
                   Representable(offset) /\ Representable(n) => (OutOfBounds(block[b], offset, n) <=> offset + n > block[b]))'
      BY <2>1, TestExact, PTL
    <2>. QED BY <2>1 DEF BoundsInv, BoundsChecked
  <1>. USE DEF BoundsInv
  <1>0. \A n \in Sizes \cup Numbers : n \in Int
    BY NativesAssumption
  <1>1. ASSUME UNCHANGED <<block, fault>>
        PROVE  BlockType' /\ (fault # NoFault => ~(Representable(fault.offset) /\ Representable(fault.n)))'
    BY <1>1 DEF BlockType, BoundsChecked, NoFault
  <1>2. ASSUME NEW a \in Addresses, NEW b \in Addresses, NEW n \in 0..Top,
               \/ block' = [block EXCEPT ![a] = n]
               \/ block' = [block EXCEPT ![a] = n, ![b] = 0],
               UNCHANGED fault
        PROVE  BlockType' /\ (fault # NoFault => ~(Representable(fault.offset) /\ Representable(fault.n)))'
    <2>1. 0 \in 0..Top
      BY NativesAssumption
    <2>. QED BY <1>2, <2>1 DEF BlockType, BoundsChecked, NoFault
  <1>3. \A b \in Blocks : b \in Addresses
    BY DEF Blocks
  <1>4. CASE UNCHANGED vars
    BY <1>1, <1>4 DEF vars
  <1>5. ASSUME NEW argv \in ArgLists, NEW types \in ArgTypes, Refused(argv, types)
        PROVE  BlockType' /\ (fault # NoFault => ~(Representable(fault.offset) /\ Representable(fault.n)))'
    BY <1>4, <1>5 DEF Refused
  <1>6. ASSUME NEW n \in Sizes, Malloc(n)
        PROVE  BlockType' /\ (fault # NoFault => ~(Representable(fault.offset) /\ Representable(fault.n)))'
    <2>1. ToSize(n) \in Nat
      BY <1>0, SizeOf, NativesAssumption
    <2>2. CASE UNCHANGED block
      BY <1>1, <1>6, <2>2 DEF Malloc
    <2>3. CASE \E a \in Addresses : Room(a, ToSize(n)) /\ block' = [block EXCEPT ![a] = ToSize(n)]
      BY <1>2, <1>6, <2>1, <2>3, RoomSize DEF Malloc
    <2>. QED BY <1>6, <2>2, <2>3 DEF Malloc
  <1>7. ASSUME NEW text \in Texts, ToCString(text)
        PROVE  BlockType' /\ (fault # NoFault => ~(Representable(fault.offset) /\ Representable(fault.n)))'
    <2>1. Len(text) + 1 \in Nat
      BY NativesAssumption
    <2>2. PICK a \in Addresses : Room(a, Len(text) + 1) /\ block' = [block EXCEPT ![a] = Len(text) + 1]
      BY <1>7 DEF ToCString
    <2>. QED BY <1>2, <1>7, <2>1, <2>2, RoomSize DEF ToCString
  <1>8. ASSUME NEW a \in Addresses, NEW w \in Widths, NEW n \in CValues, NativeStores(a, w, n)
        PROVE  BlockType' /\ (fault # NoFault => ~(Representable(fault.offset) /\ Representable(fault.n)))'
    BY <1>1, <1>8 DEF NativeStores
  <1>9. ASSUME NEW b \in Blocks, Free(b) \/ FreeCString(b)
        PROVE  BlockType' /\ (fault # NoFault => ~(Representable(fault.offset) /\ Representable(fault.n)))'
    <2>1. 0 \in 0..Top
      BY NativesAssumption
    <2>. QED BY <1>2, <1>3, <1>9, <2>1 DEF Free, FreeCString
  <1>10. ASSUME NEW b \in Blocks, NEW n \in Sizes, Realloc(b, n)
         PROVE  BlockType' /\ (fault # NoFault => ~(Representable(fault.offset) /\ Representable(fault.n)))'
    <2>1. ToSize(n) \in Nat /\ block[b] \in 0..Top
      BY <1>0, <1>3, SizeOf, NativesAssumption DEF BlockType
    <2>2. UNCHANGED fault
      BY <1>10 DEF Realloc
    <2>3. CASE UNCHANGED block
      BY <1>1, <2>2, <2>3
    <2>4. CASE ToSize(n) <= block[b] /\ block' = [block EXCEPT ![b] = ToSize(n)]
      <3>1. ToSize(n) \in 0..Top
        BY <2>1, <2>4, NativesAssumption
      <3>. QED BY <1>2, <1>3, <2>2, <2>4, <3>1
    <2>5. ASSUME NEW a \in Addresses, Room(a, ToSize(n)),
                 block' = [block EXCEPT ![a] = ToSize(n), ![b] = 0]
          PROVE  BlockType' /\ (fault # NoFault => ~(Representable(fault.offset) /\ Representable(fault.n)))'
      BY <1>2, <1>3, <2>1, <2>2, <2>5, RoomSize
    <2>. QED BY <1>10, <2>3, <2>4, <2>5 DEF Realloc
  <1>11. ASSUME NEW b \in Blocks, NewString(b) \/ PrintHex(b)
         PROVE  BlockType' /\ (fault # NoFault => ~(Representable(fault.offset) /\ Representable(fault.n)))'
    BY <1>4, <1>11 DEF NewString, PrintHex
  <1>12. ASSUME NEW b \in Blocks,
                (\E c \in Values : Memset(b, c)) \/ (\E s \in Blocks : Memcpy(b, s))
         PROVE  BlockType' /\ (fault # NoFault => ~(Representable(fault.offset) /\ Representable(fault.n)))'
    BY <1>1, <1>12 DEF Memset, Memcpy
  <1>13. ASSUME NEW b \in Blocks, NEW offset \in Numbers, NEW n \in Numbers,
                MemRead(b, offset, n) \/ WrongWidth(b, offset, n)
         PROVE  BlockType' /\ (fault # NoFault => ~(Representable(fault.offset) /\ Representable(fault.n)))'
    BY <1>0, <1>13, AccessPreserves DEF MemRead, WrongWidth, Access
  <1>14. ASSUME NEW b \in Blocks, NEW offset \in Numbers, NEW val \in Values \cup Reals, NEW w \in Widths,
                MemWriteInt(b, offset, w, val) \/ MemWriteFloat(b, offset, w, val)
         PROVE  BlockType' /\ (fault # NoFault => ~(Representable(fault.offset) /\ Representable(fault.n)))'
    <2>1. w \in Int /\ 2 * w < WORD
      BY WordFacts DEF Widths
    <2>. QED BY <1>14, <2>1, AccessPreserves DEF MemWriteInt, MemWriteFloat, Access
  <1>15. ASSUME NEW b \in Blocks, NEW offset \in Numbers, NEW text \in Texts,
                MemWriteString(b, offset, text)
         PROVE  BlockType' /\ (fault # NoFault => ~(Representable(fault.offset) /\ Representable(fault.n)))'
    <2>1. Len(UpToNul(text)) \in Int /\ 2 * Len(UpToNul(text)) < WORD
      BY CStringLength
    <2>. QED BY <1>15, <2>1, AccessPreserves DEF MemWriteString, Access
  <1>16. {4, 8} \subseteq Widths
    BY DEF Widths
  <1>. QED BY <1>4, <1>5, <1>6, <1>7, <1>8, <1>9, <1>10, <1>11, <1>12, <1>13, <1>14, <1>15, <1>16
          DEF NativesNext

\* For every arena and word, and whatever numbers a script gives: an access that
\* leaves its block was made with an offset or a length that is negative or 2^63
\* and more, and the test is exact for all others (memreadint to memwritestring).
THEOREM AccessesBounded == NativesSpec => []BoundsChecked
  <1>1. NativesInit => BoundsInv
    <2>. SUFFICES ASSUME NativesInit PROVE BoundsInv
      OBVIOUS
    <2>1. BlockType
      BY NativesAssumption DEF NativesInit, BlockType
    <2>. QED BY <2>1, TestExact DEF NativesInit, BoundsInv, BoundsChecked
  <1>2. BoundsInv => BoundsChecked
    BY DEF BoundsInv
  <1>. QED BY <1>1, <1>2, BoundsStep, PTL DEF NativesSpec

-----------------------------------------------------------------------------
(* Values *)

\* An integer that is whole is read back.
LEMMA IntReadBack ==
    ASSUME NEW r, Formed(r), Whole(r), r.kind = "int", NEW issigned \in BOOLEAN
    PROVE  Close(IntAt(r.at, issigned, r.n), AsC(r.val, issigned \/ r.n = 8, r.n), MANTISSA)
<1>. DEFINE w == r.n  n == r.val  a == r.at  m == Power(BYTE, w)  u == n % m
<1>1. w \in Widths /\ n \in Int /\ w \in Nat
  BY DEF Formed, Widths
<1>2. m \in Nat \ {0} /\ m <= WORD /\ (n % WORD) % m = u
  BY <1>1, WidthFacts
<1>3. Unsigned(a, w) = u
  <2>1. n % WORD \in Int
    BY <1>1, WordFacts
  <2>2. \A i \in 0..(w - 1) : mem[a + i] = ((n % WORD) \div Power(BYTE, i)) % BYTE
    BY DEF Whole, Image, BytesOf, ToSize
  <2>. HIDE DEF w, n, a, m, u
  <2>3. Unsigned(a, w) = (n % WORD) % Power(BYTE, w)
    BY <1>1, <2>1, <2>2, BytesValue
  <2>. QED BY <1>2, <2>3 DEF m
<1>4. u \in 0..(m - 1)
  BY <1>1, <1>2
<1>5. AsC(n, FALSE, w) = u /\ AsC(n, TRUE, w) = Signed(u, m)
  BY <1>1, AsCValue
<1>6. MANTISSA \in Nat \ {0}
  BY NativesAssumption
<1>. HIDE DEF w, n, a, m, u
<1>7. CASE issigned \/ w = 8
  <2>1. Signed(u, m) \in Int /\ Abs(Signed(u, m)) <= WORD
    <3>1. Signed(u, m) \in Int /\ Abs(Signed(u, m)) <= m /\ Abs(Signed(u, m)) \in Int
      BY <1>2, <1>4, SignedRange DEF Abs
    <3>. QED BY <1>2, <3>1, WordFacts
  <2>2. IntAt(a, issigned, w) = Rounded(Signed(u, m), MANTISSA)
    BY <1>3, <1>7 DEF IntAt, m
  <2>3. Close(Rounded(Signed(u, m), MANTISSA), Signed(u, m), MANTISSA)
    BY <1>6, <2>1, RoundedClose
  <2>4. AsC(n, issigned \/ w = 8, w) = Signed(u, m)
    <3>1. (issigned \/ w = 8) = TRUE
      BY <1>7
    <3>. QED BY <1>5, <3>1
  <2>5. Close(IntAt(a, issigned, w), AsC(n, issigned \/ w = 8, w), MANTISSA)
    BY <2>2, <2>3, <2>4
  <2>. QED BY <2>5 DEF w, n, a
<1>8. CASE ~(issigned \/ w = 8)
  <2>1. IntAt(a, issigned, w) = u
    BY <1>3, <1>8 DEF IntAt
  <2>2. AsC(n, issigned \/ w = 8, w) = u
    <3>1. (issigned \/ w = 8) = FALSE
      BY <1>8
    <3>. QED BY <1>5, <3>1
  <2>3. Close(u, u, MANTISSA)
    <3>1. u \in Int /\ u - u = 0 /\ Abs(0) = 0 /\ 0 * MANTISSA = 0 /\ Abs(u) >= 0
      BY <1>2, <1>4, <1>6 DEF Abs
    <3>. QED BY <3>1 DEF Close
  <2>4. Close(IntAt(a, issigned, w), AsC(n, issigned \/ w = 8, w), MANTISSA)
    BY <2>1, <2>2, <2>3
  <2>. QED BY <2>4 DEF w, n, a
<1>. QED BY <1>7, <1>8

\* So is a floating point number,
LEMMA FloatReadBack ==
    ASSUME NEW r, Formed(r), Whole(r), r.kind = "float"
    PROVE  Close(FloatAt(r.at, r.n), r.val, IF r.n = 4 THEN FLOAT ELSE MANTISSA)
<1>. DEFINE w == r.n  n == r.val  a == r.at  m == Power(BYTE, w)
            x == IF w = 4 THEN Rounded(n, FLOAT) ELSE n
<1>1. w \in {4, 8} /\ w \in Widths /\ n \in Int /\ w \in Nat /\ n \in Reals
  BY NativesAssumption DEF Formed, Widths
<1>2. m \in Nat \ {0} /\ WORD \in Nat /\ FLOAT \in Nat \ {0} /\ MANTISSA \in Nat \ {0}
  BY <1>1, WidthFacts, WordFacts, NativesAssumption
<1>3. 4 * Abs(n) < m /\ Abs(n) <= WORD
  <2>1. 4 * Abs(n) < Power(BYTE, 4)
    BY <1>1, NativesAssumption
  <2>2. Power(BYTE, 4) <= WORD /\ Power(BYTE, 4) \in Nat /\ Abs(n) \in Nat
    <3>1. 4 \in Widths
      BY DEF Widths
    <3>. QED BY <1>1, <3>1, WidthFacts DEF Abs
  <2>3. w = 4 \/ m = WORD
    BY <1>1 DEF WORD
  <2>. QED BY <1>2, <2>1, <2>2, <2>3
<1>4. Unsigned(a, w) = x % m
  <2>1. x \in Int
    BY <1>1, <1>2, <1>3, RoundedClose
  <2>2. \A i \in 0..(w - 1) : mem[a + i] = (x \div Power(BYTE, i)) % BYTE
    BY DEF Whole, Image, FloatBytes, BytesOf
  <2>. HIDE DEF w, n, a, x
  <2>. QED BY <1>1, <2>1, <2>2, BytesValue
<1>5. x \in Int /\ Close(x, n, IF w = 4 THEN FLOAT ELSE MANTISSA) /\ Abs(x - n) <= Abs(n)
  <2>1. CASE w = 4
    <3>1. x \in Int /\ Close(x, n, FLOAT)
      BY <1>1, <1>2, <1>3, <2>1, RoundedClose
    <3>. HIDE DEF x, w, n, a
    <3>2. CASE Abs(n) <= FLOAT
      BY <1>1, <3>1, <3>2, <2>1 DEF Close, Abs
    <3>3. CASE ~(Abs(n) <= FLOAT)
      <4>. DEFINE d == Abs(x - n)
      <4>1. d \in Nat /\ Abs(n) \in Nat
        BY <1>1, <3>1 DEF Abs
      <4>2. d * FLOAT <= Abs(n)
        BY <3>1, <3>3 DEF Close
      <4>. HIDE DEF d
      <4>3. d * FLOAT >= d * 1 /\ d * FLOAT \in Int
        BY <1>2, <4>1
      <4>4. d <= Abs(n)
        BY <4>1, <4>2, <4>3
      <4>. QED BY <2>1, <3>1, <4>4 DEF d
    <3>. QED BY <3>2, <3>3
  <2>2. CASE w # 4
    <3>1. x = n
      BY <2>2
    <3>2. n - n = 0 /\ Abs(0) = 0 /\ 0 * MANTISSA = 0 /\ Abs(n) >= 0 /\ Abs(n) \in Int
      BY <1>1, <1>2 DEF Abs
    <3>. QED BY <1>1, <2>2, <3>1, <3>2 DEF Close
  <2>. QED BY <2>1, <2>2
<1>. HIDE DEF x, w, n, a, m
<1>6. -m <= 2 * x /\ 2 * x < m
  BY <1>1, <1>2, <1>3, <1>5 DEF Abs
<1>7. FloatAt(a, w) = x
  <2>1. Signed(x % m, m) = x
    BY <1>2, <1>5, <1>6, SignedValue
  <2>. QED BY <1>4, <2>1 DEF FloatAt, m
<1>. QED BY <1>5, <1>7 DEF w, n, a

\* and a string up to its first NUL.
LEMMA TextReadBack ==
    ASSUME NEW r, Formed(r), Whole(r), r.kind \in {"text", "cstring"}
    PROVE  /\ UpToNul(TextAt(r.at, r.n)) = SubSeq(r.val, 1, Len(UpToNul(TextAt(r.at, r.n))))
           /\ NUL \in Range(r.val) \/ UpToNul(TextAt(r.at, r.n)) = r.val
<1>. DEFINE t == r.val  v == TextAt(r.at, r.n)  S == 0..(BYTE - 1)
<1>1. t \in Seq(S) /\ Len(t) \in Nat /\ DOMAIN t = 1..Len(t)
  BY NativesAssumption DEF Formed
<1>2. PICK k \in 0..Len(t) :
              /\ \A i \in 1..k : t[i] # NUL
              /\ k < Len(t) => t[k + 1] = NUL
              /\ UpToNul(t) = SubSeq(t, 1, k)
              /\ Len(UpToNul(t)) = k
              /\ \A i \in 1..k : UpToNul(t)[i] = t[i]
  <2>. HIDE DEF S, t
  <2>. QED BY <1>1, NulFacts
<1>3. UpToNul(v) = SubSeq(t, 1, k)
  <2>1. CASE r.kind = "text"
    <3>1. r.n = k
      BY <1>2, <2>1 DEF Formed
    <3>2. \A i \in 0..(k - 1) : mem[r.at + i] = UpToNul(t)[i + 1]
      BY <1>2, <2>1, <3>1 DEF Whole, Image
    <3>3. ASSUME NEW i \in 1..k
          PROVE  mem[r.at + i - 1] = t[i]
      <4>1. i - 1 \in 0..(k - 1) /\ (i - 1) + 1 = i /\ r.at + (i - 1) = r.at + i - 1
        BY DEF Formed
      <4>. QED BY <1>2, <3>2, <4>1
    <3>4. v = [i \in 1..k |-> t[i]]
      BY <3>1, <3>3 DEF TextAt
    <3>. HIDE DEF v, t
    <3>5. v \in Seq(S) /\ Len(v) = k /\ \A i \in 1..k : v[i] = t[i]
      <4>1. k \in Nat /\ \A i \in 1..k : i \in 1..Len(t)
        BY <1>1
      <4>2. \A i \in 1..k : t[i] \in S
        <5>. HIDE DEF S
        <5>. QED BY <1>1, <4>1
      <4>. HIDE DEF S
      <4>. QED BY <3>4, <4>1, <4>2
    <3>6. UpToNul(v) = SubSeq(v, 1, k)
      <4>1. \A i \in 1..k : v[i] # NUL
        BY <1>2, <3>5
      <4>. HIDE DEF S
      <4>. QED BY <1>2, <3>5, <4>1, UntilNul
    <3>7. SubSeq(v, 1, k) = SubSeq(t, 1, k)
      BY <1>1, <1>2, <3>5
    <3>. QED BY <3>6, <3>7
  <2>2. CASE r.kind = "cstring"
    <3>1. r.n = Len(t) + 1
      BY <2>2 DEF Formed
    <3>2. \A i \in 0..Len(t) : mem[r.at + i] = IF i < Len(t) THEN t[i + 1] ELSE NUL
      <4>1. Image(r) = [i \in 0..Len(t) |-> IF i < Len(t) THEN t[i + 1] ELSE NUL]
        BY <2>2 DEF Image
      <4>2. \A i \in 0..Len(t) : i \in 0..(r.n - 1)
        BY <1>1, <3>1
      <4>. HIDE DEF t
      <4>. QED BY <4>1, <4>2 DEF Whole
    <3>3. ASSUME NEW i \in 1..(Len(t) + 1)
          PROVE  mem[r.at + i - 1] = IF i <= Len(t) THEN t[i] ELSE NUL
      <4>1. i - 1 \in 0..Len(t) /\ (i - 1) + 1 = i /\ r.at + (i - 1) = r.at + i - 1
            /\ (i - 1 < Len(t) <=> i <= Len(t))
        BY <1>1 DEF Formed
      <4>. QED BY <3>2, <4>1
    <3>4. v = [i \in 1..(Len(t) + 1) |-> IF i <= Len(t) THEN t[i] ELSE NUL]
      BY <3>1, <3>3 DEF TextAt
    <3>5. NUL \in S
      BY WordFacts DEF NUL
    <3>. HIDE DEF v, t
    <3>6. /\ v \in Seq(S) /\ Len(v) = Len(t) + 1
          /\ \A i \in 1..Len(t) : v[i] = t[i]
          /\ v[Len(t) + 1] = NUL
      <4>1. \A i \in 1..Len(t) : t[i] \in S
        <5>. HIDE DEF S
        <5>. QED BY <1>1
      <4>. HIDE DEF S
      <4>. QED BY <1>1, <3>4, <3>5, <4>1
    <3>7. UpToNul(v) = SubSeq(v, 1, k)
      <4>1. \A i \in 1..k : v[i] # NUL
        BY <1>1, <1>2, <3>6
      <4>2. k < Len(v) => v[k + 1] = NUL
        BY <1>1, <1>2, <3>6
      <4>3. k \in 0..Len(v)
        BY <1>1, <1>2, <3>6
      <4>. HIDE DEF S
      <4>. QED BY <3>6, <4>1, <4>2, <4>3, UntilNul
    <3>8. SubSeq(v, 1, k) = SubSeq(t, 1, k)
      BY <1>1, <1>2, <3>6
    <3>. QED BY <3>7, <3>8
  <2>. QED BY <2>1, <2>2
<1>4. Len(SubSeq(t, 1, k)) = k
  BY <1>1, <1>2
<1>5. CASE k < Len(t)
  <2>1. NUL \in Range(t)
    BY <1>1, <1>2, <1>5 DEF Range
  <2>. QED BY <1>3, <1>4, <2>1
<1>6. CASE k = Len(t)
  <2>1. SubSeq(t, 1, k) = t
    BY <1>1, <1>6
  <2>. QED BY <1>3, <1>4, <2>1
<1>. QED BY <1>1, <1>2, <1>5, <1>6

-----------------------------------------------------------------------------
(* Memory *)

\* A place is a natural number, and an extent of a number of bytes.
LEMMA FormedSize ==
    ASSUME NEW r, Formed(r)
    PROVE  r.at \in Nat /\ r.n \in Nat
  <1>1. \A w \in Widths \cup {4, 8} : w \in Nat
    BY DEF Widths
  <1>2. \A t \in Texts : Len(UpToNul(t)) \in Nat /\ Len(t) + 1 \in Nat
    BY CStringLength, NativesAssumption
  <1>. QED BY <1>1, <1>2 DEF Formed

\* A remembered value whose bytes are left alone, in a block that still holds
\* them, is kept.
LEMMA Carried ==
    ASSUME NEW r, Kept(r), BlockType',
           \A x \in Extent(r.at, r.n) : mem'[x] = mem[x],
           \A c \in Blocks : r.n > 0 /\ Within(c, r.at, r.n) => Extent(r.at, r.n) \subseteq Extent(c, block'[c])
    PROVE  Kept(r)'
<1>1. r.at \in Nat /\ r.n \in Nat
  BY FormedSize DEF Kept
<1>2. Formed(r)'
  BY DEF Kept, Formed
<1>3. Whole(r)'
  <2>1. ASSUME NEW i \in 0..(r.n - 1)
        PROVE  mem'[r.at + i] = Image(r)[i]
    <3>1. r.at + i \in Extent(r.at, r.n)
      BY <1>1 DEF Extent
    <3>. QED BY <3>1 DEF Kept, Whole
  <2>. QED BY <2>1 DEF Whole, Image, BytesOf, FloatBytes, ToSize
<1>4. Housed(r)'
  <2>1. SUFFICES ASSUME r.n > 0 PROVE \E b \in Blocks' : Within(b, r.at, r.n)'
    BY DEF Housed
  <2>2. PICK c \in Blocks : Within(c, r.at, r.n)
    BY <2>1 DEF Kept, Housed
  <2>3. Extent(r.at, r.n) \subseteq Extent(c, block'[c])
    BY <2>1, <2>2
  <2>4. c \in Addresses /\ c \in Nat /\ block'[c] \in Nat
    BY WordFacts DEF Blocks, BlockType, Addresses
  <2>5. block'[c] > 0
    <3>1. r.at \in Extent(c, block'[c])
      BY <1>1, <2>1, <2>3 DEF Extent
    <3>. QED BY <2>4, <3>1 DEF Extent
  <2>. QED BY <2>3, <2>4, <2>5 DEF Blocks, Within
<1>. QED BY <1>2, <1>3, <1>4 DEF Kept

\* The bytes of a remembered value are in the arena.
LEMMA KeptPlace ==
    ASSUME BlocksFit, NEW r, Kept(r)
    PROVE  Extent(r.at, r.n) \subseteq Addresses
<1>1. r.at \in Nat /\ r.n \in Nat
  BY FormedSize DEF Kept
<1>2. CASE r.n = 0
  BY <1>1, <1>2 DEF Extent
<1>3. CASE r.n > 0
  BY <1>3 DEF Kept, Housed, Within, BlocksFit
<1>. QED BY <1>1, <1>2, <1>3

\* Writing leaves the bytes beside it alone.
LEMMA WrittenBeside ==
    ASSUME BlocksFit, NEW r, Kept(r), NEW a \in Int, NEW bs, NEW n \in Nat,
           DOMAIN bs = 0..(n - 1), mem' = Written(a, bs), Extent(r.at, r.n) \cap Extent(a, n) = {}
    PROVE  \A x \in Extent(r.at, r.n) : mem'[x] = mem[x]
<1>1. SUFFICES ASSUME NEW x \in Extent(r.at, r.n) PROVE mem'[x] = mem[x]
  OBVIOUS
<1>2. x \in Addresses /\ x \in Int
  BY KeptPlace DEF Addresses
<1>3. x \notin Extent(a, n)
  OBVIOUS
<1>4. x - a \notin 0..(n - 1)
  BY <1>2, <1>3 DEF Extent
<1>. QED BY <1>2, <1>4 DEF Written

\* The blocks after a call fit in the arena.
LEMMA FitAfter ==
    ASSUME BlocksFit, BlockType, BlockType',
           \A b \in Addresses : block'[b] > block[b] => Extent(b, block'[b]) \subseteq Addresses
    PROVE  BlocksFit'
<1>1. SUFFICES ASSUME NEW b \in Addresses, block'[b] > 0
               PROVE  Extent(b, block'[b]) \subseteq Addresses
  BY DEF BlocksFit, Blocks, Extent, Addresses
<1>2. block[b] \in Nat /\ block'[b] \in Nat /\ b \in Nat
  BY WordFacts DEF BlockType, Addresses
<1>3. CASE block'[b] <= block[b]
  <2>1. Extent(b, block[b]) \subseteq Addresses
    BY <1>1, <1>2, <1>3 DEF BlocksFit, Blocks
  <2>2. Extent(b, block'[b]) \subseteq Extent(b, block[b])
    BY <1>2, <1>3 DEF Extent
  <2>. QED BY <2>1, <2>2
<1>. QED BY <1>2, <1>3

\* No block starts where there is room for one.
LEMMA RoomFresh ==
    ASSUME BlockType, NEW a \in Addresses, NEW n \in Nat \ {0}, Room(a, n)
    PROVE  a \notin Blocks /\ block[a] = 0
<1>1. a \in Nat /\ block[a] \in Nat
  BY WordFacts DEF Addresses, BlockType
<1>2. ASSUME a \in Blocks PROVE FALSE
  <2>1. a \in Extent(a, n) /\ a \in Extent(a, block[a])
    BY <1>1, <1>2 DEF Extent, Blocks
  <2>. QED BY <1>2, <2>1 DEF Room
<1>. QED BY <1>1, <1>2 DEF Blocks

\* What Store adds is what it is given, and the rest it keeps is beside it.
LEMMA StoreKeeps ==
    ASSUME BlocksFit, BlockType', \A r \in stored : Kept(r),
           NEW a \in Nat, NEW bs, NEW n \in Nat, DOMAIN bs = 0..(n - 1), NEW kind, NEW val,
           Store(a, bs, kind, val),
           Formed([at |-> a, n |-> n, kind |-> kind, val |-> val]),
           Image([at |-> a, n |-> n, kind |-> kind, val |-> val]) = bs,
           \A c \in Blocks : block'[c] = block[c],
           n > 0 => \E b \in Blocks' : Extent(a, n) \subseteq Extent(b, block'[b]) \cap Addresses
    PROVE  \A r \in stored' : Kept(r)'
<1>. DEFINE new == [at |-> a, n |-> n, kind |-> kind, val |-> val]
<1>1. Cardinality(DOMAIN bs) = n
  <2>1. Cardinality(0..(n - 1)) = n
    BY FS_Interval
  <2>. QED BY <2>1
<1>2. mem' = Written(a, bs) /\ \A r \in stored' : r \in Spared(a, n) \/ r = new
  BY <1>1 DEF Store, kSubset
<1>3. ASSUME NEW r \in Spared(a, n)
      PROVE  Kept(r)'
  <2>1. Kept(r) /\ Extent(r.at, r.n) \cap Extent(a, n) = {}
    BY <1>3 DEF Spared
  <2>2. \A x \in Extent(r.at, r.n) : mem'[x] = mem[x]
    BY <1>2, <2>1, WrittenBeside
  <2>. QED BY <2>1, <2>2, Carried DEF Within
<1>4. Kept(new)'
  <2>. HIDE DEF new
  <2>0. new.at = a /\ new.n = n /\ Formed(new) /\ Image(new) = bs
    BY DEF new
  <2>1. Formed(new)'
    BY <2>0 DEF Formed
  <2>2. Whole(new)'
    <3>1. ASSUME NEW i \in 0..(n - 1)
          PROVE  mem'[a + i] = bs[i]
      <4>1. a + i \in Extent(a, n)
        BY DEF Extent
      <4>2. a + i \in Addresses
        BY <4>1
      <4>3. (a + i) - a = i
        OBVIOUS
      <4>. QED BY <1>2, <4>2, <4>3 DEF Written
    <3>2. Image(new)' = Image(new)
      BY DEF Image, BytesOf, FloatBytes, ToSize
    <3>. QED BY <2>0, <3>1, <3>2 DEF Whole
  <2>3. Housed(new)'
    BY <2>0 DEF Housed, Within
  <2>. QED BY <2>1, <2>2, <2>3 DEF Kept
<1>. QED BY <1>2, <1>3, <1>4

\* Blocks and their sizes are natural numbers.
LEMMA BlockFacts ==
    ASSUME BlockType, NEW b \in Blocks
    PROVE  b \in Addresses /\ b \in Nat /\ block[b] \in Nat \ {0} /\ DOMAIN block = Addresses
  BY WordFacts DEF BlockType, Blocks, Addresses

\* A step that touches no memory keeps all.
LEMMA StoredStays ==
    ASSUME StoredInv, BlockType', UNCHANGED <<mem, block, stored>>
    PROVE  StoredInv'
  <1>1. BlocksFit'
    BY DEF StoredInv, BlocksFit, Blocks, Extent, Addresses
  <1>2. ASSUME NEW r \in stored PROVE Kept(r)'
    BY <1>2, Carried DEF StoredInv, Within
  <1>. QED BY <1>1, <1>2 DEF StoredInv

\* A value no byte of which is in a block stays when the block is freed or written.
LEMMA ElsewhereHoused ==
    ASSUME BlockType, NEW r, Kept(r), NEW b \in Blocks, NEW c \in Blocks,
           Extent(r.at, r.n) \cap Extent(b, block[b]) = {}, r.n > 0, Within(c, r.at, r.n)
    PROVE  c # b
  <1>1. r.at \in Extent(r.at, r.n)
    BY FormedSize DEF Kept, Extent
  <1>. QED BY <1>1 DEF Within

\* malloc places its block where none is.
LEMMA MallocKeeps ==
    ASSUME BlockType, BlockType', StoredInv, NEW n \in Sizes, Malloc(n)
    PROVE  StoredInv'
  <1>1. CASE UNCHANGED block
    BY <1>1, StoredStays DEF Malloc
  <1>2. ASSUME NEW a \in Addresses, ToSize(n) > 0, Room(a, ToSize(n)), block' = [block EXCEPT ![a] = ToSize(n)]
        PROVE  StoredInv'
    <2>. DEFINE size == ToSize(n)
    <2>1. size \in Nat \ {0}
      <3>1. n \in Int
        BY NativesAssumption
      <3>. QED BY <1>2, <3>1, SizeOf, WordFacts
    <2>. HIDE DEF size
    <2>2. block' = [block EXCEPT ![a] = size] /\ Room(a, size)
      BY <1>2 DEF size
    <2>3. a \notin Blocks
      BY <2>1, <2>2, RoomFresh
    <2>4. BlocksFit'
      BY <2>1, <2>2, FitAfter DEF StoredInv, BlockType, Room
    <2>5. \A c \in Blocks : block'[c] = block[c]
      BY <2>2, <2>3, BlockFacts
    <2>6. UNCHANGED <<mem, stored>>
      BY DEF Malloc
    <2>7. ASSUME NEW r \in stored PROVE Kept(r)'
      BY <2>5, <2>6, <2>7, Carried DEF StoredInv, Within
    <2>. QED BY <2>4, <2>6, <2>7 DEF StoredInv
  <1>. QED BY <1>1, <1>2 DEF Malloc

\* free and freecstring forget what was in the block.
LEMMA FreeKeeps ==
    ASSUME BlockType, BlockType', StoredInv, NEW b \in Blocks, Free(b) \/ FreeCString(b)
    PROVE  StoredInv'
  <1>1. block' = [block EXCEPT ![b] = 0] /\ stored' = Spared(b, block[b]) /\ UNCHANGED mem
    BY DEF Free, FreeCString
  <1>2. BlocksFit'
    <2>1. \A c \in Addresses : ~(block'[c] > block[c])
      BY <1>1, BlockFacts DEF BlockType
    <2>. QED BY <2>1, FitAfter DEF StoredInv
  <1>3. ASSUME NEW r \in Spared(b, block[b]) PROVE Kept(r)'
    <2>1. Kept(r) /\ Extent(r.at, r.n) \cap Extent(b, block[b]) = {}
      BY <1>3 DEF Spared, StoredInv
    <2>2. ASSUME NEW c \in Blocks, r.n > 0, Within(c, r.at, r.n)
          PROVE  Extent(r.at, r.n) \subseteq Extent(c, block'[c])
      <3>1. c # b
        BY <2>1, <2>2, ElsewhereHoused
      <3>2. block'[c] = block[c]
        BY <1>1, <3>1, BlockFacts
      <3>. QED BY <2>2, <3>2 DEF Within
    <2>. QED BY <1>1, <2>1, <2>2, Carried
  <1>. QED BY <1>1, <1>2, <1>3 DEF StoredInv

\* A block that shrinks keeps the values that end before.
LEMMA ShrinkKeeps ==
    ASSUME BlockType, BlockType', StoredInv, NEW b \in Blocks, NEW size \in Nat \ {0},
           size <= block[b], block' = [block EXCEPT ![b] = size],
           stored' = Spared(b + size, block[b] - size), UNCHANGED mem
    PROVE  StoredInv'
  <1>0. b \in Addresses /\ b \in Nat /\ block[b] \in Nat \ {0} /\ DOMAIN block = Addresses
    BY BlockFacts
  <1>1. BlocksFit'
    <2>1. \A c \in Addresses : ~(block'[c] > block[c])
      BY <1>0 DEF BlockType
    <2>. QED BY <2>1, FitAfter DEF StoredInv
  <1>2. ASSUME NEW r \in Spared(b + size, block[b] - size) PROVE Kept(r)'
    <2>1. Kept(r) /\ Extent(r.at, r.n) \cap Extent(b + size, block[b] - size) = {}
      BY <1>2 DEF Spared, StoredInv
    <2>2. ASSUME NEW c \in Blocks, r.n > 0, Within(c, r.at, r.n)
          PROVE  Extent(r.at, r.n) \subseteq Extent(c, block'[c])
      <3>1. CASE c # b
        <4>1. block'[c] = block[c]
          BY <3>1, BlockFacts
        <4>. QED BY <2>2, <4>1 DEF Within
      <3>2. CASE c = b
        <4>1. block'[c] = size
          BY <1>0, <3>2
        <4>2. SUFFICES ASSUME NEW x \in Extent(r.at, r.n) PROVE x \in Extent(b, size)
          BY <3>2, <4>1
        <4>3. x \in Extent(b, block[b]) /\ x \notin Extent(b + size, block[b] - size)
          BY <2>1, <2>2, <3>2 DEF Within
        <4>. QED BY <1>0, <4>3 DEF Extent
      <3>. QED BY <3>1, <3>2
    <2>. QED BY <2>1, <2>2, Carried
  <1>. QED BY <1>1, <1>2 DEF StoredInv

\* A block that moves takes the values in it along.
LEMMA MoveKeeps ==
    ASSUME BlockType, BlockType', StoredInv, NEW b \in Blocks, NEW size \in Nat \ {0},
           NEW a \in Addresses, Room(a, size), NEW kept \in Nat, kept <= size, kept <= block[b],
           block' = [block EXCEPT ![a] = size, ![b] = 0],
           mem' = Written(a, [i \in 0..(kept - 1) |-> mem[b + i]]),
           stored' = Spared(b, block[b]) \cup Moved(b, a, kept)
    PROVE  StoredInv'
  <1>. DEFINE bs == [i \in 0..(kept - 1) |-> mem[b + i]]
  <1>0. /\ b \in Addresses /\ b \in Nat /\ block[b] \in Nat \ {0} /\ DOMAIN block = Addresses
        /\ a \in Nat /\ a \in Int
    BY BlockFacts DEF Addresses
  <1>1. a \notin Blocks /\ block[a] = 0
    BY RoomFresh
  <1>2. /\ block'[a] = size /\ block'[b] = 0
        /\ \A c \in Addresses : c # a /\ c # b => block'[c] = block[c]
    BY <1>0, <1>1
  <1>3. BlocksFit'
    <2>1. \A c \in Addresses : block'[c] > block[c] => c = a
      BY <1>0, <1>2 DEF BlockType
    <2>2. Extent(a, block'[a]) \subseteq Addresses
      BY <1>2 DEF Room
    <2>. QED BY <2>1, <2>2, FitAfter DEF StoredInv
  <1>4. Extent(a, kept) \subseteq Extent(a, size)
    BY <1>0 DEF Extent
  <1>5. ASSUME NEW r \in Spared(b, block[b]) PROVE Kept(r)'
    <2>1. r.at \in Nat /\ r.n \in Nat /\ Kept(r) /\ Extent(r.at, r.n) \cap Extent(b, block[b]) = {}
      BY <1>5, FormedSize DEF Spared, StoredInv, Kept
    <2>2. ASSUME NEW c \in Blocks, r.n > 0, Within(c, r.at, r.n)
          PROVE  Extent(r.at, r.n) \subseteq Extent(c, block'[c])
      <3>1. c # b /\ c # a
        BY <1>1, <2>1, <2>2, ElsewhereHoused
      <3>2. block'[c] = block[c]
        BY <1>2, <3>1, BlockFacts
      <3>. QED BY <2>2, <3>2 DEF Within
    <2>3. Extent(r.at, r.n) \cap Extent(a, kept) = {}
      <3>1. CASE r.n = 0
        BY <2>1, <3>1 DEF Extent
      <3>2. CASE r.n > 0
        <4>1. PICK c \in Blocks : Extent(r.at, r.n) \subseteq Extent(c, block[c])
          BY <2>1, <3>2 DEF Kept, Housed, Within
        <4>2. Extent(a, size) \cap Extent(c, block[c]) = {}
          BY DEF Room
        <4>. QED BY <1>4, <4>1, <4>2
      <3>. QED BY <2>1, <3>1, <3>2
    <2>4. DOMAIN bs = 0..(kept - 1) /\ mem' = Written(a, bs)
      OBVIOUS
    <2>. HIDE DEF bs
    <2>5. \A x \in Extent(r.at, r.n) : mem'[x] = mem[x]
      BY <1>0, <2>1, <2>3, <2>4, WrittenBeside DEF StoredInv
    <2>. QED BY <2>1, <2>2, <2>5, Carried
  <1>6. ASSUME NEW s \in stored, s.n > 0, Extent(s.at, s.n) \subseteq Extent(b, kept),
               NEW r, r = [s EXCEPT !.at = a + (s.at - b)]
        PROVE  Kept(r)'
    <2>1. s.at \in Nat /\ s.n \in Nat /\ Formed(s) /\ Whole(s)
      BY <1>6, FormedSize DEF StoredInv, Kept
    <2>2. s.at >= b /\ s.at + s.n <= b + kept
      <3>1. s.at \in Extent(s.at, s.n) /\ s.at + s.n - 1 \in Extent(s.at, s.n)
        BY <1>6, <2>1 DEF Extent
      <3>2. s.at \in Extent(b, kept) /\ s.at + s.n - 1 \in Extent(b, kept)
        BY <1>6, <3>1
      <3>. QED BY <1>0, <2>1, <3>2 DEF Extent
    <2>3. Formed(r)'
      BY <1>0, <1>6, <2>1, <2>2 DEF Formed
    <2>4. Whole(r)'
      <3>1. Image(r)' = Image(s)
        BY <1>6 DEF Image, BytesOf, FloatBytes, ToSize
      <3>2. ASSUME NEW i \in 0..(s.n - 1)
            PROVE  mem'[(a + (s.at - b)) + i] = Image(s)[i]
        <4>. DEFINE j == (s.at - b) + i  x == a + j
        <4>1. /\ j \in 0..(kept - 1) /\ x \in Int /\ x - a = j /\ b + j = s.at + i
              /\ x = (a + (s.at - b)) + i /\ x \in Extent(a, size)
          <5>. DEFINE p == s.at  l == s.n
          <5>1. p \in Nat /\ l \in Nat /\ p >= b /\ p + l <= b + kept /\ i \in 0..(l - 1)
            BY <2>1, <2>2
          <5>. HIDE DEF p, l
          <5>2. /\ (p - b) + i \in 0..(kept - 1)
                /\ (a + ((p - b) + i)) - a = (p - b) + i /\ b + ((p - b) + i) = p + i
                /\ a + ((p - b) + i) = (a + (p - b)) + i
                /\ a + ((p - b) + i) \in Int
                /\ a + ((p - b) + i) \in a..(a + size - 1)
            BY <1>0, <5>1
          <5>. QED BY <5>2 DEF p, Extent
        <4>2. x \in Addresses
          BY <4>1 DEF Room
        <4>. HIDE DEF j, x
        <4>3. mem'[x] = mem[b + j]
          BY <4>1, <4>2 DEF Written
        <4>4. mem[s.at + i] = Image(s)[i]
          BY <2>1 DEF Whole
        <4>. QED BY <4>1, <4>3, <4>4
      <3>3. r.n = s.n /\ r.at = a + (s.at - b)
        BY <1>6
      <3>. QED BY <3>1, <3>2, <3>3 DEF Whole
    <2>5. Housed(r)'
      <3>1. r.n = s.n /\ r.at = a + (s.at - b)
        BY <1>6
      <3>2. Extent(r.at, r.n) \subseteq Extent(a, size)
        <4>. DEFINE p == s.at  l == s.n
        <4>1. p \in Nat /\ l \in Nat /\ p >= b /\ p + l <= b + kept
          BY <2>1, <2>2
        <4>. HIDE DEF p, l
        <4>2. Extent(a + (p - b), l) \subseteq Extent(a, size)
          BY <1>0, <4>1 DEF Extent
        <4>. QED BY <3>1, <4>2 DEF p, l
      <3>3. a \in Blocks'
        BY <1>2 DEF Blocks
      <3>. QED BY <1>2, <3>2, <3>3 DEF Housed, Within
    <2>. QED BY <2>3, <2>4, <2>5 DEF Kept
  <1>7. \A r \in stored' : Kept(r)'
    <2>1. SUFFICES ASSUME NEW r \in stored' PROVE Kept(r)'
      OBVIOUS
    <2>2. CASE r \in Spared(b, block[b])
      BY <1>5, <2>2
    <2>3. CASE r \in Moved(b, a, kept)
      <3>1. PICK s \in stored : /\ s.n > 0 /\ Extent(s.at, s.n) \subseteq Extent(b, kept)
                                /\ r = [s EXCEPT !.at = a + (s.at - b)]
        BY <2>3 DEF Moved
      <3>. QED BY <1>6, <3>1
    <2>. QED BY <2>1, <2>2, <2>3
  <1>. QED BY <1>3, <1>7 DEF StoredInv

\* realloc does nothing, or shrinks the block, or moves it.
LEMMA ReallocKeeps ==
    ASSUME BlockType, BlockType', StoredInv, NEW b \in Blocks, NEW n \in Sizes, Realloc(b, n)
    PROVE  StoredInv'
  <1>. DEFINE size == ToSize(n)  kept == Min({size, block[b]})
  <1>1. size \in Nat \ {0} /\ block[b] \in Nat \ {0}
    <2>1. n \in Int
      BY NativesAssumption
    <2>. QED BY <2>1, SizeOf, WordFacts, BlockFacts DEF Realloc
  <1>2. CASE UNCHANGED <<mem, block, stored>>
    BY <1>2, StoredStays
  <1>3. CASE /\ size <= block[b] /\ block' = [block EXCEPT ![b] = size]
             /\ stored' = Spared(b + size, block[b] - size) /\ UNCHANGED mem
    <2>. HIDE DEF size
    <2>. QED BY <1>1, <1>3, ShrinkKeeps
  <1>4. ASSUME NEW a \in Addresses, Room(a, size), block' = [block EXCEPT ![a] = size, ![b] = 0],
               mem' = Written(a, [i \in 0..(kept - 1) |-> mem[b + i]]),
               stored' = Spared(b, block[b]) \cup Moved(b, a, kept)
        PROVE  StoredInv'
    <2>1. kept \in Nat /\ kept <= size /\ kept <= block[b]
      <3>. HIDE DEF size
      <3>1. \A x \in {size, block[b]} : (\A y \in {size, block[b]} : x <= y) => x \in Nat /\ x <= size /\ x <= block[b]
        BY <1>1
      <3>2. \E x \in {size, block[b]} : \A y \in {size, block[b]} : x <= y
        BY <1>1
      <3>. QED BY <3>1, <3>2 DEF Min
    <2>. HIDE DEF size, kept
    <2>. QED BY <1>1, <1>4, <2>1, MoveKeeps
  <1>. QED BY <1>2, <1>3, <1>4 DEF Realloc

\* Bytes written over a block's beginning.
LEMMA OverwriteKeeps ==
    ASSUME BlockType, BlockType', StoredInv, NEW b \in Blocks, NEW n \in Nat,
           NEW bs, DOMAIN bs = 0..(n - 1), mem' = Written(b, bs),
           stored' = Spared(b, n), UNCHANGED block
    PROVE  StoredInv'
  <1>1. BlocksFit'
    BY DEF StoredInv, BlocksFit, Blocks, Extent, Addresses
  <1>2. ASSUME NEW r \in Spared(b, n) PROVE Kept(r)'
    <2>1. Kept(r) /\ Extent(r.at, r.n) \cap Extent(b, n) = {} /\ b \in Int
      BY <1>2, BlockFacts DEF Spared, StoredInv
    <2>2. \A x \in Extent(r.at, r.n) : mem'[x] = mem[x]
      BY <2>1, WrittenBeside DEF StoredInv
    <2>. QED BY <2>1, <2>2, Carried DEF Within
  <1>. QED BY <1>1, <1>2 DEF StoredInv

\* memset overwrites the block,
LEMMA MemsetKeeps ==
    ASSUME BlockType, BlockType', StoredInv, NEW b \in Blocks, NEW c, Memset(b, c)
    PROVE  StoredInv'
  <1>. DEFINE bs == [i \in 0..(block[b] - 1) |-> c % BYTE]
  <1>1. /\ mem' = Written(b, bs) /\ DOMAIN bs = 0..(block[b] - 1) /\ stored' = Spared(b, block[b])
        /\ UNCHANGED block /\ block[b] \in Nat
    BY BlockFacts DEF Memset
  <1>. HIDE DEF bs
  <1>. QED BY <1>1, OverwriteKeeps

\* memcpy what fits of it.
LEMMA MemcpyKeeps ==
    ASSUME BlockType, BlockType', StoredInv, NEW d \in Blocks, NEW s \in Blocks, Memcpy(d, s)
    PROVE  StoredInv'
  <1>. DEFINE n == Min({block[d], block[s]})  bs == [i \in 0..(n - 1) |-> mem[s + i]]
  <1>1. n \in Nat
    <2>1. block[d] \in Nat /\ block[s] \in Nat
      BY BlockFacts
    <2>2. \E x \in {block[d], block[s]} : \A y \in {block[d], block[s]} : x <= y
      BY <2>1
    <2>. QED BY <2>1, <2>2 DEF Min
  <1>2. mem' = Written(d, bs) /\ DOMAIN bs = 0..(n - 1) /\ stored' = Spared(d, n) /\ UNCHANGED block
    BY DEF Memcpy
  <1>. HIDE DEF bs, n
  <1>. QED BY <1>1, <1>2, OverwriteKeeps

\* A value written into a block.
LEMMA WriteKeeps ==
    ASSUME BlockType, BlockType', StoredInv, NEW b \in Blocks, NEW a \in Nat, NEW n \in Nat,
           Within(b, a, n), UNCHANGED block,
           NEW bs, DOMAIN bs = 0..(n - 1), NEW kind, NEW val, Store(a, bs, kind, val),
           Formed([at |-> a, n |-> n, kind |-> kind, val |-> val]),
           Image([at |-> a, n |-> n, kind |-> kind, val |-> val]) = bs
    PROVE  StoredInv'
  <1>1. BlocksFit'
    BY DEF StoredInv, BlocksFit, Blocks, Extent, Addresses
  <1>2. b \in Blocks' /\ Extent(a, n) \subseteq Extent(b, block'[b]) \cap Addresses
    BY DEF Blocks, Within, StoredInv, BlocksFit
  <1>3. \A r \in stored' : Kept(r)'
    BY <1>2, StoreKeeps DEF StoredInv
  <1>. QED BY <1>1, <1>3 DEF StoredInv

\* The address of an access, and a width as a size, are natural numbers.
LEMMA PlaceFacts ==
    ASSUME NEW b \in Addresses, NEW offset \in Numbers
    PROVE  At(b, offset) \in Nat /\ \A w \in Widths : ToSize(w) = w
  <1>1. b + offset \in Int
    BY NativesAssumption, WordFacts DEF Addresses
  <1>2. \A w \in Widths : w \in Int /\ w >= 0 /\ w < WORD
    BY WordFacts DEF Widths
  <1>. QED BY <1>1, <1>2, SizeOf, WordFacts DEF At

\* memwriteint writes where its test has looked,
LEMMA IntKeeps ==
    ASSUME BlockType, BlockType', StoredInv, NEW b \in Blocks, NEW offset \in Numbers,
           NEW w \in Widths, NEW val \in Values, MemWriteInt(b, offset, w, val)
    PROVE  StoredInv'
  <1>. DEFINE a == At(b, offset)  bs == BytesOf(ToSize(val), w)
              r == [at |-> a, n |-> w, kind |-> "int", val |-> val]
  <1>1. CASE UNCHANGED <<mem, block, stored>>
    BY <1>1, StoredStays
  <1>2. CASE Within(b, a, ToSize(w)) /\ Store(a, bs, "int", val) /\ UNCHANGED block
    <2>1. a \in Nat /\ ToSize(w) = w /\ w \in Nat /\ val \in Int
      BY PlaceFacts, BlockFacts, NativesAssumption DEF Widths
    <2>2. DOMAIN bs = 0..(w - 1)
      BY DEF BytesOf
    <2>3. Formed(r) /\ Image(r) = bs
      BY <2>1 DEF Formed, Image
    <2>. HIDE DEF a, bs
    <2>. QED BY <1>2, <2>1, <2>2, <2>3, WriteKeeps
  <1>. QED BY <1>1, <1>2 DEF MemWriteInt, Access, GoesOutside, vars

\* and so does memwritefloat
LEMMA FloatKeeps ==
    ASSUME BlockType, BlockType', StoredInv, NEW b \in Blocks, NEW offset \in Numbers,
           NEW w \in {4, 8}, NEW val \in Reals, MemWriteFloat(b, offset, w, val)
    PROVE  StoredInv'
  <1>. DEFINE a == At(b, offset)  bs == FloatBytes(val, w)
              r == [at |-> a, n |-> w, kind |-> "float", val |-> val]
  <1>1. CASE UNCHANGED <<mem, block, stored>>
    BY <1>1, StoredStays
  <1>2. CASE Within(b, a, ToSize(w)) /\ Store(a, bs, "float", val) /\ UNCHANGED block
    <2>1. a \in Nat /\ ToSize(w) = w /\ w \in Nat
      BY PlaceFacts, BlockFacts DEF Widths
    <2>2. DOMAIN bs = 0..(w - 1)
      BY DEF BytesOf, FloatBytes
    <2>3. Formed(r) /\ Image(r) = bs
      BY <2>1 DEF Formed, Image
    <2>. HIDE DEF a, bs
    <2>. QED BY <1>2, <2>1, <2>2, <2>3, WriteKeeps
  <1>. QED BY <1>1, <1>2 DEF MemWriteFloat, Access, GoesOutside, vars

\* and memwritestring.
LEMMA StringKeeps ==
    ASSUME BlockType, BlockType', StoredInv, NEW b \in Blocks, NEW offset \in Numbers,
           NEW text \in Texts, MemWriteString(b, offset, text)
    PROVE  StoredInv'
  <1>. DEFINE a == At(b, offset)  t == UpToNul(text)  n == Len(t)
              bs == [i \in 0..(Len(t) - 1) |-> t[i + 1]]
              r == [at |-> a, n |-> n, kind |-> "text", val |-> text]
  <1>1. CASE UNCHANGED <<mem, block, stored>>
    BY <1>1, StoredStays
  <1>2. CASE Within(b, a, ToSize(n)) /\ Store(a, bs, "text", text) /\ UNCHANGED block
    <2>0. n \in Nat /\ n < WORD
      BY CStringLength, WordFacts
    <2>1. a \in Nat /\ ToSize(n) = n
      <3>. HIDE DEF n, t
      <3>. QED BY <2>0, PlaceFacts, BlockFacts, SizeOf
    <2>2. DOMAIN bs = 0..(n - 1)
      OBVIOUS
    <2>3. Formed(r) /\ Image(r) = bs
      BY <2>1 DEF Formed, Image
    <2>. HIDE DEF a, bs, n, t
    <2>. QED BY <1>2, <2>0, <2>1, <2>2, <2>3, WriteKeeps
  <1>. QED BY <1>1, <1>2 DEF MemWriteString, Access, GoesOutside, vars

\* Native code writes to a block.
LEMMA NativeKeeps ==
    ASSUME BlockType, BlockType', StoredInv, NEW a \in Addresses, NEW w \in Widths,
           NEW val \in CValues, NativeStores(a, w, val)
    PROVE  StoredInv'
  <1>. DEFINE bs == BytesOf(ToSize(val), w)
              r == [at |-> a, n |-> w, kind |-> "int", val |-> val]
  <1>1. PICK b \in Blocks : Within(b, a, w)
    BY DEF NativeStores
  <1>2. Store(a, bs, "int", val) /\ UNCHANGED block
    BY DEF NativeStores, ToSize
  <1>3. a \in Nat /\ w \in Nat /\ val \in Int
    BY NativesAssumption DEF Widths, Addresses
  <1>4. DOMAIN bs = 0..(w - 1)
    BY DEF BytesOf
  <1>5. Formed(r) /\ Image(r) = bs
    BY <1>3 DEF Formed, Image
  <1>. HIDE DEF bs
  <1>. QED BY <1>1, <1>2, <1>3, <1>4, <1>5, WriteKeeps

\* tocstring makes a block and fills it.
LEMMA CStringKeeps ==
    ASSUME BlockType, BlockType', StoredInv, NEW text \in Texts, ToCString(text)
    PROVE  StoredInv'
  <1>. DEFINE n == Len(text) + 1
              bs == [i \in 0..Len(text) |-> IF i < Len(text) THEN text[i + 1] ELSE NUL]
  <1>1. PICK a \in Addresses : /\ Room(a, n) /\ block' = [block EXCEPT ![a] = n]
                               /\ Store(a, bs, "cstring", text)
    BY DEF ToCString
  <1>. DEFINE r == [at |-> a, n |-> n, kind |-> "cstring", val |-> text]
  <1>2. n \in Nat \ {0} /\ a \in Nat
    BY NativesAssumption DEF Addresses
  <1>3. DOMAIN bs = 0..(n - 1)
    <2>1. 0..Len(text) = 0..(n - 1)
      BY NativesAssumption
    <2>. QED BY <2>1
  <1>4. Formed(r) /\ Image(r) = bs
    BY <1>2 DEF Formed, Image
  <1>. HIDE DEF bs, n
  <1>5. a \notin Blocks
    BY <1>1, <1>2, RoomFresh
  <1>6. BlocksFit'
    BY <1>1, <1>2, FitAfter DEF StoredInv, BlockType, Room
  <1>7. \A c \in Blocks : block'[c] = block[c]
    BY <1>1, <1>5, BlockFacts
  <1>8. a \in Blocks' /\ Extent(a, n) \subseteq Extent(a, block'[a]) \cap Addresses
    BY <1>1, <1>2 DEF Blocks, BlockType, Room
  <1>9. \A s \in stored' : Kept(s)'
    BY <1>1, <1>2, <1>3, <1>4, <1>7, <1>8, StoreKeeps DEF StoredInv
  <1>. QED BY <1>6, <1>9 DEF StoredInv

\* Each step preserves what is remembered.
LEMMA StoredStep ==
    ASSUME BlockType, BlockType', StoredInv, [NativesNext]_vars
    PROVE  StoredInv'
  <1>1. CASE UNCHANGED <<mem, block, stored>>
    BY <1>1, StoredStays
  <1>2. ASSUME NEW argv \in ArgLists, NEW types \in ArgTypes, Refused(argv, types)
        PROVE  StoredInv'
    BY <1>1, <1>2 DEF Refused, vars
  <1>3. ASSUME NEW a \in Addresses, NEW w \in Widths, NEW n \in CValues, NativeStores(a, w, n)
        PROVE  StoredInv'
    BY <1>3, NativeKeeps
  <1>4. ASSUME NEW b \in Blocks, NewString(b) \/ PrintHex(b)
        PROVE  StoredInv'
    BY <1>1, <1>4 DEF NewString, PrintHex, vars
  <1>5. ASSUME NEW b \in Blocks, NEW offset \in Numbers, NEW n \in Numbers,
               MemRead(b, offset, n) \/ WrongWidth(b, offset, n)
        PROVE  StoredInv'
    BY <1>1, <1>5 DEF MemRead, WrongWidth, Access, GoesOutside, vars
  <1>6. ASSUME NEW b \in Blocks,
               \/ \E n \in Sizes : Realloc(b, n)
               \/ \E c \in Values : Memset(b, c)
               \/ \E s \in Blocks : Memcpy(b, s)
               \/ Free(b) \/ FreeCString(b)
        PROVE  StoredInv'
    BY <1>6, ReallocKeeps, MemsetKeeps, MemcpyKeeps, FreeKeeps
  <1>7. ASSUME NEW b \in Blocks, NEW offset \in Numbers,
               \/ \E w \in Widths, val \in Values : MemWriteInt(b, offset, w, val)
               \/ \E w \in {4, 8}, val \in Reals : MemWriteFloat(b, offset, w, val)
               \/ \E text \in Texts : MemWriteString(b, offset, text)
        PROVE  StoredInv'
    BY <1>7, IntKeeps, FloatKeeps, StringKeeps
  <1>8. ASSUME NEW n \in Sizes, Malloc(n) PROVE StoredInv'
    BY <1>8, MallocKeeps
  <1>9. ASSUME NEW text \in Texts, ToCString(text) PROVE StoredInv'
    BY <1>9, CStringKeeps
  <1>10. CASE UNCHANGED vars
    BY <1>1, <1>10 DEF vars
  <1>. QED BY <1>2, <1>3, <1>4, <1>5, <1>6, <1>7, <1>8, <1>9, <1>10 DEF NativesNext

\* What is whole is read back.
LEMMA WholeReadsBack == StoredInv => ReadsBack
  <1>1. SUFFICES ASSUME StoredInv, NEW r \in stored
                 PROVE  CASE r.kind = "int" ->
               \A issigned \in BOOLEAN :
                  Close(IntAt(r.at, issigned, r.n), AsC(r.val, issigned \/ r.n = 8, r.n), MANTISSA)
          [] r.kind = "float" ->
               Close(FloatAt(r.at, r.n), r.val, IF r.n = 4 THEN FLOAT ELSE MANTISSA)
          [] OTHER ->
               LET t == UpToNul(TextAt(r.at, r.n)) IN
               /\ t = SubSeq(r.val, 1, Len(t))
               /\ NUL \in Range(r.val) \/ t = r.val
    BY DEF ReadsBack
  <1>2. Formed(r) /\ Whole(r)
    BY <1>1 DEF StoredInv, Kept
  <1>3. CASE r.kind = "int"
    BY <1>2, <1>3, IntReadBack
  <1>4. CASE r.kind = "float"
    BY <1>2, <1>4, FloatReadBack
  <1>5. CASE r.kind \in {"text", "cstring"}
    BY <1>2, <1>5, TextReadBack
  <1>. QED BY <1>2, <1>3, <1>4, <1>5 DEF Formed

\* For every arena, word, precision, and set of numbers and texts: a value that
\* a script or native code stored is what the accessors and newstring read back
\* from its place until a byte of it is overwritten or freed, whatever else is
\* allocated, moved by realloc or written (memwriteint to tocstring).
THEOREM ValuesReadBack == NativesSpec => []ReadsBack
  <1>1. NativesInit => BoundsInv /\ StoredInv
    <2>. SUFFICES ASSUME NativesInit PROVE BoundsInv /\ StoredInv
      OBVIOUS
    <2>1. BlockType
      BY WordFacts DEF NativesInit, BlockType
    <2>2. BoundsInv
      BY <2>1, TestExact DEF NativesInit, BoundsInv, BoundsChecked
    <2>3. StoredInv
      BY DEF NativesInit, StoredInv, BlocksFit, Blocks
    <2>. QED BY <2>2, <2>3
  <1>2. BoundsInv /\ BoundsInv' /\ StoredInv /\ [NativesNext]_vars => StoredInv'
    BY StoredStep DEF BoundsInv
  <1>. QED BY <1>1, <1>2, BoundsStep, WholeReadsBack, PTL DEF NativesSpec

=============================================================================
