------------------------- MODULE ModuleLoadingProofs ------------------------
(***************************************************************************)
(* Proofs about Toyjsc, for any files, import graphs and options; about    *)
(* ModuleLoading, for any scripts, import graphs and names in the          *)
(* bytecode; and about the compiler and the runtimes together.             *)
(*                                                                         *)
(* The compiler.  Whatever is in the context has been listed or written,   *)
(* or is being compiled (Accounted); what is written has its imports in    *)
(* the context, and so has what is being compiled but for those it still   *)
(* has to resolve (WrittenOK, StackOK).  A file of the command line is the *)
(* outermost of the compilations in progress, so that nothing is being     *)
(* compiled when it is written.                                            *)
(*                                                                         *)
(* The loader.  A module that is asked for is looked for by its name       *)
(* first, so that the names which can be asked for are each in the context *)
(* once (UniqueNames); and only a bundle may have another name than it was *)
(* asked for (Named).  A module whose imports are not all resolved is in   *)
(* progress (InProgress), and none is when evaluation begins (Complete).   *)
(***************************************************************************)
EXTENDS MCModules, DataLemmas, TLAPS

-----------------------------------------------------------------------------
(* Names *)

\* A part of a text is a text.
LEMMA PartIsText ==
    ASSUME NEW f \in Strings, NEW a \in 0..Len(f)
    PROVE  SubSeq(f, a + 1, Len(f)) \in Strings /\ SubSeq(f, 1, a - 1) \in Strings
<1>1. Len(f) \in Nat /\ \A i \in 1..Len(f) : f[i] \in Characters
  BY SeqFacts DEF Strings
<1>2. \A i \in (a + 1)..Len(f) : f[i] \in Characters
  BY <1>1
<1>3. \A i \in 1..(a - 1) : f[i] \in Characters
  BY <1>1
<1>4. a + 1 \in Int /\ a - 1 \in Int /\ 1 \in Int /\ Len(f) \in Int
  BY <1>1
<1>5. SubSeq(f, a + 1, Len(f)) \in Seq(Characters)
  BY <1>2, <1>4, SubSeqProperties
<1>6. SubSeq(f, 1, a - 1) \in Seq(Characters)
  BY <1>3, <1>4, SubSeqProperties
<1>. QED BY <1>5, <1>6 DEF Strings

\* get_c_name makes a text of a path.
LEMMA GetCNameType ==
    ASSUME NEW f \in Strings
    PROVE  GetCName(f) \in Strings
<1>1. ASSUME NEW g \in Strings, NEW c
      PROVE  (LET I == {i \in 1..Len(g) : g[i] = c} IN IF I # {} THEN Max(I) ELSE 0) \in 0..Len(g)
  BY LastPosition DEF Strings
<1>2. BaseName(f) \in Strings
  <2>1. SelectLastInSeq(f, LAMBDA c : c = "/") \in 0..Len(f)
    BY <1>1 DEF SelectLastInSeq
  <2>. QED BY <2>1, PartIsText DEF BaseName
<1>3. Stem(f) \in Strings
  <2>1. SelectLastInSeq(BaseName(f), LAMBDA c : c = ".") \in 0..Len(BaseName(f))
    BY <1>1, <1>2 DEF SelectLastInSeq
  <2>. QED BY <1>2, <2>1, PartIsText DEF Stem
<1>4. Len(Stem(f)) \in Nat /\ DOMAIN Stem(f) = 1..Len(Stem(f)) /\ \A i \in DOMAIN Stem(f) : Stem(f)[i] \in Characters
  BY <1>3, SeqFacts DEF Strings
<1>5. GetCName(f) \in [1..Len(Stem(f)) -> Characters]
  BY <1>4, ToyjscAssumption DEF GetCName
<1>. QED BY <1>4, <1>5, SeqDef DEF Strings

\* While there are more numbers than names, one gives a name that is free.
LEMMA UniqueIsFree ==
    ASSUME NEW c \in Strings, cnameList \in Seq(Entries), Len(cnameList) < Len(Decimals)
    PROVE  Unique(c) \in Strings \ CNames
<1>. DEFINE n == Len(cnameList)
            suffixed(k) == Append(c, "_") \o Decimals[k]
            free == {k \in 1..(n + 1) : suffixed(k) \notin CNames}
<1>1. n \in Nat /\ DOMAIN cnameList = 1..n
  BY SeqFacts
<1>2. /\ \A k \in 1..(n + 1) : Decimals[k] \in Strings
      /\ \A j, k \in 1..(n + 1) : Decimals[j] = Decimals[k] => j = k
  <2>1. Decimals \in Seq(Strings) /\ \A j, k \in DOMAIN Decimals : Decimals[j] = Decimals[k] => j = k
    BY ToyjscAssumption
  <2>2. Len(Decimals) \in Nat /\ DOMAIN Decimals = 1..Len(Decimals)
        /\ \A k \in 1..Len(Decimals) : Decimals[k] \in Strings
    BY <2>1, SeqFacts
  <2>3. \A k \in 1..(n + 1) : k \in 1..Len(Decimals)
    BY <1>1, <2>2
  <2>. QED BY <2>1, <2>2, <2>3
<1>3. Append(c, "_") \in Seq(Characters)
  BY AppendProperties, ToyjscAssumption DEF Strings
<1>4. \A k \in 1..(n + 1) : suffixed(k) \in Strings
  <2>1. \A s, t \in Seq(Characters) : s \o t \in Seq(Characters)
    BY ConcatProperties
  <2>. QED BY <1>2, <1>3, <2>1 DEF Strings
<1>5. \A j, k \in 1..(n + 1) : suffixed(j) = suffixed(k) => j = k
  <2>1. \A s, t, u \in Seq(Characters) : s \o t = s \o u => t = u
    BY ConcatSimplifications
  <2>. QED BY <1>2, <1>3, <2>1 DEF Strings
<1>. HIDE DEF suffixed
<1>6. free # {}
  <2>. SUFFICES ASSUME free = {}
                PROVE  FALSE
    OBVIOUS
  <2>. DEFINE has(k) == CHOOSE i \in 1..n : cnameList[i].cname = suffixed(k)
              g == [k \in 1..(n + 1) |-> has(k)]
  <2>1. \A k \in 1..(n + 1) : \E i \in 1..n : cnameList[i].cname = suffixed(k)
    BY <1>1 DEF CNames
  <2>2. \A k \in 1..(n + 1) : has(k) \in 1..n /\ cnameList[has(k)].cname = suffixed(k)
    BY <2>1
  <2>3. g \in [1..(n + 1) -> 1..n]
    BY <2>2
  <2>4. \A k \in 1..(n + 1) : g[k] = has(k)
    OBVIOUS
  <2>. HIDE DEF g, has
  <2>5. /\ IsFiniteSet(1..(n + 1)) /\ Cardinality(1..(n + 1)) = n + 1
        /\ IsFiniteSet(1..n) /\ Cardinality(1..n) = n
    <3>1. n \in Int /\ n + 1 \in Int /\ 1 \in Int
      BY <1>1
    <3>2. /\ IsFiniteSet(1..(n + 1)) /\ Cardinality(1..(n + 1)) = (IF 1 > n + 1 THEN 0 ELSE (n + 1) - 1 + 1)
          /\ IsFiniteSet(1..n) /\ Cardinality(1..n) = (IF 1 > n THEN 0 ELSE n - 1 + 1)
      BY <3>1, FS_Interval
    <3>. QED BY <1>1, <3>2
  <2>6. Cardinality(1..n) < Cardinality(1..(n + 1))
    BY <1>1, <2>5
  <2>7. \E j, k \in 1..(n + 1) : j # k /\ g[j] = g[k]
    <3>. DEFINE S == 1..(n + 1)  T == 1..n
    <3>1. IsFiniteSet(S) /\ IsFiniteSet(T) /\ Cardinality(T) < Cardinality(S) /\ g \in [S -> T]
      BY <2>3, <2>5, <2>6
    <3>. HIDE DEF S, T
    <3>2. \E j, k \in S : j # k /\ g[j] = g[k]
      BY <3>1, FS_PigeonHole
    <3>. QED BY <3>2 DEF S
  <2>. QED BY <1>5, <2>2, <2>4, <2>7
<1>7. \E k \in free : \A j \in free : k <= j
  <2>1. free \in SUBSET Nat
    BY <1>1
  <2>. HIDE DEF free
  <2>. QED BY <1>6, <2>1, LeastNatural
<1>8. \E k \in free : Unique(c) = suffixed(k)
  BY <1>7 DEF Unique, suffixed
<1>. QED BY <1>4, <1>8

-----------------------------------------------------------------------------
(* The inductive invariant *)

\* What holds of the compilations s in progress while the names l are in the
\* context and `list` has been written.
StackOK(s, l, list) ==
    \A k \in 1..Len(s) :
        /\ s[k].name \in l \cup {NoName}
        /\ s[k].loadOnly => s[k].name = s[k].file
        /\ ~s[k].loadOnly => k = Len(s)
        /\ s[k].name \in Files => s[k].file = s[k].name
        /\ s[k].name # NoName => ToSet(imports[s[k].file]) \subseteq l \cup ToSet(s[k].todo)
        /\ s[k].loadOnly /\ s[k].name \notin ToSet(dyn) =>
             \A i \in 1..Len(list) : list[i].name # s[k].name

Distinct(s) == \A j, k \in 1..Len(s) : j # k => s[j].name # s[k].name

\* What holds of what has been written.
WrittenOK(l, list) ==
    \A i \in 1..Len(list) :
        /\ list[i].name \in l \cup {NoName}
        /\ list[i].name \in Files => list[i].file = list[i].name
        /\ list[i].name # NoName => ToSet(imports[list[i].file]) \subseteq l

\* Where each module of the context is.
Accounted(s, l, list, listed) ==
    \A n \in l :
        \/ n \in ToSet(listed)
        \/ \E k \in 1..Len(s) : s[k].name = n
        \/ \E i \in 1..Len(list) : list[i].name = n

WrittenOnce(list) ==
    \A i, j \in 1..Len(list) :
        i < j /\ list[j].loadOnly /\ list[i].name = list[j].name => list[j].name \in ToSet(dyn)

ListedOnce(listed) ==
    \A i, j \in 1..Len(listed) : i < j /\ listed[i] = listed[j] => listed[i] \in ToSet(dyn)

Modules ==
    /\ StackOK(stack, loaded, cnameList) /\ Distinct(stack)
    /\ WrittenOK(loaded, cnameList) /\ WrittenOnce(cnameList)
    /\ ToSet(initList) \subseteq loaded /\ ListedOnce(initList)
    /\ Accounted(stack, loaded, cnameList, initList)

IInv == TypeOK /\ Modules /\ LoadedNamesUnique /\ ReachableWritten

-----------------------------------------------------------------------------
(* The loader *)

LEMMA NameFacts ==
    /\ Files \subseteq Names /\ CModules \subseteq Names /\ NoName \notin Names
    /\ Names \subseteq ModuleNames \ {NoName} /\ ScriptNames \subseteq ModuleNames
    /\ NoName \in ModuleNames /\ Files \subseteq Strings /\ CModules \cap Files = {}
    /\ ScriptNames \cap Files = {}
  BY ToyjscAssumption DEF Names, ModuleNames

\* A compilation is put on those in progress.
LEMMA PushFacts ==
    ASSUME NEW s \in Seq(Compilations), NEW r \in Compilations
    PROVE  /\ <<r>> \o s \in Seq(Compilations) /\ Len(s) \in Nat /\ Len(<<r>> \o s) = Len(s) + 1
           /\ (<<r>> \o s)[1] = r
           /\ \A k \in 1..Len(s) : (<<r>> \o s)[k + 1] = s[k]
           /\ \A k \in 1..(Len(s) + 1) : k = 1 \/ (k - 1 \in 1..Len(s) /\ (<<r>> \o s)[k] = s[k - 1])
<1>1. /\ <<r>> \o s \in Seq(Compilations) /\ Len(s) \in Nat
      /\ DOMAIN (<<r>> \o s) = 1..(Len(s) + 1) /\ (<<r>> \o s)[1] = r
      /\ \A i \in 2..(Len(s) + 1) : (<<r>> \o s)[i] = s[i - 1]
  BY ConsFacts
<1>. DEFINE t == <<r>> \o s
<1>2. t \in Seq(Compilations) /\ DOMAIN t = 1..(Len(s) + 1)
  BY <1>1
<1>. HIDE DEF t
<1>3. Len(t) \in Nat /\ DOMAIN t = 1..Len(t)
  BY <1>2, SeqFacts
<1>4. Len(t) = Len(s) + 1
  <2>1. \A a, b \in Nat : 1..a = 1..b => a = b
    OBVIOUS
  <2>2. Len(s) + 1 \in Nat /\ 1..Len(t) = 1..(Len(s) + 1)
    BY <1>1, <1>2, <1>3
  <2>. QED BY <1>3, <2>1, <2>2
<1>5. \A k \in 1..Len(s) : k + 1 \in 2..(Len(s) + 1) /\ (k + 1) - 1 = k
  BY <1>1
<1>6. \A k \in 1..(Len(s) + 1) : k = 1 \/ (k - 1 \in 1..Len(s) /\ k \in 2..(Len(s) + 1))
  BY <1>1
<1>. QED BY <1>1, <1>4, <1>5, <1>6 DEF t

\* What has been written stays so when more is listed.
LEMMA ReachableKept ==
    ASSUME TypeOK, ReachableWritten, UNCHANGED <<imports, cnameList>>, ToSet(initList) \subseteq ToSet(initList')
    PROVE  ReachableWritten'
<1>1. \A f : Reach(f)' = Reach(f)
  BY DEF Reach, Closed
<1>. QED BY <1>1 DEF ReachableWritten

\* The loader is called for n, with `below` in progress.
LEMMA LoaderIInv ==
    ASSUME IInv, NEW n \in Names, NEW below \in Seq(Compilations), Loader(n, below),
           UNCHANGED <<imports, argv, dyn, scriptName, cname, cnameList>>,
           pos' \in 0..(Len(argv) + Len(dyn)), exit = "running",
           StackOK(below, loaded \cup {n}, cnameList), Distinct(below),
           \A k \in 1..Len(below) : below[k].name \in loaded \cup {NoName},
           Accounted(below, loaded, cnameList, initList),
           n \notin loaded \/ (below = <<>> /\ n \in ToSet(dyn))
    PROVE  IInv'
<1>1. /\ TypeOK /\ Modules /\ LoadedNamesUnique /\ ReachableWritten
      /\ n # NoName /\ n \in ModuleNames \ {NoName}
  BY NameFacts DEF IInv
<1>2. loaded' = loaded \cup {n} /\ exit' \in {"running", "ok", "error"}
  BY DEF Loader, Enter
<1>3. loaded' \subseteq ModuleNames \ {NoName}
  BY <1>1, <1>2 DEF TypeOK
<1>4. LoadedNamesUnique' /\ WrittenOK(loaded, cnameList)' /\ WrittenOnce(cnameList)'
  <2>1. WrittenOK(loaded, cnameList)'
    BY <1>1, <1>2 DEF Modules, WrittenOK
  <2>2. LoadedNamesUnique' /\ WrittenOnce(cnameList)'
    BY <1>1 DEF LoadedNamesUnique, Modules, WrittenOnce
  <2>. QED BY <2>1, <2>2
<1>5. CASE n \in CModules /\ initList' = Listed(n) /\ stack' = below
  <2>1. initList \in Seq(CModules) /\ initList' = Append(initList, n)
    BY <1>1, <1>5 DEF TypeOK, Listed, NamelistAdd
  <2>2. /\ initList' \in Seq(CModules) /\ Len(initList) \in Nat
        /\ Len(initList') = Len(initList) + 1 /\ initList'[Len(initList) + 1] = n
        /\ \A i \in 1..Len(initList) : initList'[i] = initList[i]
    BY <1>5, <2>1, AppendProperties, LenProperties
  <2>3. \A x : x \in ToSet(initList') <=> x \in ToSet(initList) \/ x = n
    BY <1>5, <2>1, AppendElements
  <2>4. TypeOK'
    BY <1>1, <1>2, <1>3, <1>5, <2>2 DEF TypeOK
  <2>5. ReachableWritten'
    BY <1>1, <2>3, ReachableKept
  <2>6. ToSet(initList)' \subseteq loaded'
    BY <1>1, <1>2, <2>3 DEF Modules
  <2>7. ListedOnce(initList)'
    <3>. SUFFICES ASSUME NEW i \in 1..Len(initList'), NEW j \in 1..Len(initList'), i < j,
                         initList'[i] = initList'[j]
                  PROVE  initList'[i] \in ToSet(dyn)
      BY DEF ListedOnce
    <3>1. i \in 1..Len(initList)
      BY <2>2
    <3>2. CASE j \in 1..Len(initList)
      BY <1>1, <2>2, <3>1, <3>2 DEF Modules, ListedOnce
    <3>3. CASE j \notin 1..Len(initList)
      <4>1. j = Len(initList) + 1
        BY <2>2, <3>3
      <4>2. initList[i] = n /\ initList'[i] = n
        BY <2>2, <3>1, <4>1
      <4>3. n \in ToSet(initList)
        BY <2>1, <3>1, <4>2, SeqFacts, ToSetDef
      <4>. QED BY <1>1, <4>2, <4>3 DEF Modules
    <3>. QED BY <3>2, <3>3
  <2>8. StackOK(stack, loaded, cnameList)' /\ Distinct(stack)'
    BY <1>2, <1>5 DEF StackOK, Distinct
  <2>9. Accounted(stack, loaded, cnameList, initList)'
    BY <1>2, <1>5, <2>3 DEF Accounted
  <2>. QED BY <1>4, <2>4, <2>5, <2>6, <2>7, <2>8, <2>9 DEF IInv, Modules
<1>6. CASE n \in Files /\ Compile(n, n, TRUE, imports[n], below) /\ initList' = initList
  <2>. DEFINE r == [file |-> n, name |-> n, loadOnly |-> TRUE, todo |-> imports[n]]
  <2>1. r \in Compilations
    BY <1>1, <1>6 DEF TypeOK, Compilations
  <2>2. /\ r.file = n /\ r.name = n /\ r.loadOnly = TRUE /\ r.todo = imports[n]
        /\ stack' = <<r>> \o below
    BY <1>6 DEF Compile
  <2>. HIDE DEF r
  <2>3. /\ stack' \in Seq(Compilations) /\ Len(below) \in Nat /\ Len(stack') = Len(below) + 1
        /\ stack'[1] = r
        /\ \A k \in 1..Len(below) : stack'[k + 1] = below[k]
        /\ \A k \in 1..(Len(below) + 1) : k = 1 \/ (k - 1 \in 1..Len(below) /\ stack'[k] = below[k - 1])
    BY <2>1, <2>2, PushFacts
  <2>4. TypeOK'
    BY <1>1, <1>2, <1>3, <1>6, <2>3 DEF TypeOK
  <2>5. ReachableWritten' /\ ToSet(initList)' \subseteq loaded' /\ ListedOnce(initList)'
    BY <1>1, <1>2, <1>6, ReachableKept DEF Modules, ListedOnce
  <2>6. StackOK(stack, loaded, cnameList)'
    <3>. SUFFICES ASSUME NEW k \in 1..(Len(below) + 1)
                  PROVE  /\ stack'[k].name \in loaded' \cup {NoName}
                         /\ stack'[k].loadOnly => stack'[k].name = stack'[k].file
                         /\ ~stack'[k].loadOnly => k = Len(below) + 1
                         /\ stack'[k].name \in Files => stack'[k].file = stack'[k].name
                         /\ stack'[k].name # NoName =>
                              ToSet(imports[stack'[k].file]) \subseteq loaded' \cup ToSet(stack'[k].todo)
                         /\ stack'[k].loadOnly /\ stack'[k].name \notin ToSet(dyn) =>
                              \A i \in 1..Len(cnameList) : cnameList[i].name # stack'[k].name
      BY <2>3 DEF StackOK
    <3>1. CASE k = 1
      <4>1. \A i \in 1..Len(cnameList) : cnameList[i].name \in loaded \cup {NoName}
        BY <1>1 DEF Modules, WrittenOK
      <4>. QED BY <1>1, <1>2, <2>2, <2>3, <3>1, <4>1
    <3>2. CASE k - 1 \in 1..Len(below) /\ stack'[k] = below[k - 1]
      <4>1. ~below[k - 1].loadOnly => k = Len(below) + 1
        BY <2>3, <3>2 DEF StackOK
      <4>. QED BY <1>2, <3>2, <4>1 DEF StackOK
    <3>. QED BY <2>3, <3>1, <3>2
  <2>7. Distinct(stack)'
    <3>1. \A k \in 1..Len(below) : below[k].name # n
      <4>1. CASE n \notin loaded
        BY <1>1, <4>1
      <4>2. CASE below = <<>>
        <5>1. Len(below) = 0
          BY <4>2, EmptySeq
        <5>2. \A k \in 1..0 : FALSE
          OBVIOUS
        <5>. QED BY <5>1, <5>2
      <4>. QED BY <4>1, <4>2
    <3>. SUFFICES ASSUME NEW j \in 1..(Len(below) + 1), NEW k \in 1..(Len(below) + 1), j # k
                  PROVE  stack'[j].name # stack'[k].name
      BY <2>3 DEF Distinct
    <3>2. CASE j = 1
      BY <2>2, <2>3, <3>1, <3>2
    <3>3. CASE k = 1
      BY <2>2, <2>3, <3>1, <3>3
    <3>4. CASE j # 1 /\ k # 1
      <4>1. /\ j - 1 \in 1..Len(below) /\ stack'[j] = below[j - 1]
            /\ k - 1 \in 1..Len(below) /\ stack'[k] = below[k - 1]
        BY <2>3, <3>4
      <4>2. j - 1 # k - 1
        BY <2>3
      <4>. QED BY <4>1, <4>2 DEF Distinct
    <3>. QED BY <3>2, <3>3, <3>4
  <2>8. Accounted(stack, loaded, cnameList, initList)'
    <3>. SUFFICES ASSUME NEW m \in loaded \cup {n}
                  PROVE  \/ m \in ToSet(initList)
                         \/ \E k \in 1..(Len(below) + 1) : stack'[k].name = m
                         \/ \E i \in 1..Len(cnameList) : cnameList[i].name = m
      BY <1>2, <1>6, <2>3 DEF Accounted
    <3>1. 1 \in 1..(Len(below) + 1) /\ \A k \in 1..Len(below) : k + 1 \in 1..(Len(below) + 1)
      BY <2>3
    <3>2. CASE m = n
      BY <2>2, <2>3, <3>1, <3>2
    <3>3. CASE m \in loaded
      BY <2>3, <3>1, <3>3 DEF Accounted
    <3>. QED BY <3>2, <3>3
  <2>. QED BY <1>4, <2>4, <2>5, <2>6, <2>7, <2>8 DEF IInv, Modules
<1>. QED BY <1>5, <1>6 DEF Loader

-----------------------------------------------------------------------------
(* The steps *)

\* The innermost compilation has resolved an import.
LEMMA ResolvedFacts ==
    ASSUME IInv, stack # <<>>, Head(stack).todo # <<>>, NEW n, n = Head(Head(stack).todo)
    PROVE  /\ n \in Names /\ Resolved \in Seq(Compilations) /\ Len(Resolved) = Len(stack)
           /\ StackOK(Resolved, loaded \cup {n}, cnameList) /\ Distinct(Resolved)
           /\ \A k \in 1..Len(Resolved) : Resolved[k].name \in loaded \cup {NoName}
           /\ Accounted(Resolved, loaded, cnameList, initList)
<1>. DEFINE h == Head(stack)
            r == [h EXCEPT !.todo = Tail(@)]
            q == Resolved
<1>1. TypeOK /\ Modules
  BY DEF IInv
<1>2. /\ stack \in Seq(Compilations) /\ h \in Compilations /\ h = stack[1]
      /\ Tail(stack) \in Seq(Compilations) /\ Len(stack) \in Nat \ {0} /\ Len(Tail(stack)) = Len(stack) - 1
      /\ \A k \in 1..(Len(stack) - 1) : Tail(stack)[k] = stack[k + 1]
  BY <1>1, TailFacts, HeadTailProperties DEF TypeOK
<1>3. /\ h.todo \in Seq(Names) /\ n \in Names /\ Tail(h.todo) \in Seq(Names)
      /\ \A x : x \in ToSet(h.todo) <=> x \in ToSet(Tail(h.todo)) \/ x = n
  BY <1>2, TailElements DEF Compilations
<1>4. /\ r \in Compilations /\ r.todo = Tail(h.todo)
      /\ r.name = h.name /\ r.file = h.file /\ r.loadOnly = h.loadOnly
  BY <1>2, <1>3 DEF Compilations
<1>5. q = <<r>> \o Tail(stack)
  BY DEF Resolved
<1>. HIDE DEF q, r, h
<1>6. /\ q \in Seq(Compilations) /\ Len(q) = Len(stack) /\ q[1] = r
      /\ \A k \in 1..Len(stack) : k = 1 \/ (k - 1 \in 1..(Len(stack) - 1) /\ q[k] = Tail(stack)[k - 1])
  <2>1. /\ q \in Seq(Compilations) /\ Len(q) = Len(Tail(stack)) + 1 /\ q[1] = r
        /\ \A k \in 1..(Len(Tail(stack)) + 1) : k = 1 \/ (k - 1 \in 1..Len(Tail(stack)) /\ q[k] = Tail(stack)[k - 1])
    BY <1>2, <1>4, <1>5, PushFacts
  <2>2. Len(Tail(stack)) + 1 = Len(stack)
    BY <1>2
  <2>. QED BY <1>2, <2>1, <2>2
<1>7. \A k \in 1..Len(stack) :
        /\ q[k].name = stack[k].name /\ q[k].file = stack[k].file /\ q[k].loadOnly = stack[k].loadOnly
        /\ ToSet(stack[k].todo) \subseteq ToSet(q[k].todo) \cup {n}
  <2>. SUFFICES ASSUME NEW k \in 1..Len(stack)
                PROVE  /\ q[k].name = stack[k].name /\ q[k].file = stack[k].file
                       /\ q[k].loadOnly = stack[k].loadOnly
                       /\ ToSet(stack[k].todo) \subseteq ToSet(q[k].todo) \cup {n}
    OBVIOUS
  <2>1. CASE k = 1
    BY <1>2, <1>3, <1>4, <1>6, <2>1
  <2>2. CASE k # 1
    <3>1. k - 1 \in 1..(Len(stack) - 1) /\ q[k] = Tail(stack)[k - 1] /\ (k - 1) + 1 = k
      BY <1>2, <1>6, <2>2
    <3>2. q[k] = stack[k]
      BY <1>2, <3>1
    <3>. QED BY <3>2
  <2>. QED BY <2>1, <2>2
<1>8. StackOK(q, loaded \cup {n}, cnameList)
  BY <1>1, <1>6, <1>7 DEF Modules, StackOK
<1>9. Distinct(q) /\ \A k \in 1..Len(q) : q[k].name \in loaded \cup {NoName}
  BY <1>1, <1>6, <1>7 DEF Modules, StackOK, Distinct
<1>10. Accounted(q, loaded, cnameList, initList)
  BY <1>1, <1>6, <1>7 DEF Modules, Accounted
<1>. QED BY <1>3, <1>6, <1>8, <1>9, <1>10 DEF q

LEMMA ResolveIInv ==
    ASSUME IInv, Resolve
    PROVE  IInv'
<1>. DEFINE n == Head(Head(stack).todo)
<1>1. /\ exit = "running" /\ stack # <<>> /\ Head(stack).todo # <<>>
      /\ UNCHANGED <<imports, argv, dyn, scriptName, cname, pos, cnameList>>
  BY DEF Resolve, input
<1>2. /\ n \in Names /\ Resolved \in Seq(Compilations) /\ Len(Resolved) = Len(stack)
      /\ StackOK(Resolved, loaded \cup {n}, cnameList) /\ Distinct(Resolved)
      /\ \A k \in 1..Len(Resolved) : Resolved[k].name \in loaded \cup {NoName}
      /\ Accounted(Resolved, loaded, cnameList, initList)
  BY <1>1, ResolvedFacts
<1>3. TypeOK /\ Modules /\ LoadedNamesUnique /\ ReachableWritten
  BY DEF IInv
<1>. HIDE DEF n
<1>4. CASE n \in loaded /\ stack' = Resolved /\ UNCHANGED <<loaded, initList, exit>>
  <2>1. loaded \cup {n} = loaded
    BY <1>4
  <2>2. TypeOK'
    BY <1>1, <1>2, <1>3, <1>4 DEF TypeOK
  <2>3. StackOK(stack, loaded, cnameList)'
    BY <1>1, <1>2, <1>4, <2>1 DEF StackOK
  <2>4. Distinct(stack)'
    BY <1>2, <1>4 DEF Distinct
  <2>5. Accounted(stack, loaded, cnameList, initList)'
    BY <1>1, <1>2, <1>4 DEF Accounted
  <2>6. /\ WrittenOK(loaded, cnameList)' /\ WrittenOnce(cnameList)'
        /\ ToSet(initList)' \subseteq loaded' /\ ListedOnce(initList)'
    BY <1>1, <1>3, <1>4 DEF Modules, WrittenOK, WrittenOnce, ListedOnce
  <2>7. LoadedNamesUnique' /\ ReachableWritten'
    BY <1>1, <1>3, <1>4, ReachableKept DEF LoadedNamesUnique
  <2>. QED BY <2>2, <2>3, <2>4, <2>5, <2>6, <2>7 DEF IInv, Modules
<1>5. CASE n \notin loaded /\ Loader(n, Resolved)
  <2>1. pos' \in 0..(Len(argv) + Len(dyn))
    BY <1>1, <1>3 DEF TypeOK
  <2>. QED BY <1>1, <1>2, <1>5, <2>1, LoaderIInv
<1>. QED BY <1>4, <1>5 DEF Resolve, n

LEMMA LoadDynamicIInv ==
    ASSUME IInv, LoadDynamic
    PROVE  IInv'
<1>. DEFINE k == pos + 1 - Len(argv)
            n == dyn[k]
<1>1. /\ exit = "running" /\ stack = <<>> /\ pos' = pos + 1
      /\ Len(argv) <= pos /\ pos < Len(argv) + Len(dyn) /\ Loader(n, <<>>)
      /\ UNCHANGED <<imports, argv, dyn, scriptName, cname, cnameList>>
  BY DEF LoadDynamic, input
<1>2. TypeOK /\ Modules
  BY DEF IInv
<1>3. /\ pos \in 0..(Len(argv) + Len(dyn)) /\ Len(argv) \in Nat /\ Len(dyn) \in Nat
      /\ DOMAIN dyn = 1..Len(dyn) /\ \A i \in 1..Len(dyn) : dyn[i] \in Names
  BY <1>2, SeqFacts DEF TypeOK
<1>4. k \in 1..Len(dyn) /\ pos' \in 0..(Len(argv) + Len(dyn))
  BY <1>1, <1>3
<1>5. n \in Names /\ n \in ToSet(dyn)
  BY <1>3, <1>4, ToSetDef
<1>6. /\ <<>> \in Seq(Compilations) /\ \A i \in 1..Len(<<>>) : FALSE
  <2>1. <<>> \in Seq(Compilations) /\ Len(<<>>) = 0
    BY EmptySeq
  <2>2. \A i \in 1..0 : FALSE
    OBVIOUS
  <2>. QED BY <2>1, <2>2
<1>7. StackOK(<<>>, loaded \cup {n}, cnameList) /\ Distinct(<<>>)
  BY <1>6 DEF StackOK, Distinct
<1>8. Accounted(<<>>, loaded, cnameList, initList)
  BY <1>1, <1>2 DEF Modules
<1>. HIDE DEF n, k
<1>. QED BY <1>1, <1>4, <1>5, <1>6, <1>7, <1>8, LoaderIInv

\* A file of the command line is compiled alone, as a module or a script.
LEMMA CompileFileIInv ==
    ASSUME IInv, CompileFile
    PROVE  IInv'
<1>. DEFINE f == argv[pos + 1]
            n == IF scriptName = NoName THEN f ELSE scriptName
<1>1. /\ exit = "running" /\ stack = <<>> /\ pos' = pos + 1 /\ pos < Len(argv)
      /\ \/ Compile(f, n, FALSE, imports[f], <<>>) /\ loaded' = loaded \cup {n}
         \/ Compile(f, NoName, FALSE, <<>>, <<>>) /\ loaded' = loaded
      /\ UNCHANGED <<imports, argv, dyn, scriptName, cname, cnameList, initList, exit>>
  BY DEF CompileFile, input, Enter
<1>2. TypeOK /\ Modules /\ LoadedNamesUnique /\ ReachableWritten
  BY DEF IInv
<1>3. f \in Files /\ imports[f] \in Seq(Names) /\ pos' \in 0..(Len(argv) + Len(dyn))
  <2>1. /\ pos \in 0..(Len(argv) + Len(dyn)) /\ Len(argv) \in Nat /\ Len(dyn) \in Nat
        /\ \A i \in 1..Len(argv) : argv[i] \in Files
    BY <1>2, SeqFacts DEF TypeOK
  <2>2. pos + 1 \in 1..Len(argv) /\ pos + 1 \in 0..(Len(argv) + Len(dyn))
    BY <1>1, <2>1
  <2>. QED BY <1>1, <1>2, <2>1, <2>2 DEF TypeOK
<1>4. n \in ModuleNames \ {NoName} /\ (n \in Files => n = f)
  BY <1>2, <1>3, NameFacts DEF TypeOK
<1>. HIDE DEF f, n
<1>5. PICK r \in Compilations :
        /\ stack' = <<r>> \o <<>> /\ r.file = f /\ r.loadOnly = FALSE
        /\ \/ r.name = n /\ r.todo = imports[f] /\ loaded' = loaded \cup {n}
           \/ r.name = NoName /\ loaded' = loaded
  <2>1. CASE Compile(f, n, FALSE, imports[f], <<>>) /\ loaded' = loaded \cup {n}
    <3>1. [file |-> f, name |-> n, loadOnly |-> FALSE, todo |-> imports[f]] \in Compilations
      BY <1>3, <1>4 DEF Compilations
    <3>. QED BY <2>1, <3>1 DEF Compile
  <2>2. CASE Compile(f, NoName, FALSE, <<>>, <<>>) /\ loaded' = loaded
    <3>1. [file |-> f, name |-> NoName, loadOnly |-> FALSE, todo |-> <<>>] \in Compilations
      BY <1>3, NameFacts, EmptySeq DEF Compilations
    <3>. QED BY <2>2, <3>1 DEF Compile
  <2>. QED BY <1>1, <2>1, <2>2
<1>6. /\ stack' \in Seq(Compilations) /\ Len(stack') = 1 /\ stack'[1] = r
      /\ \A k \in 1..1 : k = 1
  <2>1. <<>> \in Seq(Compilations) /\ Len(<<>>) = 0
    BY EmptySeq
  <2>2. stack' \in Seq(Compilations) /\ Len(stack') = 0 + 1 /\ stack'[1] = r
    BY <1>5, <2>1, PushFacts
  <2>. QED BY <2>2
<1>7. TypeOK'
  BY <1>1, <1>2, <1>3, <1>4, <1>5, <1>6 DEF TypeOK
<1>8. StackOK(stack, loaded, cnameList)'
  BY <1>1, <1>4, <1>5, <1>6, NameFacts DEF StackOK
<1>9. Distinct(stack)'
  BY <1>6 DEF Distinct
<1>10. /\ WrittenOK(loaded, cnameList)' /\ WrittenOnce(cnameList)'
       /\ ToSet(initList)' \subseteq loaded' /\ ListedOnce(initList)'
  BY <1>1, <1>2, <1>5 DEF Modules, WrittenOK, WrittenOnce, ListedOnce
<1>11. Accounted(stack, loaded, cnameList, initList)'
  <2>1. \A m \in loaded : m \in ToSet(initList) \/ \E i \in 1..Len(cnameList) : cnameList[i].name = m
    <3>1. Len(stack) = 0 /\ \A k \in 1..0 : FALSE
      BY <1>1, EmptySeq
    <3>. QED BY <1>2, <3>1 DEF Modules, Accounted
  <2>. QED BY <1>1, <1>5, <1>6, <2>1 DEF Accounted
<1>12. LoadedNamesUnique' /\ ReachableWritten'
  BY <1>1, <1>2, ReachableKept DEF LoadedNamesUnique
<1>. QED BY <1>7, <1>8, <1>9, <1>10, <1>11, <1>12 DEF IInv, Modules

\* The innermost compilation is written, under a name that no other has if the
\* loader has made it.
LEMMA OutputIInv ==
    ASSUME IInv, OutputObjectCode
    PROVE  IInv'
<1>. DEFINE c == Head(stack)
            n == Len(cnameList)
            written == [cname |-> IF c.loadOnly THEN LoaderName(c.file) ELSE MainName(c.file),
                        file |-> c.file, name |-> c.name, loadOnly |-> c.loadOnly]
<1>1. /\ exit = "running" /\ stack # <<>> /\ c.todo = <<>> /\ n < Len(Decimals)
      /\ cnameList' = Append(cnameList, written) /\ cname' \in {cname, NoName}
      /\ stack' = Tail(stack) /\ UNCHANGED <<imports, argv, dyn, scriptName, pos, loaded, initList, exit>>
  BY DEF OutputObjectCode, NamelistAdd, input
<1>2. TypeOK /\ Modules /\ LoadedNamesUnique /\ ReachableWritten
  BY DEF IInv
<1>3. /\ stack \in Seq(Compilations) /\ c \in Compilations /\ c = stack[1] /\ 1 \in 1..Len(stack)
      /\ stack' \in Seq(Compilations) /\ Len(stack) \in Nat /\ Len(stack') = Len(stack) - 1
      /\ \A k \in 1..Len(stack') : stack'[k] = stack[k + 1] /\ k + 1 \in 1..Len(stack)
  <2>1. /\ stack \in Seq(Compilations) /\ c \in Compilations /\ c = stack[1]
        /\ stack' \in Seq(Compilations) /\ Len(stack) \in Nat \ {0} /\ Len(stack') = Len(stack) - 1
        /\ \A k \in 1..(Len(stack) - 1) : stack'[k] = stack[k + 1]
    BY <1>1, <1>2, TailFacts, HeadTailProperties DEF TypeOK
  <2>. QED BY <2>1
<1>4. c.file \in Files /\ c.file \in Strings /\ c.name \in ModuleNames /\ c.loadOnly \in BOOLEAN
  BY <1>3, NameFacts DEF Compilations
<1>5. LoaderName(c.file) \in Strings \ CNames /\ MainName(c.file) \in Strings
  <2>1. GetCName(c.file) \in Strings
    BY <1>4, GetCNameType
  <2>2. Unique(GetCName(c.file)) \in Strings \ CNames
    BY <1>1, <1>2, <2>1, UniqueIsFree DEF TypeOK
  <2>3. cname # NoName => cname \in Strings
    BY <1>2, ToyjscAssumption DEF TypeOK
  <2>. QED BY <2>1, <2>2, <2>3 DEF LoaderName, MainName
<1>6. /\ written \in Entries /\ written.file = c.file /\ written.name = c.name /\ written.loadOnly = c.loadOnly
      /\ c.loadOnly => written.cname \notin CNames
  BY <1>4, <1>5 DEF Entries
<1>. HIDE DEF written, c
<1>7. /\ cnameList' \in Seq(Entries) /\ n \in Nat /\ Len(cnameList') = n + 1 /\ cnameList'[n + 1] = written
      /\ \A i \in 1..n : cnameList'[i] = cnameList[i]
      /\ DOMAIN cnameList = 1..n /\ DOMAIN cnameList' = 1..(n + 1)
  <2>1. cnameList \in Seq(Entries)
    BY <1>2 DEF TypeOK
  <2>. QED BY <1>1, <1>6, <2>1, AppendProperties, LenProperties
<1>. HIDE DEF n
<1>8. \A i \in 1..(n + 1) : i \in 1..n \/ i = n + 1
  BY <1>7
<1>9. n + 1 \in 1..(n + 1) /\ \A i \in 1..n : i \in 1..(n + 1)
  BY <1>7
<1>10. /\ c.name \in loaded \cup {NoName} /\ (c.loadOnly => c.name = c.file) /\ (~c.loadOnly => Len(stack) = 1)
       /\ c.name \in Files => c.file = c.name
       /\ c.name # NoName => ToSet(imports[c.file]) \subseteq loaded
       /\ c.loadOnly /\ c.name \notin ToSet(dyn) => \A i \in 1..n : cnameList[i].name # c.name
  <2>1. ToSet(c.todo) = {}
    BY <1>1, <1>3, ToSetFacts DEF Compilations, c
  <2>. QED BY <1>2, <1>3, <2>1 DEF Modules, StackOK, n
<1>11. TypeOK'
  BY <1>1, <1>2, <1>3, <1>7 DEF TypeOK
<1>12. StackOK(stack, loaded, cnameList)'
  <2>. SUFFICES ASSUME NEW k \in 1..Len(stack')
                PROVE  /\ stack'[k].name \in loaded \cup {NoName}
                       /\ stack'[k].loadOnly => stack'[k].name = stack'[k].file
                       /\ ~stack'[k].loadOnly => k = Len(stack')
                       /\ stack'[k].name \in Files => stack'[k].file = stack'[k].name
                       /\ stack'[k].name # NoName =>
                            ToSet(imports[stack'[k].file]) \subseteq loaded \cup ToSet(stack'[k].todo)
                       /\ stack'[k].loadOnly /\ stack'[k].name \notin ToSet(dyn) =>
                            \A i \in 1..Len(cnameList') : cnameList'[i].name # stack'[k].name
    BY <1>1 DEF StackOK
  <2>1. k + 1 \in 1..Len(stack) /\ k + 1 # 1 /\ (k + 1 = Len(stack) => k = Len(stack'))
    BY <1>3
  <2>2. stack'[k] = stack[k + 1]
    BY <1>3
  <2>3. stack[k + 1].name # c.name
    BY <1>2, <1>3, <2>1 DEF Modules, Distinct
  <2>4. stack[k + 1].loadOnly /\ stack[k + 1].name \notin ToSet(dyn) =>
          \A i \in 1..(n + 1) : cnameList'[i].name # stack[k + 1].name
    BY <1>2, <1>6, <1>7, <1>8, <2>1, <2>3 DEF Modules, StackOK, n
  <2>5. StackOK(stack, loaded, cnameList)
    BY <1>2 DEF Modules
  <2>6. /\ stack[k + 1].name \in loaded \cup {NoName}
        /\ stack[k + 1].loadOnly => stack[k + 1].name = stack[k + 1].file
        /\ ~stack[k + 1].loadOnly => k + 1 = Len(stack)
        /\ stack[k + 1].name \in Files => stack[k + 1].file = stack[k + 1].name
        /\ stack[k + 1].name # NoName =>
             ToSet(imports[stack[k + 1].file]) \subseteq loaded \cup ToSet(stack[k + 1].todo)
    BY <2>1, <2>5 DEF StackOK
  <2>. QED BY <1>7, <2>1, <2>2, <2>4, <2>6
<1>13. Distinct(stack)'
  <2>. SUFFICES ASSUME NEW j \in 1..Len(stack'), NEW k \in 1..Len(stack'), j # k
                PROVE  stack'[j].name # stack'[k].name
    BY DEF Distinct
  <2>1. j + 1 # k + 1 /\ j + 1 \in 1..Len(stack) /\ k + 1 \in 1..Len(stack)
    BY <1>3
  <2>2. stack[j + 1].name # stack[k + 1].name
    BY <1>2, <2>1 DEF Modules, Distinct
  <2>. QED BY <1>3, <2>2
<1>14. WrittenOK(loaded, cnameList)'
  BY <1>1, <1>2, <1>6, <1>7, <1>8, <1>10 DEF Modules, WrittenOK, n
<1>15. WrittenOnce(cnameList)'
  <2>. SUFFICES ASSUME NEW i \in 1..(n + 1), NEW j \in 1..(n + 1), i < j, cnameList'[j].loadOnly,
                       cnameList'[i].name = cnameList'[j].name
                PROVE  cnameList'[j].name \in ToSet(dyn)
    BY <1>1, <1>7 DEF WrittenOnce
  <2>1. i \in 1..n
    BY <1>7
  <2>2. CASE j \in 1..n
    BY <1>2, <1>7, <2>1, <2>2 DEF Modules, WrittenOnce, n
  <2>3. CASE j = n + 1
    BY <1>6, <1>7, <1>10, <2>1, <2>3
  <2>. QED BY <1>8, <2>2, <2>3
<1>16. Accounted(stack, loaded, cnameList, initList)'
  <2>. SUFFICES ASSUME NEW m \in loaded
                PROVE  \/ m \in ToSet(initList)
                       \/ \E k \in 1..Len(stack') : stack'[k].name = m
                       \/ \E i \in 1..(n + 1) : cnameList'[i].name = m
    BY <1>1, <1>7 DEF Accounted
  <2>1. CASE m = c.name
    BY <1>6, <1>7, <1>9, <2>1
  <2>2. CASE m # c.name
    <3>1. \/ m \in ToSet(initList)
          \/ \E k \in 1..Len(stack) : stack[k].name = m
          \/ \E i \in 1..n : cnameList[i].name = m
      BY <1>2 DEF Modules, Accounted, n
    <3>2. ASSUME NEW k \in 1..Len(stack), stack[k].name = m
          PROVE  \E l \in 1..Len(stack') : stack'[l].name = m
      <4>1. k # 1
        BY <1>3, <2>2, <3>2
      <4>2. k - 1 \in 1..Len(stack') /\ (k - 1) + 1 = k
        BY <1>3, <4>1
      <4>3. stack'[k - 1] = stack[k]
        BY <1>3, <4>2
      <4>. QED BY <3>2, <4>2, <4>3
    <3>. QED BY <1>7, <1>9, <3>1, <3>2
  <2>. QED BY <2>1, <2>2
<1>17. LoadedNamesUnique'
  <2>. SUFFICES ASSUME NEW i \in 1..(n + 1), NEW j \in 1..(n + 1), i < j, cnameList'[j].loadOnly
                PROVE  cnameList'[i].cname # cnameList'[j].cname
    BY <1>7 DEF LoadedNamesUnique
  <2>1. i \in 1..n
    BY <1>7
  <2>2. CASE j \in 1..n
    BY <1>2, <1>7, <2>1, <2>2 DEF LoadedNamesUnique
  <2>3. CASE j = n + 1
    <3>1. cnameList[i].cname \in CNames
      BY <1>7, <2>1 DEF CNames
    <3>. QED BY <1>6, <1>7, <2>1, <2>3, <3>1
  <2>. QED BY <1>8, <2>2, <2>3
<1>18. ReachableWritten'
  <2>1. /\ ReachableWritten' <=>
             \A p \in DOMAIN cnameList' :
                ~cnameList'[p].loadOnly /\ cnameList'[p].name # NoName =>
                    \A m \in Reach(cnameList'[p].file) :
                        m \in ToSet(initList') \/ \E q \in 1..p : cnameList'[q].name = m
        /\ initList' = initList
    BY <1>1 DEF ReachableWritten, Reach, Closed
  <2>. SUFFICES ASSUME NEW p \in 1..(n + 1), ~cnameList'[p].loadOnly, cnameList'[p].name # NoName,
                       NEW m \in Reach(cnameList'[p].file)
                PROVE  m \in ToSet(initList) \/ \E q \in 1..p : cnameList'[q].name = m
    BY <1>7, <2>1
  <2>2. CASE p \in 1..n
    <3>1. cnameList'[p] = cnameList[p] /\ \A q \in 1..p : q \in 1..n
      BY <1>7, <2>2
    <3>. QED BY <1>2, <1>7, <2>2, <3>1 DEF ReachableWritten
  <2>3. CASE p = n + 1
    <3>. DEFINE W == {x \in Names : x \in ToSet(initList) \/ \E q \in 1..(n + 1) : cnameList'[q].name = x}
    <3>1. \A x \in loaded : x \in ToSet(initList) \/ \E q \in 1..(n + 1) : cnameList'[q].name = x
      <4>1. Len(stack') = 0 /\ \A k \in 1..0 : FALSE
        BY <1>3, <1>6, <1>7, <1>10, <2>3
      <4>. QED BY <1>1, <1>7, <1>16, <4>1 DEF Accounted
    <3>2. \A f \in Files : ToSet(imports[f]) \subseteq Names
      BY <1>2, ToSetFacts DEF TypeOK
    <3>3. ToSet(imports[c.file]) \subseteq W
      BY <1>4, <1>6, <1>7, <1>10, <2>3, <3>1, <3>2
    <3>4. Closed(W)
      <4>. SUFFICES ASSUME NEW g \in W, g \in Files
                    PROVE  ToSet(imports[g]) \subseteq W
        BY DEF Closed
      <4>1. g \notin ToSet(initList)
        BY <1>2, ToSetFacts, NameFacts DEF TypeOK
      <4>2. PICK q \in 1..(n + 1) : cnameList'[q].name = g
        BY <4>1
      <4>3. cnameList'[q].file = g /\ ToSet(imports[g]) \subseteq loaded
        BY <1>1, <1>7, <1>14, <4>2, NameFacts DEF WrittenOK
      <4>. QED BY <3>1, <3>2, <4>3
    <3>5. W \in SUBSET Names
      OBVIOUS
    <3>6. m \in Reach(c.file)
      BY <1>6, <1>7, <2>3
    <3>. HIDE DEF W
    <3>7. m \in W
      BY <3>3, <3>4, <3>5, <3>6 DEF Reach
    <3>. QED BY <2>3, <3>7 DEF W
  <2>. QED BY <1>8, <2>2, <2>3
<1>19. ToSet(initList)' \subseteq loaded' /\ ListedOnce(initList)'
  BY <1>1, <1>2 DEF Modules, ListedOnce
<1>. QED BY <1>11, <1>12, <1>13, <1>14, <1>15, <1>16, <1>17, <1>18, <1>19 DEF IInv, Modules

\* The other steps only end the program.
LEMMA EndIInv ==
    ASSUME IInv, exit' \in {"running", "ok", "error"},
           UNCHANGED <<input, cname, pos, loaded, stack, cnameList, initList>>
    PROVE  IInv'
<1>1. TypeOK /\ Modules /\ LoadedNamesUnique /\ ReachableWritten
  BY DEF IInv
<1>2. TypeOK'
  BY <1>1 DEF TypeOK, input
<1>3. Modules'
  BY <1>1 DEF Modules, StackOK, Distinct, WrittenOK, WrittenOnce, ListedOnce, Accounted, input
<1>4. LoadedNamesUnique' /\ ReachableWritten'
  BY <1>1, ReachableKept DEF LoadedNamesUnique, input
<1>. QED BY <1>2, <1>3, <1>4 DEF IInv

-----------------------------------------------------------------------------
(* The theorems *)

LEMMA InitIInv == ToyjscInit => IInv
<1>. SUFFICES ASSUME ToyjscInit PROVE IInv
  OBVIOUS
<1>1. /\ imports \in [Files -> ImportLists] /\ argv \in Args /\ dyn \in Dyns
      /\ cname \in CNameOptions /\ scriptName \in ScriptNames /\ pos = 0 /\ loaded = {}
      /\ stack = <<>> /\ cnameList = <<>> /\ initList = <<>> /\ exit = "running"
  BY DEF ToyjscInit
<1>2. /\ argv \in Seq(Files) /\ dyn \in Seq(Names) /\ imports \in [Files -> Seq(Names)]
  BY <1>1, ToyjscAssumption
<1>3. pos \in 0..(Len(argv) + Len(dyn))
  BY <1>1, <1>2, LenProperties
<1>4. /\ stack \in Seq(Compilations) /\ cnameList \in Seq(Entries) /\ initList \in Seq(CModules)
      /\ Len(stack) = 0 /\ Len(cnameList) = 0 /\ Len(initList) = 0
  BY <1>1, EmptySeq
<1>5. TypeOK
  BY <1>1, <1>2, <1>3, <1>4 DEF TypeOK
<1>6. \A i \in 1..0 : FALSE
  OBVIOUS
<1>7. DOMAIN cnameList = 1..0 /\ ToSet(initList) = {}
  BY <1>1, <1>4, SeqFacts, ToSetFacts
<1>8. Modules
  BY <1>1, <1>4, <1>6, <1>7 DEF Modules, StackOK, Distinct, WrittenOK, WrittenOnce, ListedOnce, Accounted
<1>9. LoadedNamesUnique /\ ReachableWritten
  BY <1>6, <1>7 DEF LoadedNamesUnique, ReachableWritten
<1>. QED BY <1>5, <1>8, <1>9 DEF IInv

LEMMA StepIInv == IInv /\ [ToyjscNext]_vars => IInv'
<1>. SUFFICES ASSUME IInv, [ToyjscNext]_vars PROVE IInv'
  OBVIOUS
<1>1. CASE CompileFile
  BY <1>1, CompileFileIInv
<1>2. CASE LoadDynamic
  BY <1>2, LoadDynamicIInv
<1>3. CASE Resolve
  BY <1>3, ResolveIInv
<1>4. CASE CompileError
  BY <1>4, EndIInv DEF CompileError, Fail
<1>5. CASE OutputObjectCode
  BY <1>5, OutputIInv
<1>6. CASE Finish
  BY <1>6, EndIInv DEF Finish
<1>7. CASE UNCHANGED vars
  BY <1>7, EndIInv DEF vars, IInv, TypeOK
<1>. QED BY <1>1, <1>2, <1>3, <1>4, <1>5, <1>6, <1>7 DEF ToyjscNext

LEMMA Invariance == ToyjscSpec => []IInv
  BY InitIInv, StepIInv, PTL DEF ToyjscSpec

\* Every variable has its type, whatever the files and the options.
THEOREM TypeCorrect == ToyjscSpec => []TypeOK
<1>1. IInv => TypeOK
  BY DEF IInv
<1>. QED BY <1>1, Invariance, PTL

\* However many modules have the same base name, and whatever names they have,
\* the loader writes each under a C name of its own (find_unique_cname).
THEOREM NamesUnique == ToyjscSpec => []LoadedNamesUnique
<1>1. IInv => LoadedNamesUnique
  BY DEF IInv
<1>. QED BY <1>1, Invariance, PTL

\* For all import graphs, with cycles too, the loader compiles each module once
\* unless a -D option names it, and none inside its own compilation
\* (jsc_module_loader).
THEOREM CompiledOnce == ToyjscSpec => []LoadedOnce
<1>1. IInv => LoadedOnce
  <2>. SUFFICES ASSUME IInv PROVE LoadedOnce
    OBVIOUS
  <2>1. /\ DOMAIN cnameList = 1..Len(cnameList) /\ DOMAIN initList = 1..Len(initList)
        /\ DOMAIN stack = 1..Len(stack)
    BY SeqFacts DEF IInv, TypeOK
  <2>. QED BY <2>1 DEF IInv, Modules, WrittenOnce, ListedOnce, Distinct, LoadedOnce
<1>. QED BY <1>1, Invariance, PTL

\* For all import graphs, all that a file of the command line reaches has been
\* written or listed when the file is (jsc_module_loader, output_object_code).
THEOREM ReachedIsWritten == ToyjscSpec => []ReachableWritten
<1>1. IInv => ReachableWritten
  BY DEF IInv
<1>. QED BY <1>1, Invariance, PTL

-----------------------------------------------------------------------------
(* The loader *)

ContextModules ==
    [name : Importable \cup {BytecodeName[b] : b \in Builtins}, by : Importable,
     requests : Seq(Importable), imports : Seq(Nat), state : {"new", "evaluated"}]

Types == context \in Seq(ContextModules) /\ asks \in [Scripts -> Imported]

Named ==
    \A i \in 1..Len(context) :
        \/ context[i].name = context[i].by
        \/ context[i].by \in Builtins /\ context[i].name = BytecodeName[context[i].by]

UniqueNames ==
    \A i, j \in 1..Len(context) :
        i # j /\ context[i].name = context[j].name => context[i].name \notin Importable

\* What has been resolved so far, of what each module requests.
Links ==
    \A i \in 1..Len(context) :
        /\ context[i].name \in Scripts => context[i].requests = asks[context[i].name]
        /\ Len(context[i].imports) <= Len(context[i].requests)
        /\ \A k \in 1..Len(context[i].imports) :
             /\ context[i].imports[k] \in 1..Len(context)
             /\ context[context[i].imports[k]].by = context[i].requests[k]

Done(i) == Len(context[i].imports) = Len(context[i].requests)

InProgress ==
    step = "resolve" =>
        /\ active \in Seq(Nat) /\ active # <<>>
        /\ \A k \in 1..Len(active) : active[k] \in 1..Len(context)
        /\ \A i \in 1..Len(context) : Done(i) \/ \E k \in 1..Len(active) : active[k] = i

Complete ==
    \/ step \in {"start", "resolve", "error"} /\ ran = <<>> /\ (step = "start" => active = <<>>)
    \/ step # "resolve" /\ step # "start" /\ \A i \in 1..Len(context) : Done(i)

Instanced == Types /\ Named /\ UniqueNames /\ Links

LoadingIInv == Instanced /\ InProgress /\ Complete

-----------------------------------------------------------------------------
(* The modules that enter the context *)

\* The names that can be asked for.
LEMMA ImportableFacts ==
  /\ Builtins = {"jsmodules", "jsffi"}
  /\ ToSet(RuntimeModules) = {"std", "os", "test", "ffi", "net"}
  /\ \A b \in Builtins : b \in Importable /\ b \notin Scripts /\ BuiltinImports[b] \in Seq(Importable)
  /\ MainScript \in Scripts /\ Scripts \subseteq Importable
  /\ \A n \in ToSet(RuntimeModules) : n \in Importable /\ n \notin Scripts
  /\ \A b \in Builtins : BytecodeName[b] \in Importable => BytecodeName[b] = b
<1>1. Builtins = {"jsmodules", "jsffi"}
  BY DEF Builtins, BuiltinImports
<1>2. ToSet(RuntimeModules) = {"std", "os", "test", "ffi", "net"}
  <2>1. DOMAIN RuntimeModules = 1..5
    BY DEF RuntimeModules
  <2>2. /\ RuntimeModules[1] = "std" /\ RuntimeModules[2] = "os" /\ RuntimeModules[3] = "test"
        /\ RuntimeModules[4] = "ffi" /\ RuntimeModules[5] = "net"
    BY DEF RuntimeModules
  <2>3. \A x : x \in ToSet(RuntimeModules) <=> x \in {"std", "os", "test", "ffi", "net"}
    BY <2>1, <2>2, ToSetDef
  <2> QED
    BY <2>3
<1>3. BuiltinImports["jsmodules"] \in Seq(Importable) /\ BuiltinImports["jsffi"] \in Seq(Importable)
  BY <1>2 DEF BuiltinImports, Importable
<1> QED
  BY <1>1, <1>2, <1>3, LoadingAssumption DEF Importable

\* A module that the loader makes for the request n.
Loaded(n, m) ==
    \/ n \in Builtins /\ m = ReadBuiltin(n)
    \/ n \in Scripts /\ m = ReadScript(n)

LEMMA LoadedFacts ==
  ASSUME asks \in [Scripts -> Imported], NEW n, NEW m, Loaded(n, m)
  PROVE  /\ m \in ContextModules /\ m.by = n /\ m.imports = <<>> /\ Len(m.imports) = 0 /\ m.state = "new"
         /\ m.name = n \/ (n \in Builtins /\ m.name = BytecodeName[n])
         /\ m.name \in Importable => m.name = n
         /\ m.name \in Scripts => m.requests = asks[m.name]
<1>1. CASE n \in Builtins /\ m = ReadBuiltin(n)
  BY <1>1, ImportableFacts, EmptySeq DEF ReadBuiltin, NewModule, ContextModules
<1>2. CASE n \in Scripts /\ m = ReadScript(n)
  <2>1. asks[n] \in Seq(Importable)
    BY <1>2, LoadingAssumption
  <2> QED
    BY <1>2, <2>1, ImportableFacts, EmptySeq DEF ReadScript, NewModule, ContextModules
<1> QED
  BY <1>1, <1>2 DEF Loaded

\* A request is resolved to instance i.
LEMMA LinkedFacts ==
  ASSUME Types, NEW i \in Nat, Head(active) \in 1..Len(context)
  PROVE  /\ Linked(i) \in Seq(ContextModules) /\ Len(Linked(i)) = Len(context) /\ Len(context) \in Nat
         /\ \A j \in 1..Len(context) :
              /\ Linked(i)[j].name = context[j].name /\ Linked(i)[j].by = context[j].by
              /\ Linked(i)[j].requests = context[j].requests /\ Linked(i)[j].state = context[j].state
              /\ Linked(i)[j].imports = IF j = Head(active) THEN Append(context[j].imports, i)
                                        ELSE context[j].imports
<1>. DEFINE h == Head(active)
<1>1. Len(context) \in Nat /\ DOMAIN context = 1..Len(context) /\ \A j \in 1..Len(context) : context[j] \in ContextModules
  BY SeqFacts DEF Types
<1>2. Append(context[h].imports, i) \in Seq(Nat)
  BY <1>1, AppendFacts DEF ContextModules
<1>3. Linked(i) = [context EXCEPT ![h] = [context[h] EXCEPT !.imports = Append(context[h].imports, i)]]
  BY <1>1 DEF Linked
<1>. HIDE DEF h
<1>4. [context[h] EXCEPT !.imports = Append(context[h].imports, i)] \in ContextModules
  BY <1>1, <1>2 DEF ContextModules, h
<1>5. Linked(i) \in Seq(ContextModules) /\ Len(Linked(i)) = Len(context)
  BY <1>3, <1>4, ExceptSeq DEF Types, h
<1>6. \A j \in 1..Len(context) :
        Linked(i)[j] = IF j = h THEN [context[h] EXCEPT !.imports = Append(context[h].imports, i)]
                       ELSE context[j]
  BY <1>1, <1>3
<1> QED
  BY <1>1, <1>5, <1>6 DEF ContextModules, h

-----------------------------------------------------------------------------
(* Resolving *)

\* What is known of the request that is resolved next.
LEMMA RequestFacts ==
  ASSUME LoadingIInv, Requesting
  PROVE  /\ step = "resolve"
         /\ Head(active) \in 1..Len(context) /\ Head(active) = active[1]
         /\ Request \in Importable
         /\ Request = context[Head(active)].requests[Len(context[Head(active)].imports) + 1]
         /\ context[Head(active)] \in ContextModules
         /\ Len(context[Head(active)].imports) \in Nat
         /\ Len(context[Head(active)].imports) < Len(context[Head(active)].requests)
<1> USE DEF LoadingIInv, Instanced, Requesting, Resolving
<1>1. Head(active) = active[1] /\ Head(active) \in 1..Len(context)
  BY TailFacts DEF InProgress
<1>2. context[Head(active)] \in ContextModules
  BY <1>1, SeqFacts DEF Types
<1>. DEFINE m == context[Head(active)]
<1>3. m.imports \in Seq(Nat) /\ m.requests \in Seq(Importable) /\ Len(m.imports) < Len(m.requests)
  BY <1>2 DEF ContextModules
<1>4. Len(m.imports) \in Nat /\ Len(m.requests) \in Nat /\ m.requests[Len(m.imports) + 1] \in Importable
  BY <1>3, SeqFacts
<1> QED
  BY <1>1, <1>2, <1>3, <1>4 DEF Request

\* The module that is found has been asked for by the name it has.
LEMMA ResolveFoundIInv ==
  ASSUME LoadingIInv, Requesting, ResolveFound, UNCHANGED asks
  PROVE  LoadingIInv'
<1>1. PICK i \in Found(Request) : context' = Linked(i)
  BY DEF ResolveFound
<1>. DEFINE h == Head(active)
<1>2. /\ step = "resolve" /\ h \in 1..Len(context) /\ h = active[1]
      /\ Request \in Importable
      /\ Request = context[h].requests[Len(context[h].imports) + 1]
      /\ Len(context[h].imports) \in Nat
      /\ Len(context[h].imports) < Len(context[h].requests)
      /\ context[h].imports \in Seq(Nat) /\ Len(context[h].requests) \in Nat
  BY RequestFacts, SeqFacts DEF ContextModules
<1>3. Types /\ Named /\ UniqueNames /\ Links /\ InProgress /\ Complete
  BY DEF LoadingIInv, Instanced
<1>4. i \in 1..Len(context) /\ i \in Nat /\ context[i].name = Request
  BY <1>3, SeqFacts DEF Found, Instances, Types
<1>5. context[i].by = Request
  <2>1. \/ context[i].name = context[i].by
        \/ context[i].by \in Builtins /\ context[i].name = BytecodeName[context[i].by]
    BY <1>3, <1>4 DEF Named
  <2>2. \A b \in Builtins : BytecodeName[b] = Request => b = Request
    BY <1>2, ImportableFacts
  <2> QED
    BY <1>4, <2>1, <2>2
<1>6. /\ context' \in Seq(ContextModules) /\ Len(context') = Len(context) /\ Len(context) \in Nat
      /\ \A j \in 1..Len(context) :
           /\ context'[j].name = context[j].name /\ context'[j].by = context[j].by
           /\ context'[j].requests = context[j].requests
           /\ context'[j].imports = IF j = h THEN Append(context[j].imports, i) ELSE context[j].imports
  BY <1>1, <1>2, <1>3, <1>4, LinkedFacts
<1>. HIDE DEF h
<1>7. UNCHANGED <<step, active, ran, asks>>
  BY DEF ResolveFound
<1>8. Types'
  BY <1>3, <1>6, <1>7 DEF Types
<1>9. Named' /\ UniqueNames'
  BY <1>3, <1>6 DEF Named, UniqueNames
<1>10. Links'
  <2>1. ASSUME NEW j \in 1..Len(context)
        PROVE  /\ context'[j].name \in Scripts => context'[j].requests = asks[context'[j].name]
               /\ Len(context'[j].imports) <= Len(context'[j].requests)
               /\ \A k \in 1..Len(context'[j].imports) :
                    /\ context'[j].imports[k] \in 1..Len(context)
                    /\ context'[context'[j].imports[k]].by = context'[j].requests[k]
    <3>1. CASE j # h
      <4>1. /\ context'[j].name = context[j].name /\ context'[j].requests = context[j].requests
            /\ context'[j].imports = context[j].imports
        BY <1>6, <3>1
      <4>2. /\ context[j].name \in Scripts => context[j].requests = asks[context[j].name]
            /\ Len(context[j].imports) <= Len(context[j].requests)
            /\ \A k \in 1..Len(context[j].imports) :
                 /\ context[j].imports[k] \in 1..Len(context)
                 /\ context[context[j].imports[k]].by = context[j].requests[k]
        BY <1>3 DEF Links
      <4> QED
        BY <1>6, <4>1, <4>2
    <3>2. CASE j = h
      <4>1. /\ Len(context'[h].imports) = Len(context[h].imports) + 1
            /\ context'[h].imports[Len(context[h].imports) + 1] = i
            /\ \A k \in 1..Len(context[h].imports) : context'[h].imports[k] = context[h].imports[k]
        <5>1. context'[h].imports = Append(context[h].imports, i)
          BY <1>2, <1>6
        <5>2. context[h].imports \in Seq(Nat) /\ i \in Nat
          BY <1>2, <1>4
        <5> QED
          BY <5>1, <5>2, AppendProperties
      <4>2. context'[h].name \in Scripts => context'[h].requests = asks[context'[h].name]
        BY <1>2, <1>3, <1>6 DEF Links
      <4>3. Len(context'[h].imports) <= Len(context'[h].requests)
        BY <1>2, <1>6, <4>1
      <4>4. ASSUME NEW k \in 1..Len(context[h].imports)
            PROVE  /\ context'[h].imports[k] \in 1..Len(context)
                   /\ context'[context'[h].imports[k]].by = context'[h].requests[k]
        <5>1. /\ context[h].imports[k] \in 1..Len(context)
              /\ context[context[h].imports[k]].by = context[h].requests[k]
          BY <1>2, <1>3 DEF Links
        <5>2. context'[context[h].imports[k]].by = context[context[h].imports[k]].by
          BY <1>6, <5>1
        <5>3. context'[h].requests = context[h].requests
          BY <1>2, <1>6
        <5> QED
          BY <4>1, <5>1, <5>2, <5>3
      <4>5. /\ context'[h].imports[Len(context[h].imports) + 1] \in 1..Len(context)
            /\ context'[i].by = context'[h].requests[Len(context[h].imports) + 1]
        BY <1>2, <1>4, <1>5, <1>6, <4>1
      <4>6. \A k \in 1..Len(context'[h].imports) :
              k \in 1..Len(context[h].imports) \/ k = Len(context[h].imports) + 1
        BY <1>2, <4>1
      <4> QED
        BY <3>2, <4>1, <4>2, <4>3, <4>4, <4>5, <4>6
    <3> QED
      BY <3>1, <3>2
  <2> QED
    BY <1>6, <1>7, <2>1 DEF Links
<1>11. InProgress'
  <2>1. \A j \in 1..Len(context) : j # h => (Done(j) => Done(j)')
    BY <1>6 DEF Done
  <2>2. 1 \in 1..Len(active)
    BY <1>2, <1>3, EmptySeq DEF InProgress
  <2> QED
    BY <1>2, <1>3, <1>6, <1>7, <2>1, <2>2 DEF InProgress
<1>12. Complete'
  BY <1>2, <1>3, <1>7 DEF Complete
<1> QED
  BY <1>8, <1>9, <1>10, <1>11, <1>12 DEF LoadingIInv, Instanced

\* The loader makes a module for a request for which nothing is found.
LEMMA ModuleLoaderIInv ==
  ASSUME LoadingIInv, Requesting, ModuleLoader, UNCHANGED <<runtime, asks>>
  PROVE  LoadingIInv'
<1>. DEFINE h == Head(active)
            n == Len(context)
<1>1. PICK m : Loaded(Request, m) /\ EnterContext(m, Linked(n + 1))
  <2>1. CASE Request \in Builtins /\ EnterContext(ReadBuiltin(Request), Linked(n + 1))
    <3>1. Loaded(Request, ReadBuiltin(Request))
      BY <2>1 DEF Loaded
    <3> QED
      BY <2>1, <3>1
  <2>2. CASE Request \in Scripts /\ EnterContext(ReadScript(Request), Linked(n + 1))
    <3>1. Loaded(Request, ReadScript(Request))
      BY <2>2 DEF Loaded
    <3> QED
      BY <2>2, <3>1
  <2> QED
    BY <2>1, <2>2 DEF ModuleLoader
<1>2. /\ step = "resolve" /\ h \in 1..Len(context) /\ h = active[1]
      /\ Request \in Importable
      /\ Request = context[h].requests[Len(context[h].imports) + 1]
      /\ Len(context[h].imports) \in Nat
      /\ Len(context[h].imports) < Len(context[h].requests)
      /\ context[h].imports \in Seq(Nat) /\ Len(context[h].requests) \in Nat
  BY RequestFacts, SeqFacts DEF ContextModules
<1>3. Types /\ Named /\ UniqueNames /\ Links /\ InProgress /\ Complete
  BY DEF LoadingIInv, Instanced
<1>4. n \in Nat /\ n + 1 \in Nat /\ \A j \in 1..n : context[j].name # Request
  <2>1. n \in Nat /\ DOMAIN context = 1..n
    BY <1>3, SeqFacts DEF Types
  <2> QED
    BY <2>1 DEF ModuleLoader, Found, Instances
<1>5. /\ m \in ContextModules /\ m.by = Request /\ m.imports = <<>> /\ Len(m.imports) = 0
      /\ m.name = Request \/ (Request \in Builtins /\ m.name = BytecodeName[Request])
      /\ m.name \in Importable => m.name = Request
      /\ m.name \in Scripts => m.requests = asks[m.name]
  BY <1>1, <1>3, LoadedFacts DEF Types
<1>6. /\ context' \in Seq(ContextModules) /\ Len(context') = n + 1 /\ context'[n + 1] = m
      /\ \A j \in 1..n :
           /\ context'[j].name = context[j].name /\ context'[j].by = context[j].by
           /\ context'[j].requests = context[j].requests
           /\ context'[j].imports = IF j = h THEN Append(context[j].imports, n + 1)
                                    ELSE context[j].imports
      /\ active' = <<n + 1>> \o active
  <2>1. /\ Linked(n + 1) \in Seq(ContextModules) /\ Len(Linked(n + 1)) = n
        /\ \A j \in 1..n :
             /\ Linked(n + 1)[j].name = context[j].name /\ Linked(n + 1)[j].by = context[j].by
             /\ Linked(n + 1)[j].requests = context[j].requests
             /\ Linked(n + 1)[j].imports = IF j = h THEN Append(context[j].imports, n + 1)
                                           ELSE context[j].imports
    BY <1>2, <1>3, <1>4, LinkedFacts
  <2>2. context' = Append(Linked(n + 1), m) /\ active' = <<Len(Linked(n + 1)) + 1>> \o active
    BY <1>1 DEF EnterContext
  <2>3. /\ context' \in Seq(ContextModules) /\ Len(context') = n + 1 /\ context'[n + 1] = m
        /\ \A j \in 1..n : context'[j] = Linked(n + 1)[j]
    BY <1>5, <2>1, <2>2, AppendProperties
  <2> QED
    BY <2>1, <2>2, <2>3
<1>. HIDE DEF h, n
<1>7. UNCHANGED <<step, ran, asks>>
  BY DEF ModuleLoader
<1>8. Types'
  BY <1>3, <1>6, <1>7 DEF Types
<1>9. \A j \in 1..(n + 1) : j \in 1..n \/ j = n + 1
  BY <1>4
<1>10. Named'
  <2>1. ASSUME NEW i \in 1..(n + 1)
        PROVE  \/ context'[i].name = context'[i].by
               \/ context'[i].by \in Builtins /\ context'[i].name = BytecodeName[context'[i].by]
    <3>1. CASE i \in 1..n
      <4>1. context'[i].name = context[i].name /\ context'[i].by = context[i].by
        BY <1>6, <3>1
      <4> QED
        BY <1>3, <3>1, <4>1 DEF Named, n
    <3>2. CASE i = n + 1
      BY <1>5, <1>6, <3>2
    <3> QED
      BY <1>9, <3>1, <3>2
  <2> QED
    BY <1>6, <2>1 DEF Named
<1>11. UniqueNames'
  <2>1. ASSUME NEW i \in 1..(n + 1), NEW j \in 1..(n + 1), i # j, context'[i].name = context'[j].name
        PROVE  context'[i].name \notin Importable
    <3>0. /\ \A k \in 1..n : context'[k].name = context[k].name /\ context'[k].name # Request
          /\ context'[n + 1].name \in Importable => context'[n + 1].name = Request
      BY <1>4, <1>5, <1>6
    <3>1. CASE i \in 1..n /\ j \in 1..n
      BY <1>3, <2>1, <3>0, <3>1 DEF UniqueNames, n
    <3>2. CASE i = n + 1 /\ j \in 1..n
      BY <2>1, <3>0, <3>2
    <3>3. CASE i \in 1..n /\ j = n + 1
      BY <2>1, <3>0, <3>3
    <3> QED
      BY <1>9, <2>1, <3>1, <3>2, <3>3
  <2> QED
    BY <1>6, <2>1 DEF UniqueNames
<1>12. Links'
  <2>1. ASSUME NEW j \in 1..(n + 1)
        PROVE  /\ context'[j].name \in Scripts => context'[j].requests = asks[context'[j].name]
               /\ Len(context'[j].imports) <= Len(context'[j].requests)
               /\ \A k \in 1..Len(context'[j].imports) :
                    /\ context'[j].imports[k] \in 1..(n + 1)
                    /\ context'[context'[j].imports[k]].by = context'[j].requests[k]
    <3>1. CASE j \in 1..n /\ j # h
      <4>1. /\ context'[j].name = context[j].name /\ context'[j].requests = context[j].requests
            /\ context'[j].imports = context[j].imports
        BY <1>6, <3>1
      <4>2. /\ context[j].name \in Scripts => context[j].requests = asks[context[j].name]
            /\ Len(context[j].imports) <= Len(context[j].requests)
            /\ \A k \in 1..Len(context[j].imports) :
                 /\ context[j].imports[k] \in 1..n
                 /\ context[context[j].imports[k]].by = context[j].requests[k]
        BY <1>3, <3>1 DEF Links, n
      <4>3. \A k \in 1..Len(context[j].imports) : context[j].imports[k] \in 1..(n + 1)
        BY <1>4, <4>2
      <4>4. \A k \in 1..Len(context[j].imports) :
              context'[context[j].imports[k]].by = context[j].requests[k]
        BY <1>6, <4>2
      <4> QED
        BY <4>1, <4>2, <4>3, <4>4
    <3>2. CASE j \in 1..n /\ j = h
      <4>1. /\ Len(context'[h].imports) = Len(context[h].imports) + 1
            /\ context'[h].imports[Len(context[h].imports) + 1] = n + 1
            /\ \A k \in 1..Len(context[h].imports) : context'[h].imports[k] = context[h].imports[k]
        <5>1. context'[h].imports = Append(context[h].imports, n + 1)
          BY <1>6, <3>2
        <5>2. context[h].imports \in Seq(Nat) /\ n + 1 \in Nat
          BY <1>2, <1>4
        <5> QED
          BY <5>1, <5>2, AppendProperties
      <4>2. context'[h].name \in Scripts => context'[h].requests = asks[context'[h].name]
        BY <1>3, <1>6, <3>2 DEF Links, n
      <4>3. Len(context'[h].imports) <= Len(context'[h].requests)
        BY <1>2, <1>6, <3>2, <4>1
      <4>4. ASSUME NEW k \in 1..Len(context[h].imports)
            PROVE  /\ context'[h].imports[k] \in 1..(n + 1)
                   /\ context'[context'[h].imports[k]].by = context'[h].requests[k]
        <5>1. /\ context[h].imports[k] \in 1..n
              /\ context[context[h].imports[k]].by = context[h].requests[k]
          BY <1>3, <3>2 DEF Links, n
        <5>2. context[h].imports[k] \in 1..(n + 1)
          BY <1>4, <5>1
        <5>3. context'[context[h].imports[k]].by = context[context[h].imports[k]].by
          BY <1>6, <5>1
        <5>4. context'[h].requests = context[h].requests
          BY <1>6, <3>2
        <5> QED
          BY <4>1, <5>1, <5>2, <5>3, <5>4
      <4>5. /\ context'[h].imports[Len(context[h].imports) + 1] \in 1..(n + 1)
            /\ context'[n + 1].by = context'[h].requests[Len(context[h].imports) + 1]
        <5>1. context'[h].requests = context[h].requests
          BY <1>6, <3>2
        <5>2. context'[n + 1].by = Request /\ n + 1 \in 1..(n + 1)
          BY <1>4, <1>5, <1>6
        <5> QED
          BY <1>2, <4>1, <5>1, <5>2
      <4>6. \A k \in 1..Len(context'[h].imports) :
              k \in 1..Len(context[h].imports) \/ k = Len(context[h].imports) + 1
        BY <1>2, <4>1
      <4> QED
        BY <3>2, <4>1, <4>2, <4>3, <4>4, <4>5, <4>6
    <3>3. CASE j = n + 1
      <4>1. Len(m.requests) \in Nat
        BY <1>5, SeqFacts DEF ContextModules
      <4> QED
        BY <1>5, <1>6, <3>3, <4>1
    <3> QED
      BY <1>9, <3>1, <3>2, <3>3
  <2> QED
    BY <1>6, <1>7, <2>1 DEF Links
<1>13. InProgress'
  <2>1. active \in Seq(Nat) /\ active # <<>> /\ Len(active) \in Nat \ {0}
    BY <1>2, <1>3, EmptySeq DEF InProgress
  <2>2. /\ active' \in Seq(Nat) /\ active' # <<>> /\ active'[1] = n + 1
        /\ Len(active') = Len(active) + 1
        /\ \A k \in 1..Len(active) : active'[k + 1] = active[k]
    BY <1>4, <1>6, <2>1, ConsFacts, LenProperties
  <2>3. ASSUME NEW k \in 1..Len(active')
        PROVE  active'[k] \in 1..(n + 1)
    <3>1. CASE k = 1
      BY <1>4, <2>2, <3>1
    <3>2. CASE k # 1
      <4>1. k - 1 \in 1..Len(active) /\ active'[k] = active[k - 1]
        BY <2>1, <2>2, <3>2
      <4>2. active[k - 1] \in 1..n
        BY <1>2, <1>3, <4>1 DEF InProgress, n
      <4> QED
        BY <1>4, <4>1, <4>2
    <3> QED
      BY <3>1, <3>2
  <2>4. ASSUME NEW i \in 1..(n + 1)
        PROVE  Done(i)' \/ \E k \in 1..Len(active') : active'[k] = i
    <3>1. CASE i = n + 1
      BY <2>1, <2>2, <3>1
    <3>2. CASE i \in 1..n /\ Done(i) /\ i # h
      BY <1>6, <3>2 DEF Done
    <3>3. CASE i \in 1..n /\ \E k \in 1..Len(active) : active[k] = i
      <4>1. PICK k \in 1..Len(active) : active[k] = i
        BY <3>3
      <4> QED
        <5>1. k + 1 \in 1..Len(active') /\ active'[k + 1] = i
          BY <2>1, <2>2, <4>1
        <5> QED
          BY <5>1
    <3>4. CASE i = h
      <4>1. 1 \in 1..Len(active) /\ 1 + 1 \in 1..Len(active')
        BY <2>1, <2>2
      <4>2. active'[1 + 1] = h
        BY <1>2, <2>2, <4>1
      <4> QED
        BY <3>4, <4>1, <4>2
    <3> QED
      BY <1>2, <1>3, <1>9, <3>1, <3>2, <3>3, <3>4 DEF InProgress, n
  <2> QED
    BY <1>6, <2>2, <2>3, <2>4 DEF InProgress
<1>14. Complete'
  BY <1>2, <1>3, <1>7 DEF Complete
<1> QED
  BY <1>8, <1>10, <1>11, <1>12, <1>13, <1>14 DEF LoadingIInv, Instanced

\* The innermost module is complete, and evaluation begins only when it is the
\* last.
LEMMA ImportsResolvedIInv ==
  ASSUME LoadingIInv, ImportsResolved
  PROVE  LoadingIInv'
<1> USE DEF LoadingIInv, Instanced
<1>1. UNCHANGED <<asks, context, ran>> /\ step = "resolve" /\ active # <<>> /\ ~Requesting
  BY DEF ImportsResolved, Resolving
<1>2. /\ active \in Seq(Nat) /\ Len(active) \in Nat \ {0} /\ Head(active) = active[1]
      /\ Tail(active) \in Seq(Nat) /\ Len(Tail(active)) = Len(active) - 1
      /\ \A k \in 1..(Len(active) - 1) : Tail(active)[k] = active[k + 1]
  <2>1. active \in Seq(Nat)
    BY <1>1 DEF InProgress
  <2> QED
    BY <1>1, <2>1, TailFacts, LenProperties
<1>3. Head(active) \in 1..Len(context) /\ Done(Head(active))
  <2>1. Head(active) \in 1..Len(context)
    BY <1>1, <1>2 DEF InProgress
  <2>2. Len(context[Head(active)].imports) \in Nat /\ Len(context[Head(active)].requests) \in Nat
    BY <2>1, SeqFacts DEF Types, ContextModules
  <2>3. Len(context[Head(active)].imports) <= Len(context[Head(active)].requests)
    BY <2>1 DEF Links
  <2> QED
    BY <1>1, <2>1, <2>2, <2>3 DEF Requesting, Resolving, Done
<1>4. Types' /\ Named' /\ UniqueNames' /\ Links'
  BY <1>1 DEF Types, Named, UniqueNames, Links
<1>5. CASE Len(active) > 1
  <2>1. active' = Tail(active) /\ step' = step
    BY <1>5 DEF ImportsResolved
  <2>2. active' # <<>>
    <3>1. Len(active') = Len(active) - 1
      BY <1>2, <2>1
    <3>2. Len(active) - 1 # 0
      <4>1. Len(active) \in Nat
        BY <1>2
      <4>2. \A l \in Nat : l > 1 => l - 1 # 0
        OBVIOUS
      <4> QED
        BY <1>5, <4>1, <4>2
    <3>3. Len(active') # 0
      BY <3>1, <3>2
    <3> QED
      BY <3>3, EmptySeq
  <2>3. \A k \in 1..Len(active') : active'[k] \in 1..Len(context)
    <3>1. \A k \in 1..(Len(active) - 1) : k + 1 \in 1..Len(active)
      BY <1>2
    <3> QED
      BY <1>1, <1>2, <2>1, <3>1 DEF InProgress
  <2>4. ASSUME NEW i \in 1..Len(context), ~Done(i)
        PROVE  \E k \in 1..Len(active') : active'[k] = i
    <3>1. PICK k \in 1..Len(active) : active[k] = i
      BY <1>1, <2>4 DEF InProgress
    <3>2. k # 1
      BY <1>2, <1>3, <2>4, <3>1
    <3>3. k - 1 \in 1..Len(active') /\ active'[k - 1] = active[k]
      BY <1>2, <2>1, <3>2
    <3> QED
      BY <3>1, <3>3
  <2>5. InProgress'
    BY <1>1, <1>2, <2>1, <2>2, <2>3, <2>4 DEF InProgress, Done
  <2>6. Complete'
    BY <1>1, <2>1 DEF Complete
  <2> QED
    BY <1>4, <2>5, <2>6
<1>6. CASE ~(Len(active) > 1)
  <2>1. step' = "evaluate" /\ Len(active) = 1
    BY <1>2, <1>6 DEF ImportsResolved
  <2>2. \A i \in 1..Len(context) : Done(i)
    BY <1>1, <1>2, <1>3, <2>1 DEF InProgress
  <2>3. InProgress' /\ Complete'
    BY <1>1, <2>1, <2>2 DEF InProgress, Complete, Done
  <2> QED
    BY <1>4, <2>3
<1> QED
  BY <1>5, <1>6

-----------------------------------------------------------------------------
(* The beginning, and evaluation *)

\* The modules in C have names of their own, which no script has.
LEMMA CModuleFacts ==
  ASSUME NEW cs \in {RuntimeModules, OldRuntimeModules}
  PROVE  /\ DOMAIN cs = 1..Len(cs) /\ Len(cs) \in Nat
         /\ \A i \in 1..Len(cs) : cs[i] \in Importable /\ cs[i] \notin Scripts
         /\ \A i, j \in 1..Len(cs) : i # j => cs[i] # cs[j]
<1>1. CASE cs = RuntimeModules
  <2>1. Len(cs) = 5 /\ DOMAIN cs = 1..5
    BY <1>1 DEF RuntimeModules
  <2>2. cs[1] = "std" /\ cs[2] = "os" /\ cs[3] = "test" /\ cs[4] = "ffi" /\ cs[5] = "net"
    BY <1>1 DEF RuntimeModules
  <2>3. \A i \in 1..5 : i = 1 \/ i = 2 \/ i = 3 \/ i = 4 \/ i = 5
    OBVIOUS
  <2>4. \A i \in 1..5 : cs[i] \in ToSet(RuntimeModules)
    BY <2>2, <2>3, ImportableFacts
  <2>5. \A i, j \in 1..5 : i # j => cs[i] # cs[j]
    BY <2>2, <2>3
  <2> QED
    BY <2>1, <2>4, <2>5, ImportableFacts
<1>2. CASE cs = OldRuntimeModules
  <2>1. Len(cs) = 3 /\ DOMAIN cs = 1..3
    BY <1>2 DEF OldRuntimeModules
  <2>2. cs[1] = "std" /\ cs[2] = "os" /\ cs[3] = "test"
    BY <1>2 DEF OldRuntimeModules
  <2>3. \A i \in 1..3 : i = 1 \/ i = 2 \/ i = 3
    OBVIOUS
  <2>4. \A i \in 1..3 : cs[i] \in ToSet(RuntimeModules)
    BY <2>2, <2>3, ImportableFacts
  <2>5. \A i, j \in 1..3 : i # j => cs[i] # cs[j]
    BY <2>2, <2>3
  <2> QED
    BY <2>1, <2>4, <2>5, ImportableFacts
<1> QED
  BY <1>1, <1>2

LEMMA StartIInv ==
  ASSUME LoadingIInv, NEW cs \in {RuntimeModules, OldRuntimeModules}, Start(cs)
  PROVE  LoadingIInv'
<1>. DEFINE below == [i \in DOMAIN cs |-> NewCModule(cs[i])]
            n == Len(cs)
            m == ReadScript(MainScript)
<1>1. /\ DOMAIN cs = 1..n /\ n \in Nat
      /\ \A i \in 1..n : cs[i] \in Importable /\ cs[i] \notin Scripts
      /\ \A i, j \in 1..n : i # j => cs[i] # cs[j]
  BY CModuleFacts
<1>2. /\ step = "start" /\ step' = "resolve" /\ UNCHANGED <<asks, ran>>
      /\ context' = Append(below, m) /\ active' = <<Len(below) + 1>> \o active
  BY DEF Start, EnterContext
<1>3. Types /\ Complete
  BY DEF LoadingIInv, Instanced
<1>4. active = <<>> /\ ran = <<>>
  BY <1>2, <1>3 DEF Complete
<1>5. /\ m \in ContextModules /\ m.by = MainScript /\ m.name = MainScript /\ MainScript \in Scripts
      /\ m.imports = <<>> /\ Len(m.imports) = 0 /\ m.requests = asks[MainScript]
  <2>1. Loaded(MainScript, m)
    BY ImportableFacts DEF Loaded
  <2>2. MainScript \notin Builtins
    BY ImportableFacts
  <2> QED
    BY <1>3, <2>1, <2>2, ImportableFacts, LoadedFacts DEF Types
<1>6. \A i \in 1..n :
        /\ below[i] \in ContextModules /\ below[i].name = cs[i] /\ below[i].by = cs[i]
        /\ below[i].imports = <<>> /\ below[i].requests = <<>>
  BY <1>1, EmptySeq DEF NewCModule, NewModule, ContextModules
<1>7. below \in Seq(ContextModules) /\ Len(below) = n
  <2>1. below \in [1..n -> ContextModules]
    BY <1>1, <1>6
  <2> QED
    BY <1>1, <2>1, SeqDef, LenProperties
<1>. HIDE DEF m, below
<1>8. /\ context' \in Seq(ContextModules) /\ Len(context') = n + 1 /\ context'[n + 1] = m
      /\ \A i \in 1..n : context'[i] = below[i]
  BY <1>1, <1>2, <1>5, <1>7, AppendProperties
<1>. HIDE DEF n
<1>9. \A i \in 1..(n + 1) : i \in 1..n \/ i = n + 1
  BY <1>1
<1>10. \A i \in 1..(n + 1) :
        /\ context'[i].name = context'[i].by /\ Len(context'[i].imports) = 0
        /\ context'[i].name \in Scripts => i = n + 1
  BY <1>1, <1>5, <1>6, <1>8, <1>9, EmptySeq
<1>11. \A i \in 1..n : Len(context'[i].imports) = Len(context'[i].requests)
  BY <1>6, <1>8
<1>12. Types' /\ Named'
  BY <1>2, <1>3, <1>8, <1>10 DEF Types, Named
<1>13. UniqueNames'
  BY <1>1, <1>5, <1>6, <1>8, <1>9 DEF UniqueNames
<1>14. Links'
  <2>1. ASSUME NEW i \in 1..(n + 1)
        PROVE  /\ context'[i].name \in Scripts => context'[i].requests = asks[context'[i].name]
               /\ Len(context'[i].imports) <= Len(context'[i].requests)
               /\ Len(context'[i].imports) = 0
    <3>1. context'[i].requests \in Seq(Importable)
      <4>1. context'[i] \in ContextModules
        BY <1>5, <1>6, <1>8, <1>9
      <4> QED
        BY <4>1 DEF ContextModules
    <3>2. Len(context'[i].requests) \in Nat
      BY <3>1, LenProperties
    <3> QED
      BY <1>5, <1>8, <1>10, <3>2
  <2>2. \A k \in 1..0 : FALSE
    OBVIOUS
  <2> QED
    BY <1>2, <1>8, <2>1, <2>2 DEF Links
<1>15. InProgress'
  <2>1. active' = <<n + 1>> \o <<>> /\ n + 1 \in Nat /\ <<>> \in Seq(Nat) /\ Len(<<>>) = 0
    BY <1>1, <1>2, <1>4, <1>7, EmptySeq
  <2>2. active' \in Seq(Nat) /\ active' # <<>> /\ active'[1] = n + 1 /\ DOMAIN active' = 1..1
    BY <2>1, ConsFacts
  <2>3. Len(active') = 1
    BY <2>2, LenProperties
  <2>4. \A k \in 1..1 : k = 1
    OBVIOUS
  <2>5. n + 1 \in 1..(n + 1) /\ 1 \in 1..1
    BY <1>1
  <2> QED
    BY <1>8, <1>9, <1>11, <2>2, <2>3, <2>4, <2>5 DEF InProgress, Done
<1>16. Complete'
  BY <1>2, <1>4 DEF Complete
<1> QED
  BY <1>12, <1>13, <1>14, <1>15, <1>16 DEF LoadingIInv, Instanced

\* Running the code of a module changes only its state.
LEMMA RunModuleIInv ==
  ASSUME LoadingIInv, RunModule
  PROVE  LoadingIInv'
<1>. DEFINE h == Head(active)
<1>1. /\ step = "evaluate" /\ UNCHANGED <<asks, step>>
      /\ context' = [context EXCEPT ![h].state = "evaluated"]
  BY DEF RunModule
<1>. HIDE DEF h
<1>2. Types /\ Named /\ UniqueNames /\ Links /\ Complete
  BY DEF LoadingIInv, Instanced
<1>3. /\ Len(context) \in Nat /\ DOMAIN context = 1..Len(context)
      /\ \A i \in 1..Len(context) : context[i] \in ContextModules
  BY <1>2, SeqFacts DEF Types
<1>4. context' \in Seq(ContextModules) /\ Len(context') = Len(context)
  <2>1. CASE h \in 1..Len(context)
    <3>1. [context[h] EXCEPT !.state = "evaluated"] \in ContextModules
      BY <1>3, <2>1 DEF ContextModules
    <3>2. context' = [context EXCEPT ![h] = [context[h] EXCEPT !.state = "evaluated"]]
      BY <1>1
    <3> QED
      BY <1>2, <2>1, <3>1, <3>2, ExceptSeq DEF Types
  <2>2. CASE h \notin 1..Len(context)
    <3>1. context' \in [1..Len(context) -> ContextModules]
      BY <1>1, <1>3, <2>2
    <3>2. context' \in Seq(ContextModules)
      BY <1>3, <3>1, SeqDef
    <3>3. DOMAIN context' = 1..Len(context)
      BY <3>1
    <3> QED
      BY <1>3, <3>2, <3>3, LenProperties
  <2> QED
    BY <2>1, <2>2
<1>5. \A i \in 1..Len(context) :
        /\ context'[i].name = context[i].name /\ context'[i].by = context[i].by
        /\ context'[i].requests = context[i].requests /\ context'[i].imports = context[i].imports
  BY <1>1, <1>3 DEF ContextModules
<1>6. Types' /\ Named' /\ UniqueNames'
  BY <1>1, <1>2, <1>4, <1>5 DEF Types, Named, UniqueNames
<1>7. Links'
  <2>1. \A i \in 1..Len(context) : \A k \in 1..Len(context[i].imports) :
          context'[context[i].imports[k]].by = context[context[i].imports[k]].by
    BY <1>2, <1>5 DEF Links
  <2> QED
    BY <1>1, <1>2, <1>4, <1>5, <2>1 DEF Links
<1>8. Complete' /\ InProgress'
  BY <1>1, <1>2, <1>4, <1>5 DEF Complete, InProgress, Done
<1> QED
  BY <1>6, <1>7, <1>8 DEF LoadingIInv, Instanced

\* The other steps leave the context alone; one that fails ends the resolving.
LEMMA ContextKept ==
  ASSUME LoadingIInv, UNCHANGED <<asks, context>>,
         \/ UNCHANGED loadingVars
         \/ UNCHANGED ran /\ step' = "error" /\ step \in {"start", "resolve"}
         \/ step = "evaluate" /\ step' \in {"evaluate", "uv_run", "exit", "error"}
  PROVE  LoadingIInv'
<1>1. Types' /\ Named' /\ UniqueNames' /\ Links'
  BY DEF LoadingIInv, Instanced, Types, Named, UniqueNames, Links
<1>2. InProgress' /\ Complete'
  BY DEF LoadingIInv, InProgress, Complete, Done, loadingVars
<1> QED
  BY <1>1, <1>2 DEF LoadingIInv, Instanced

-----------------------------------------------------------------------------
(* The theorems *)

LEMMA InitLoadingIInv == LoadingInit => LoadingIInv
<1>1. LoadingInit => Types
  BY EmptySeq DEF LoadingInit, Types
<1>2. LoadingInit => Len(context) = 0
  BY EmptySeq DEF LoadingInit
<1>3. \A k \in 1..0 : FALSE
  OBVIOUS
<1>4. LoadingInit => Named /\ UniqueNames /\ Links
  BY <1>2, <1>3 DEF Named, UniqueNames, Links
<1>5. LoadingInit => InProgress /\ Complete
  BY DEF LoadingInit, InProgress, Complete
<1> QED
  BY <1>1, <1>4, <1>5 DEF LoadingIInv, Instanced

LEMMA StepLoadingIInv == LoadingIInv /\ [LoadingNext]_loadingVars => LoadingIInv'
<1>. SUFFICES ASSUME LoadingIInv, [LoadingNext]_loadingVars
              PROVE  LoadingIInv'
  OBVIOUS
<1>1. CASE RuntimeStart
  BY <1>1, StartIInv DEF RuntimeStart
<1>2. CASE OldRuntimeStart
  BY <1>2, StartIInv DEF OldRuntimeStart
<1>3. CASE MainFileFails
  BY <1>3, ContextKept DEF MainFileFails, LoadingFails
<1>4. CASE ResolveImport
  <2>1. Requesting /\ step = "resolve" /\ UNCHANGED <<runtime, asks>>
    BY <1>4, RequestFacts DEF ResolveImport
  <2>2. CASE ResolveFound
    BY <2>1, <2>2, ResolveFoundIInv
  <2>3. CASE ModuleLoader
    BY <2>1, <2>3, ModuleLoaderIInv
  <2>4. CASE LoaderFails
    BY <2>1, <2>4, ContextKept DEF LoaderFails, LoadingFails
  <2> QED
    BY <1>4, <2>2, <2>3, <2>4 DEF ResolveImport
<1>5. CASE ImportsResolved
  BY <1>5, ImportsResolvedIInv
<1>6. CASE EvaluateImport
  BY <1>6, ContextKept DEF EvaluateImport
<1>7. CASE RunModule
  BY <1>7, RunModuleIInv
<1>8. CASE ScriptThrows
  BY <1>8, ContextKept DEF ScriptThrows
<1>9. CASE EnterLoop \/ OldRuntimeEnds
  BY <1>9, ContextKept DEF EnterLoop, OldRuntimeEnds
<1>10. CASE UNCHANGED loadingVars
  BY <1>10, ContextKept DEF loadingVars
<1> QED
  BY <1>1, <1>2, <1>3, <1>4, <1>5, <1>6, <1>7, <1>8, <1>9, <1>10 DEF LoadingNext

LEMMA LoadingInvariance == LoadingSpec => []LoadingIInv
  BY InitLoadingIInv, StepLoadingIInv, PTL DEF LoadingSpec

\* For all import graphs, and for all names in the bytecode, one instance answers
\* to each name that is asked for, but for a bundle of another name
\* (js_cutome_module_loader).
THEOREM InstancesShared == LoadingSpec => []OneInstance
<1>1. LoadingIInv => OneInstance
  <2>. SUFFICES ASSUME LoadingIInv, NEW i \in Instances, NEW j \in Instances,
                       i # j, context[i].by = context[j].by
                PROVE  context[i].by \in Builtins /\ BytecodeName[context[i].by] # context[i].by
    BY DEF OneInstance
  <2>1. /\ i \in 1..Len(context) /\ j \in 1..Len(context)
        /\ context[i] \in ContextModules /\ context[j] \in ContextModules
    BY SeqFacts DEF LoadingIInv, Instanced, Types, Instances
  <2>2. context[i].by \in Importable
    BY <2>1 DEF ContextModules
  <2>3. /\ \/ context[i].name = context[i].by
           \/ context[i].by \in Builtins /\ context[i].name = BytecodeName[context[i].by]
        /\ \/ context[j].name = context[j].by
           \/ context[j].by \in Builtins /\ context[j].name = BytecodeName[context[j].by]
        /\ context[i].name = context[j].name => context[i].name \notin Importable
    BY <2>1 DEF LoadingIInv, Instanced, Named, UniqueNames
  <2> QED
    BY <2>2, <2>3
<1> QED
  BY <1>1, LoadingInvariance, PTL

\* For all import graphs, a module whose code runs has been linked, name by name,
\* and so have all the others (eval_buf).
THEOREM LinkedBeforeRun == LoadingSpec => []AllOrNothing
<1>1. LoadingIInv => AllOrNothing
  <2>. SUFFICES ASSUME LoadingIInv, ran # <<>>, NEW i \in Instances
                PROVE  /\ context[i].name \in Scripts => context[i].requests = asks[context[i].name]
                       /\ Len(context[i].imports) = Len(context[i].requests)
                       /\ \A k \in DOMAIN context[i].imports :
                            context[context[i].imports[k]].by = context[i].requests[k]
    BY DEF AllOrNothing
  <2>1. i \in 1..Len(context) /\ context[i] \in ContextModules
    BY SeqFacts DEF LoadingIInv, Instanced, Types, Instances
  <2>2. DOMAIN context[i].imports = 1..Len(context[i].imports)
    <3>1. context[i].imports \in Seq(Nat)
      BY <2>1 DEF ContextModules
    <3> QED
      BY <3>1, SeqFacts
  <2>3. Len(context[i].imports) = Len(context[i].requests)
    BY <2>1 DEF LoadingIInv, Complete, Done
  <2> QED
    BY <2>1, <2>2, <2>3 DEF LoadingIInv, Instanced, Links
<1> QED
  BY <1>1, LoadingInvariance, PTL

-----------------------------------------------------------------------------
(* The order of evaluation.  While modules are evaluated, those in progress are
   distinct, none of them has run, and each is imported by the one below it
   (Actives, Evaluating); what is evaluated has run once (Ran).  A module runs
   when each of its imports is evaluated or in progress, and from one that is in
   progress a chain of imports leads back to it (Ordered). *)

\* The modules in progress are instances, each once.
Actives ==
    /\ active \in Seq(Nat)
    /\ \A k \in 1..Len(active) : active[k] \in 1..Len(context)
    /\ \A k, l \in 1..Len(active) : active[k] = active[l] => k = l

\* What is being evaluated has not run, and is imported by what waits for it.
Evaluating ==
    step = "evaluate" =>
        \A k \in 1..Len(active) :
            /\ context[active[k]].state = "new"
            /\ k < Len(active) => active[k] \in ToSet(context[active[k + 1]].imports)

\* What is evaluated has run, once.
Ran ==
    /\ ran \in Seq(Nat)
    /\ \A p \in 1..Len(ran) : ran[p] \in 1..Len(context)
    /\ \A p, q \in 1..Len(ran) : ran[p] = ran[q] => p = q
    /\ \A i \in 1..Len(context) : context[i].state = "evaluated" => \E p \in 1..Len(ran) : ran[p] = i
    /\ step = "evaluate" => \A p \in 1..Len(ran) : context[ran[p]].state = "evaluated"

\* q holds instances from x on, each an import of the next, up to i.
Chain(q, m, x, i) ==
    /\ m \in Nat \ {0} /\ m <= Len(context) /\ q[1] = x /\ q[m] = i
    /\ \A k \in 1..m : q[k] \in 1..Len(context)
    /\ \A k \in 1..(m - 1) : q[k] \in ToSet(context[q[k + 1]].imports)

\* An import has run before, or waited for what imports it.
Ordered ==
    \A p \in 1..Len(ran) : \A i \in ToSet(context[ran[p]].imports) :
        \/ \E b \in 1..(p - 1) : ran[b] = i
        \/ \E q, m : Chain(q, m, ran[p], i)

Evaluation == Actives /\ Evaluating /\ Ran /\ Ordered

\* Before the first module is evaluated.
LEMMA NothingRan ==
  ASSUME ran' = <<>>, step' # "evaluate", Actives', \A i \in 1..Len(context') : context'[i].state # "evaluated"
  PROVE  Evaluation'
<1>1. Len(ran') = 0 /\ ran' \in Seq(Nat) /\ \A p \in 1..0 : FALSE
  BY EmptySeq
<1>2. Ran' /\ Ordered' /\ Evaluating'
  BY <1>1 DEF Ran, Ordered, Evaluating
<1>. QED BY <1>2 DEF Evaluation

\* No more distinct instances are in progress than there are.
LEMMA ActivesFit ==
  ASSUME Actives, Len(context) \in Nat
  PROVE  Len(active) \in Nat /\ Len(active) <= Len(context)
<1>. DEFINE S == 1..Len(context)
<1>1. Len(active) \in Nat
  BY SeqFacts DEF Actives
<1>2. active \in Seq(S)
  <2>1. active \in [1..Len(active) -> S]
    BY <1>1, SeqDef, LenProperties DEF Actives
  <2>. QED BY <1>1, <2>1, SeqDef
<1>3. IsFiniteSet(S) /\ Cardinality(S) = Len(context)
  <2>1. \A n \in Nat : IsFiniteSet(1..n) /\ Cardinality(1..n) = IF 1 > n THEN 0 ELSE (n - 1) + 1
    BY FS_Interval
  <2>2. \A n \in Nat : (IF 1 > n THEN 0 ELSE (n - 1) + 1) = n
    OBVIOUS
  <2>. QED BY <2>1, <2>2
<1>4. \A k, l \in 1..Len(active) : active[k] = active[l] => k = l
  BY DEF Actives
<1>. HIDE DEF S
<1>5. Len(active) <= Cardinality(S)
  BY <1>2, <1>3, <1>4, DistinctLength
<1>. QED BY <1>1, <1>3, <1>5

LEMMA StartEvaluation ==
  ASSUME LoadingIInv, NEW cs \in {RuntimeModules, OldRuntimeModules}, Start(cs)
  PROVE  Evaluation'
<1>. DEFINE below == [i \in DOMAIN cs |-> NewCModule(cs[i])]
            n == Len(cs)
            m == ReadScript(MainScript)
<1>1. DOMAIN cs = 1..n /\ n \in Nat
  BY CModuleFacts
<1>2. /\ step = "start" /\ step' = "resolve" /\ ran' = ran /\ active = <<>> /\ ran = <<>>
      /\ context' = Append(below, m) /\ active' = <<Len(below) + 1>> \o active
  BY DEF Start, EnterContext, LoadingIInv, Complete
<1>3. m.state = "new" /\ \A i \in 1..n : below[i].state = "new"
  BY <1>1 DEF ReadScript, NewCModule, NewModule
<1>4. below \in [1..n -> {below[i] : i \in 1..n}]
  BY <1>1
<1>. DEFINE S == {below[i] : i \in 1..n} \cup {m}
<1>5. below \in Seq(S) /\ Len(below) = n
  <2>1. below \in [1..n -> S]
    BY <1>4
  <2>. HIDE DEF below, S
  <2>. QED BY <1>1, <2>1, SeqDef, LenProperties
<1>6. m \in S
  OBVIOUS
<1>. HIDE DEF below, m, S, n
<1>7. Len(context') = n + 1 /\ context'[n + 1] = m /\ \A i \in 1..n : context'[i] = below[i]
  BY <1>2, <1>5, <1>6, AppendProperties
<1>8. \A i \in 1..(n + 1) : i \in 1..n \/ i = n + 1
  BY <1>1
<1>9. \A i \in 1..(n + 1) : context'[i].state # "evaluated"
  BY <1>3, <1>7, <1>8
<1>10. Actives'
  <2>1. active' = <<n + 1>> \o <<>> /\ n + 1 \in Nat /\ <<>> \in Seq(Nat) /\ Len(<<>>) = 0
    BY <1>1, <1>2, <1>5, EmptySeq
  <2>2. active' \in Seq(Nat) /\ active'[1] = n + 1 /\ DOMAIN active' = 1..1
    BY <2>1, ConsFacts
  <2>3. Len(active') = 1
    BY <2>2, LenProperties
  <2>4. \A k \in 1..1 : k = 1
    OBVIOUS
  <2>5. n + 1 \in 1..(n + 1)
    BY <1>1
  <2>. QED BY <1>7, <2>2, <2>3, <2>4, <2>5 DEF Actives
<1>. QED BY <1>2, <1>7, <1>9, <1>10, NothingRan

\* Nothing has run while imports are resolved.
LEMMA NoneEvaluated ==
  ASSUME LoadingIInv, Evaluation, step \in {"start", "resolve"}
  PROVE  ran = <<>> /\ \A i \in 1..Len(context) : context[i].state # "evaluated"
<1>1. ran = <<>>
  BY DEF LoadingIInv, Complete
<1>2. \A p \in 1..Len(ran) : FALSE
  BY <1>1, EmptySeq
<1>. QED BY <1>1, <1>2 DEF Evaluation, Ran

LEMMA ResolveEvaluation ==
  ASSUME LoadingIInv, Evaluation, Requesting, ResolveFound \/ ModuleLoader
  PROVE  Evaluation'
<1>1. /\ step = "resolve" /\ step' = step /\ ran' = ran
      /\ Head(active) \in 1..Len(context) /\ Types
  BY RequestFacts DEF ResolveFound, ModuleLoader, LoadingIInv, Instanced
<1>2. ran = <<>> /\ \A i \in 1..Len(context) : context[i].state # "evaluated"
  BY <1>1, NoneEvaluated
<1>3. Len(context) \in Nat /\ DOMAIN context = 1..Len(context)
  BY <1>1, SeqFacts DEF Types
<1>4. ASSUME NEW i \in Nat
      PROVE  /\ Linked(i) \in Seq(ContextModules) /\ Len(Linked(i)) = Len(context)
             /\ \A j \in 1..Len(context) : Linked(i)[j].state # "evaluated"
  BY <1>1, <1>2, LinkedFacts
<1>5. CASE ResolveFound
  <2>1. PICK i \in Found(Request) : context' = Linked(i)
    BY <1>5 DEF ResolveFound
  <2>2. i \in Nat
    BY <1>3 DEF Found, Instances
  <2>3. Len(context') = Len(context) /\ \A j \in 1..Len(context) : context'[j].state # "evaluated"
    BY <1>4, <2>1, <2>2
  <2>4. active' = active
    BY <1>5 DEF ResolveFound
  <2>5. Actives'
    BY <2>3, <2>4 DEF Evaluation, Actives
  <2>. QED BY <1>1, <1>2, <2>3, <2>5, NothingRan
<1>6. CASE ModuleLoader
  <2>. DEFINE n == Len(context)
  <2>1. n + 1 \in Nat
    BY <1>3
  <2>2. PICK m : Loaded(Request, m) /\ EnterContext(m, Linked(n + 1))
    BY <1>6 DEF ModuleLoader, Loaded
  <2>3. m \in ContextModules /\ m.state = "new"
    BY <1>1, <2>2, LoadedFacts DEF Types
  <2>4. /\ Linked(n + 1) \in Seq(ContextModules) /\ Len(Linked(n + 1)) = n
        /\ \A j \in 1..n : Linked(n + 1)[j].state # "evaluated"
    BY <1>4, <2>1
  <2>. HIDE DEF n
  <2>5. context' = Append(Linked(n + 1), m) /\ active' = <<n + 1>> \o active
    BY <2>2, <2>4 DEF EnterContext
  <2>6. Len(context') = n + 1 /\ context'[n + 1] = m /\ \A j \in 1..n : context'[j] = Linked(n + 1)[j]
    BY <2>3, <2>4, <2>5, AppendProperties
  <2>7. \A j \in 1..(n + 1) : j \in 1..n \/ j = n + 1
    BY <1>3 DEF n
  <2>8. \A j \in 1..(n + 1) : context'[j].state # "evaluated"
    BY <2>3, <2>4, <2>6, <2>7
  <2>9. Actives'
    <3>1. active \in Seq(Nat) /\ Len(active) \in Nat
      BY SeqFacts DEF Evaluation, Actives
    <3>2. /\ active' \in Seq(Nat) /\ active'[1] = n + 1 /\ DOMAIN active' = 1..(Len(active) + 1)
          /\ \A k \in 2..(Len(active) + 1) : active'[k] = active[k - 1]
      BY <2>1, <2>5, <3>1, ConsFacts DEF n
    <3>3. Len(active') = Len(active) + 1
      BY <3>1, <3>2, LenProperties
    <3>4. \A k \in 1..(Len(active) + 1) : k = 1 \/ (k \in 2..(Len(active) + 1) /\ k - 1 \in 1..Len(active))
      BY <3>1
    <3>5. /\ \A k \in 1..Len(active) : active[k] \in 1..n
          /\ \A k, l \in 1..Len(active) : active[k] = active[l] => k = l
      BY DEF Evaluation, Actives, n
    <3>6. n \in Nat /\ n + 1 \in 1..(n + 1) /\ \A i \in 1..n : i \in 1..(n + 1) /\ i # n + 1
      BY <1>3 DEF n
    <3>7. ASSUME NEW k \in 1..(Len(active) + 1)
          PROVE  active'[k] \in 1..(n + 1) /\ (k # 1 => active'[k] # n + 1)
      <4>1. CASE k = 1
        BY <3>2, <3>6, <4>1
      <4>2. CASE k # 1
        <5>1. k \in 2..(Len(active) + 1) /\ k - 1 \in 1..Len(active)
          BY <3>4, <4>2
        <5>2. active'[k] = active[k - 1] /\ active[k - 1] \in 1..n
          BY <3>2, <3>5, <5>1
        <5>. QED BY <3>6, <5>2
      <4>. QED BY <4>1, <4>2
    <3>8. ASSUME NEW k \in 1..(Len(active) + 1), NEW l \in 1..(Len(active) + 1), active'[k] = active'[l]
          PROVE  k = l
      <4>1. CASE k = 1 \/ l = 1
        BY <3>2, <3>4, <3>7, <3>8, <4>1
      <4>2. CASE k # 1 /\ l # 1
        <5>1. k - 1 = l - 1
          BY <3>2, <3>4, <3>5, <3>8, <4>2
        <5>. QED BY <3>1, <5>1
      <4>. QED BY <4>1, <4>2
    <3>. QED BY <2>6, <3>2, <3>3, <3>7, <3>8 DEF Actives
  <2>. QED BY <1>1, <1>2, <2>6, <2>8, <2>9, NothingRan
<1>. QED BY <1>5, <1>6

\* What fails leaves nothing in progress, and nothing has run.
LEMMA FailsEvaluation ==
  ASSUME LoadingIInv, Evaluation, step \in {"start", "resolve"}, LoadingFails
  PROVE  Evaluation'
<1>1. step' = "error" /\ active' = <<>> /\ context' = context /\ ran' = <<>>
  BY NoneEvaluated DEF LoadingFails
<1>2. Len(active') = 0 /\ active' \in Seq(Nat) /\ \A k \in 1..0 : FALSE
  BY <1>1, EmptySeq
<1>3. Actives'
  BY <1>2 DEF Actives
<1>. QED BY <1>1, <1>3, NoneEvaluated, NothingRan

\* The main module is the first that is evaluated.
LEMMA ImportsResolvedEvaluation ==
  ASSUME LoadingIInv, Evaluation, ImportsResolved
  PROVE  Evaluation'
<1>1. step = "resolve" /\ active # <<>> /\ UNCHANGED <<context, ran>>
  BY DEF ImportsResolved, Resolving
<1>2. ran = <<>> /\ \A i \in 1..Len(context) : context[i].state # "evaluated"
  BY <1>1, NoneEvaluated
<1>3. /\ active \in Seq(Nat) /\ Len(active) \in Nat \ {0}
      /\ Tail(active) \in Seq(Nat) /\ Len(Tail(active)) = Len(active) - 1
      /\ \A k \in 1..(Len(active) - 1) : Tail(active)[k] = active[k + 1]
  <2>1. active \in Seq(Nat)
    BY DEF Evaluation, Actives
  <2>. QED BY <1>1, <2>1, TailFacts, LenProperties
<1>4. /\ \A k \in 1..Len(active) : active[k] \in 1..Len(context)
      /\ \A k, l \in 1..Len(active) : active[k] = active[l] => k = l
  BY DEF Evaluation, Actives
<1>5. CASE Len(active) > 1
  <2>1. active' = Tail(active) /\ step' = step
    BY <1>5 DEF ImportsResolved
  <2>2. \A k \in 1..(Len(active) - 1) : k + 1 \in 1..Len(active)
    BY <1>3
  <2>3. \A k \in 1..Len(active') : active'[k] \in 1..Len(context)
    BY <1>3, <1>4, <2>1, <2>2
  <2>4. ASSUME NEW k \in 1..Len(active'), NEW l \in 1..Len(active'), active'[k] = active'[l]
        PROVE  k = l
    <3>1. k + 1 = l + 1
      BY <1>3, <1>4, <2>1, <2>2, <2>4
    <3>. QED BY <1>3, <2>1, <3>1
  <2>5. Actives'
    BY <1>1, <1>3, <2>1, <2>3, <2>4 DEF Actives
  <2>. QED BY <1>1, <1>2, <2>1, <2>5, NothingRan
<1>6. CASE ~(Len(active) > 1)
  <2>1. active' = active /\ step' = "evaluate" /\ Len(active) = 1
    BY <1>3, <1>6 DEF ImportsResolved
  <2>2. \A k \in 1..1 : k = 1
    OBVIOUS
  <2>3. Actives'
    BY <1>1, <2>1 DEF Evaluation, Actives
  <2>4. \A i \in 1..Len(context) : context[i].state = "new"
    <3>1. \A i \in 1..Len(context) : context[i] \in ContextModules
      BY SeqFacts DEF LoadingIInv, Instanced, Types
    <3>. QED BY <1>2, <3>1 DEF ContextModules
  <2>5. Evaluating'
    BY <1>1, <1>4, <2>1, <2>2, <2>4 DEF Evaluating
  <2>6. Ran' /\ Ordered'
    <3>1. Len(ran) = 0 /\ \A p \in 1..0 : FALSE
      BY <1>2, EmptySeq
    <3>. QED BY <1>1, <1>2, <3>1, EmptySeq DEF Ran, Ordered
  <2>. QED BY <2>3, <2>5, <2>6 DEF Evaluation
<1>. QED BY <1>5, <1>6

\* In the evaluation the innermost module is an instance, and so are its imports.
LEMMA HeadFacts ==
  ASSUME LoadingIInv, Evaluation, step = "evaluate", active # <<>>
  PROVE  /\ active \in Seq(Nat) /\ Len(active) \in Nat \ {0} /\ Head(active) = active[1]
         /\ Head(active) \in 1..Len(context) /\ Head(active) \in Nat
         /\ Len(context) \in Nat /\ DOMAIN context = 1..Len(context)
         /\ context[Head(active)].state = "new"
         /\ context[Head(active)].imports \in Seq(Nat)
         /\ DOMAIN context[Head(active)].imports = 1..Len(context[Head(active)].imports)
         /\ \A j \in DOMAIN context[Head(active)].imports : context[Head(active)].imports[j] \in 1..Len(context)
<1>1. active \in Seq(Nat)
  BY DEF Evaluation, Actives
<1>2. Len(active) \in Nat \ {0} /\ Head(active) = active[1]
  BY <1>1, TailFacts
<1>3. Head(active) \in 1..Len(context) /\ context[Head(active)].state = "new"
  <2>1. 1 \in 1..Len(active)
    BY <1>2
  <2>. QED BY <1>2, <2>1 DEF Evaluation, Actives, Evaluating
<1>4. Types /\ Links
  BY DEF LoadingIInv, Instanced
<1>5. Len(context) \in Nat /\ DOMAIN context = 1..Len(context) /\ context[Head(active)] \in ContextModules
  BY <1>3, <1>4, SeqFacts DEF Types
<1>6. context[Head(active)].imports \in Seq(Nat)
  BY <1>5 DEF ContextModules
<1>7. DOMAIN context[Head(active)].imports = 1..Len(context[Head(active)].imports)
  BY <1>6, SeqFacts
<1>8. \A j \in 1..Len(context[Head(active)].imports) : context[Head(active)].imports[j] \in 1..Len(context)
  BY <1>3, <1>4 DEF Links
<1>9. Head(active) \in Nat
  BY <1>3, <1>5
<1>. QED BY <1>1, <1>2, <1>3, <1>5, <1>6, <1>7, <1>8, <1>9

\* An import that has not been visited is the new innermost module.
LEMMA EvaluateImportEvaluation ==
  ASSUME LoadingIInv, Evaluation, EvaluateImport
  PROVE  Evaluation'
<1>1. step = "evaluate" /\ step' = step /\ active # <<>> /\ UNCHANGED <<context, ran>>
  BY DEF EvaluateImport
<1>. DEFINE h == Head(active)
<1>2. PICK j \in EvaluatedBefore(h) : active' = <<context[h].imports[j]>> \o active
  BY DEF EvaluateImport
<1>. DEFINE i == context[h].imports[j]
<1>3. /\ active \in Seq(Nat) /\ Len(active) \in Nat \ {0} /\ h = active[1] /\ h \in 1..Len(context)
      /\ Len(context) \in Nat /\ j \in DOMAIN context[h].imports
      /\ i \in 1..Len(context) /\ context[i].state = "new" /\ i \notin ToSet(active)
      /\ DOMAIN active = 1..Len(active)
  <2>1. j \in DOMAIN context[h].imports /\ NotVisited(i)
    BY <1>2 DEF EvaluatedBefore
  <2>2. DOMAIN active = 1..Len(active)
    BY <1>1, HeadFacts, SeqFacts
  <2>. QED BY <1>1, <2>1, <2>2, HeadFacts DEF NotVisited
<1>4. i \in ToSet(context[h].imports)
  BY <1>3, ToSetDef
<1>5. \A k \in 1..Len(active) : active[k] # i
  BY <1>3, ToSetDef
<1>. HIDE DEF i, h
<1>6. /\ active' \in Seq(Nat) /\ active'[1] = i /\ Len(active') = Len(active) + 1
      /\ \A k \in 2..(Len(active) + 1) : active'[k] = active[k - 1]
  <2>1. i \in Nat /\ active' = <<i>> \o active
    BY <1>2, <1>3 DEF i
  <2>2. /\ active' \in Seq(Nat) /\ active'[1] = i /\ DOMAIN active' = 1..(Len(active) + 1)
        /\ \A k \in 2..(Len(active) + 1) : active'[k] = active[k - 1]
    BY <1>3, <2>1, ConsFacts
  <2>. QED BY <1>3, <2>2, LenProperties
<1>7. \A k \in 1..(Len(active) + 1) : k = 1 \/ (k \in 2..(Len(active) + 1) /\ k - 1 \in 1..Len(active))
  BY <1>3
<1>8. /\ \A k \in 1..Len(active) : active[k] \in 1..Len(context)
      /\ \A k, l \in 1..Len(active) : active[k] = active[l] => k = l
      /\ \A k \in 1..Len(active) :
            /\ context[active[k]].state = "new"
            /\ k < Len(active) => active[k] \in ToSet(context[active[k + 1]].imports)
  BY <1>1 DEF Evaluation, Actives, Evaluating
<1>9. Actives'
  <2>1. ASSUME NEW k \in 1..(Len(active) + 1)
        PROVE  active'[k] \in 1..Len(context) /\ (k # 1 => active'[k] # i)
    <3>1. CASE k = 1
      BY <1>3, <1>6, <3>1
    <3>2. CASE k # 1
      <4>1. k - 1 \in 1..Len(active) /\ active'[k] = active[k - 1]
        BY <1>6, <1>7, <3>2
      <4>. QED BY <1>5, <1>8, <4>1
    <3>. QED BY <3>1, <3>2
  <2>2. ASSUME NEW k \in 1..(Len(active) + 1), NEW l \in 1..(Len(active) + 1), active'[k] = active'[l]
        PROVE  k = l
    <3>1. CASE k = 1 \/ l = 1
      BY <1>6, <2>1, <2>2, <3>1
    <3>2. CASE k # 1 /\ l # 1
      <4>1. k - 1 = l - 1
        BY <1>6, <1>7, <1>8, <2>2, <3>2
      <4>. QED BY <1>3, <4>1
    <3>. QED BY <3>1, <3>2
  <2>. QED BY <1>1, <1>6, <2>1, <2>2 DEF Actives
<1>10. Evaluating'
  <2>1. ASSUME NEW k \in 1..(Len(active) + 1)
        PROVE  /\ context[active'[k]].state = "new"
               /\ k < Len(active) + 1 => active'[k] \in ToSet(context[active'[k + 1]].imports)
    <3>1. CASE k = 1
      <4>1. 2 \in 2..(Len(active) + 1) /\ 1 + 1 = 2 /\ 2 - 1 = 1
        BY <1>3
      <4>2. active'[1 + 1] = h
        BY <1>3, <1>6, <4>1
      <4>. QED BY <1>3, <1>4, <1>6, <3>1, <4>2
    <3>2. CASE k # 1
      <4>1. k \in 2..(Len(active) + 1) /\ k - 1 \in 1..Len(active) /\ active'[k] = active[k - 1]
        BY <1>6, <1>7, <3>2
      <4>2. ASSUME k < Len(active) + 1
            PROVE  active'[k] \in ToSet(context[active'[k + 1]].imports)
        <5>1. k + 1 \in 2..(Len(active) + 1) /\ (k + 1) - 1 = (k - 1) + 1 /\ k - 1 < Len(active)
          <6>1. Len(active) \in Nat
            BY <1>3
          <6>. QED BY <4>1, <4>2, <6>1
        <5>2. active'[k + 1] = active[(k - 1) + 1]
          BY <1>6, <5>1
        <5>. QED BY <1>8, <4>1, <5>1, <5>2
      <4>. QED BY <1>8, <4>1, <4>2
    <3>. QED BY <3>1, <3>2
  <2>. QED BY <1>1, <1>6, <2>1 DEF Evaluating
<1>11. Ran'
  BY <1>1 DEF Evaluation, Ran
<1>12. Ordered'
  <2>1. ASSUME NEW q, NEW m, NEW x, NEW y, Chain(q, m, x, y)
        PROVE  Chain(q, m, x, y)'
    BY <1>1, <2>1 DEF Chain
  <2>. QED BY <1>1, <2>1 DEF Evaluation, Ordered
<1>. QED BY <1>9, <1>10, <1>11, <1>12 DEF Evaluation

\* The innermost module runs when each of its imports has run or waits for it.
LEMMA InOrder ==
  ASSUME LoadingIInv, Evaluation, step = "evaluate", active # <<>>, EvaluatedBefore(Head(active)) = {},
         ran' = Append(ran, Head(active)), Len(context') = Len(context),
         \A i \in 1..Len(context) : context'[i].imports = context[i].imports
  PROVE  /\ Ordered' /\ ran' \in Seq(Nat) /\ Len(ran') = Len(ran) + 1 /\ Len(ran) \in Nat
         /\ ran'[Len(ran) + 1] = Head(active)
         /\ \A p \in 1..Len(ran) : ran'[p] = ran[p] /\ ran'[p] # Head(active)
         /\ \A p \in 1..Len(ran') : ran'[p] \in 1..Len(context)
         /\ \A p, q \in 1..Len(ran') : ran'[p] = ran'[q] => p = q
<1>. DEFINE h == Head(active)
            n == Len(ran)
<1>1. /\ active \in Seq(Nat) /\ Len(active) \in Nat \ {0} /\ h = active[1]
      /\ h \in 1..Len(context) /\ h \in Nat /\ Len(context) \in Nat /\ context[h].state = "new"
      /\ DOMAIN context[h].imports = 1..Len(context[h].imports)
      /\ \A j \in DOMAIN context[h].imports : context[h].imports[j] \in 1..Len(context)
  BY HeadFacts
<1>2. /\ ran \in Seq(Nat) /\ \A p \in 1..n : ran[p] \in 1..Len(context)
      /\ \A p, q \in 1..n : ran[p] = ran[q] => p = q
      /\ \A i \in 1..Len(context) : context[i].state = "evaluated" => \E p \in 1..n : ran[p] = i
      /\ \A p \in 1..n : context[ran[p]].state = "evaluated"
  BY DEF Evaluation, Ran
<1>. HIDE DEF h
<1>3. /\ ran' \in Seq(Nat) /\ Len(ran') = n + 1 /\ ran'[n + 1] = h /\ n \in Nat
      /\ \A p \in 1..n : ran'[p] = ran[p]
  <2>1. ran' = Append(ran, h)
    BY DEF h
  <2>. QED BY <1>1, <1>2, <2>1, AppendProperties, SeqFacts
<1>. HIDE DEF n
<1>4. \A p \in 1..n : ran[p] # h
  BY <1>1, <1>2
<1>5. \A p \in 1..(n + 1) : p \in 1..n \/ p = n + 1
  BY <1>3
<1>6. \A p \in 1..(n + 1) : ran'[p] \in 1..Len(context)
  BY <1>1, <1>2, <1>3, <1>5
<1>7. ASSUME NEW p \in 1..(n + 1), NEW q \in 1..(n + 1), ran'[p] = ran'[q]
      PROVE  p = q
  BY <1>2, <1>3, <1>4, <1>5, <1>7
<1>8. ASSUME NEW q, NEW m, NEW x, NEW i, Chain(q, m, x, i)
      PROVE  Chain(q, m, x, i)'
  <2>1. m \in Nat \ {0} /\ \A k \in 1..(m - 1) : k + 1 \in 1..m
    BY <1>8 DEF Chain
  <2>. QED BY <1>8, <2>1 DEF Chain
<1>9. ASSUME NEW p \in 1..n, NEW x, x = ran[p], NEW i \in ToSet(context[x].imports)
      PROVE  (\E b \in 1..(p - 1) : ran'[b] = i) \/ (\E q, m : Chain(q, m, x, i)')
  <2>1. (\E b \in 1..(p - 1) : ran[b] = i) \/ (\E q, m : Chain(q, m, x, i))
    <3>1. p \in 1..Len(ran)
      BY DEF n
    <3>. QED BY <1>9, <3>1 DEF Evaluation, Ordered
  <2>2. CASE \E b \in 1..(p - 1) : ran[b] = i
    <3>1. \A b \in 1..(p - 1) : b \in 1..n
      BY <1>3
    <3>. QED BY <1>3, <2>2, <3>1
  <2>3. CASE \E q, m : Chain(q, m, x, i)
    BY <1>8, <2>3
  <2>. QED BY <2>1, <2>2, <2>3
<1>10. ASSUME NEW x, x = h, NEW i \in ToSet(context[x].imports)
       PROVE  (\E b \in 1..n : ran'[b] = i) \/ (\E q, m : Chain(q, m, x, i)')
  <2>1. PICK j \in DOMAIN context[h].imports : i = context[h].imports[j]
    BY <1>10, ToSetDef
  <2>2. i \in 1..Len(context) /\ ~NotVisited(i)
    BY <1>1, <2>1 DEF EvaluatedBefore, h
  <2>3. CASE context[i].state # "new"
    <3>1. context[i] \in ContextModules
      BY <2>2, SeqFacts DEF LoadingIInv, Instanced, Types
    <3>2. context[i].state = "evaluated"
      BY <2>3, <3>1 DEF ContextModules
    <3>. QED BY <1>2, <1>3, <2>2, <3>2 DEF n
  <2>4. CASE i \in ToSet(active)
    <3>1. PICK m \in 1..Len(active) : active[m] = i
      <4>1. DOMAIN active = 1..Len(active)
        BY <1>1, SeqFacts
      <4>. QED BY <2>4, <4>1, ToSetDef
    <3>2. Len(active) <= Len(context) /\ Len(active) \in Nat
      BY <1>1, ActivesFit DEF Evaluation
    <3>3. /\ \A k \in 1..Len(active) : active[k] \in 1..Len(context)
          /\ \A k \in 1..Len(active) :
                k < Len(active) => active[k] \in ToSet(context[active[k + 1]].imports)
      BY DEF Evaluation, Actives, Evaluating
    <3>4. m \in Nat \ {0} /\ m <= Len(context) /\ \A k \in 1..m : k \in 1..Len(active)
      BY <1>1, <3>1, <3>2
    <3>5. \A k \in 1..(m - 1) : k \in 1..Len(active) /\ k < Len(active)
      BY <3>1, <3>2
    <3>6. PICK q : q = active
      OBVIOUS
    <3>7. Chain(q, m, x, i)
      BY <1>1, <1>10, <3>1, <3>3, <3>4, <3>5, <3>6 DEF Chain
    <3>. QED BY <1>8, <3>7
  <2>. QED BY <2>2, <2>3, <2>4 DEF NotVisited
<1>11. Ordered'
  <2>1. ASSUME NEW p \in 1..(n + 1), NEW x, x = ran'[p], NEW i \in ToSet(context'[x].imports)
        PROVE  (\E b \in 1..(p - 1) : ran'[b] = i) \/ (\E q, m : Chain(q, m, x, i)')
    <3>1. i \in ToSet(context[x].imports)
      BY <1>6, <2>1
    <3>2. CASE p \in 1..n
      <4>1. x = ran[p]
        BY <1>3, <2>1, <3>2
      <4>. QED BY <1>9, <3>1, <3>2, <4>1
    <3>3. CASE p = n + 1
      <4>1. p - 1 = n /\ x = h
        BY <1>3, <2>1, <3>3
      <4>. QED BY <1>10, <3>1, <4>1
    <3>. QED BY <1>5, <3>2, <3>3
  <2>2. ASSUME NEW p \in 1..Len(ran'), NEW i \in ToSet(context'[ran'[p]].imports)
        PROVE  (\E b \in 1..(p - 1) : ran'[b] = i) \/ (\E q, m : Chain(q, m, ran[p], i))'
    <3>1. PICK x : x = ran'[p]
      OBVIOUS
    <3>2. p \in 1..(n + 1) /\ i \in ToSet(context'[x].imports)
      BY <1>3, <2>2, <3>1
    <3>3. (\E b \in 1..(p - 1) : ran'[b] = i) \/ (\E q, m : Chain(q, m, x, i)')
      BY <2>1, <3>1, <3>2
    <3>. QED BY <3>1, <3>3
  <2>. QED BY <2>2 DEF Ordered
<1>. QED BY <1>3, <1>4, <1>6, <1>7, <1>11 DEF h, n

LEMMA RunModuleEvaluation ==
  ASSUME LoadingIInv, Evaluation, RunModule
  PROVE  Evaluation'
<1>. DEFINE h == Head(active)
<1>1. /\ step = "evaluate" /\ step' = step /\ active # <<>> /\ EvaluatedBefore(h) = {}
      /\ context' = [context EXCEPT ![h].state = "evaluated"]
      /\ ran' = Append(ran, h) /\ active' = Tail(active)
  BY DEF RunModule
<1>2. /\ h = active[1] /\ h \in 1..Len(context) /\ Len(context) \in Nat /\ DOMAIN context = 1..Len(context)
  BY <1>1, HeadFacts
<1>3. /\ Tail(active) \in Seq(Nat) /\ Len(Tail(active)) = Len(active) - 1 /\ Len(active) \in Nat \ {0}
      /\ \A k \in 1..(Len(active) - 1) : Tail(active)[k] = active[k + 1]
  <2>1. active \in Seq(Nat)
    BY DEF Evaluation, Actives
  <2>. QED BY <1>1, <2>1, TailFacts, LenProperties
<1>4. Len(context') = Len(context)
  <2>1. DOMAIN context' = 1..Len(context)
    BY <1>1, <1>2
  <2>2. context' \in Seq(ContextModules)
    BY RunModuleIInv DEF LoadingIInv, Instanced, Types
  <2>. QED BY <1>2, <2>1, <2>2, LenProperties
<1>5. \A i \in 1..Len(context) :
        /\ context'[i].imports = context[i].imports
        /\ context'[i].state = IF i = h THEN "evaluated" ELSE context[i].state
  <2>1. \A i \in 1..Len(context) : context[i] \in ContextModules
    BY SeqFacts DEF LoadingIInv, Instanced, Types
  <2>. QED BY <1>1, <1>2, <2>1 DEF ContextModules
<1>6. /\ Ordered' /\ ran' \in Seq(Nat) /\ Len(ran') = Len(ran) + 1 /\ Len(ran) \in Nat
      /\ ran'[Len(ran) + 1] = h
      /\ \A p \in 1..Len(ran) : ran'[p] = ran[p] /\ ran'[p] # h
      /\ \A p \in 1..Len(ran') : ran'[p] \in 1..Len(context)
      /\ \A p, q \in 1..Len(ran') : ran'[p] = ran'[q] => p = q
  BY <1>1, <1>4, <1>5, InOrder
<1>. HIDE DEF h
<1>7. /\ \A k \in 1..Len(active) : active[k] \in 1..Len(context)
      /\ \A k, l \in 1..Len(active) : active[k] = active[l] => k = l
      /\ \A k \in 1..Len(active) :
            /\ context[active[k]].state = "new"
            /\ k < Len(active) => active[k] \in ToSet(context[active[k + 1]].imports)
      /\ \A i \in 1..Len(context) : context[i].state = "evaluated" => \E p \in 1..Len(ran) : ran[p] = i
      /\ \A p \in 1..Len(ran) : ran[p] \in 1..Len(context) /\ context[ran[p]].state = "evaluated"
  BY <1>1 DEF Evaluation, Actives, Evaluating, Ran
<1>8. \A k \in 1..Len(active') :
        /\ k + 1 \in 1..Len(active) /\ k + 1 # 1 /\ active'[k] = active[k + 1]
        /\ k < Len(active') => k + 1 < Len(active) /\ active'[k + 1] = active[(k + 1) + 1]
  <2>1. \A k \in 1..(Len(active) - 1) :
          /\ k + 1 \in 1..Len(active) /\ k + 1 # 1
          /\ k < Len(active) - 1 => k + 1 < Len(active) /\ k + 1 \in 1..(Len(active) - 1)
    BY <1>3
  <2>. QED BY <1>1, <1>3, <2>1
<1>9. Actives'
  <2>1. ASSUME NEW k \in 1..Len(active'), NEW l \in 1..Len(active'), active'[k] = active'[l]
        PROVE  k = l
    <3>1. k + 1 = l + 1
      BY <1>7, <1>8, <2>1
    <3>. QED BY <1>1, <1>3, <3>1
  <2>. QED BY <1>1, <1>3, <1>4, <1>7, <1>8, <2>1 DEF Actives
<1>10. Evaluating'
  <2>1. 1 \in 1..Len(active)
    BY <1>3
  <2>2. \A k \in 1..Len(active') : active'[k] # h /\ active'[k] \in 1..Len(context)
    <3>. SUFFICES ASSUME NEW k \in 1..Len(active')
                  PROVE  active'[k] # h /\ active'[k] \in 1..Len(context)
      OBVIOUS
    <3>1. k + 1 \in 1..Len(active) /\ k + 1 # 1 /\ active'[k] = active[k + 1]
      BY <1>8
    <3>2. active[k + 1] # active[1] /\ active[k + 1] \in 1..Len(context)
      BY <1>7, <2>1, <3>1
    <3>. QED BY <1>2, <3>1, <3>2
  <2>3. ASSUME NEW k \in 1..Len(active'), k < Len(active')
        PROVE  active'[k] \in ToSet(context'[active'[k + 1]].imports)
    <3>1. active'[k] \in ToSet(context[active'[k + 1]].imports)
      BY <1>7, <1>8, <2>3
    <3>2. k + 1 \in 1..Len(active')
      BY <1>1, <1>3, <2>3
    <3>. QED BY <1>5, <2>2, <3>1, <3>2
  <2>4. ASSUME NEW k \in 1..Len(active')
        PROVE  context'[active'[k]].state = "new"
    <3>1. context[active'[k]].state = "new"
      <4>1. k + 1 \in 1..Len(active) /\ active'[k] = active[k + 1]
        BY <1>8
      <4>2. \A l \in 1..Len(active) : context[active[l]].state = "new"
        BY <1>7
      <4>. QED BY <4>1, <4>2
    <3>. QED BY <1>5, <2>2, <3>1
  <2>. QED BY <2>3, <2>4 DEF Evaluating
<1>11. Ran'
  <2>1. \A p \in 1..(Len(ran) + 1) : p \in 1..Len(ran) \/ p = Len(ran) + 1
    BY <1>6
  <2>2. Len(ran) + 1 \in 1..Len(ran') /\ \A p \in 1..Len(ran) : p \in 1..Len(ran')
    BY <1>6
  <2>3. ASSUME NEW i \in 1..Len(context), context'[i].state = "evaluated"
        PROVE  \E p \in 1..Len(ran') : ran'[p] = i
    <3>1. CASE i = h
      BY <1>6, <2>2, <3>1
    <3>2. CASE i # h
      <4>1. PICK p \in 1..Len(ran) : ran[p] = i
        BY <1>5, <1>7, <2>3, <3>2
      <4>. QED BY <1>6, <2>2, <4>1
    <3>. QED BY <3>1, <3>2
  <2>4. ASSUME NEW p \in 1..Len(ran')
        PROVE  context'[ran'[p]].state = "evaluated"
    <3>1. CASE p \in 1..Len(ran)
      BY <1>5, <1>6, <1>7, <3>1
    <3>2. CASE p = Len(ran) + 1
      BY <1>2, <1>5, <1>6, <3>2
    <3>. QED BY <1>6, <2>1, <3>1, <3>2
  <2>. QED BY <1>4, <1>6, <2>3, <2>4 DEF Ran
<1>. QED BY <1>6, <1>9, <1>10, <1>11 DEF Evaluation

LEMMA ThrowsEvaluation ==
  ASSUME LoadingIInv, Evaluation, ScriptThrows
  PROVE  Evaluation'
<1>. DEFINE h == Head(active)
<1>1. /\ step = "evaluate" /\ step' = "error" /\ active # <<>> /\ EvaluatedBefore(h) = {}
      /\ context' = context /\ ran' = Append(ran, h) /\ active' = <<>>
  BY DEF ScriptThrows
<1>2. /\ Ordered' /\ ran' \in Seq(Nat) /\ Len(ran') = Len(ran) + 1 /\ Len(ran) \in Nat
      /\ \A p \in 1..Len(ran) : ran'[p] = ran[p]
      /\ \A p \in 1..Len(ran') : ran'[p] \in 1..Len(context)
      /\ \A p, q \in 1..Len(ran') : ran'[p] = ran'[q] => p = q
  BY <1>1, InOrder
<1>3. Len(active') = 0 /\ active' \in Seq(Nat) /\ \A k \in 1..0 : FALSE
  BY <1>1, EmptySeq
<1>4. Actives' /\ Evaluating'
  BY <1>1, <1>3 DEF Actives, Evaluating
<1>5. Ran'
  <2>1. \A p \in 1..Len(ran) : p \in 1..Len(ran')
    BY <1>2
  <2>2. \A i \in 1..Len(context) : context[i].state = "evaluated" => \E p \in 1..Len(ran) : ran[p] = i
    BY DEF Evaluation, Ran
  <2>. QED BY <1>1, <1>2, <2>1, <2>2 DEF Ran
<1>. QED BY <1>2, <1>4, <1>5 DEF Evaluation

\* The other steps leave the modules and what has run alone.
LEMMA EvaluationKept ==
  ASSUME Evaluation, UNCHANGED <<context, active, ran>>,
         step' = step \/ (step = "evaluate" /\ step' \in {"uv_run", "exit"})
  PROVE  Evaluation'
<1>1. Actives' /\ Evaluating' /\ Ran'
  BY DEF Evaluation, Actives, Evaluating, Ran
<1>2. ASSUME NEW q, NEW m, NEW x, NEW i, Chain(q, m, x, i)
      PROVE  Chain(q, m, x, i)'
  BY <1>2 DEF Chain
<1>3. Ordered'
  BY <1>2 DEF Evaluation, Ordered
<1>. QED BY <1>1, <1>3 DEF Evaluation

LEMMA InitEvaluation == LoadingInit => Evaluation
<1>. SUFFICES ASSUME LoadingInit PROVE Evaluation
  OBVIOUS
<1>1. /\ Len(active) = 0 /\ active \in Seq(Nat) /\ Len(ran) = 0 /\ ran \in Seq(Nat)
      /\ Len(context) = 0 /\ \A k \in 1..0 : FALSE
  BY EmptySeq DEF LoadingInit
<1>. QED BY <1>1 DEF Evaluation, Actives, Evaluating, Ran, Ordered

LEMMA StepEvaluation == LoadingIInv /\ Evaluation /\ [LoadingNext]_loadingVars => Evaluation'
<1>. SUFFICES ASSUME LoadingIInv, Evaluation, [LoadingNext]_loadingVars
              PROVE  Evaluation'
  OBVIOUS
<1>1. CASE RuntimeStart
  BY <1>1, StartEvaluation DEF RuntimeStart
<1>2. CASE OldRuntimeStart
  BY <1>2, StartEvaluation DEF OldRuntimeStart
<1>3. CASE MainFileFails
  BY <1>3, FailsEvaluation DEF MainFileFails
<1>4. CASE ResolveImport
  <2>1. Requesting /\ step = "resolve"
    BY <1>4, RequestFacts DEF ResolveImport
  <2>2. CASE ResolveFound \/ ModuleLoader
    BY <2>1, <2>2, ResolveEvaluation
  <2>3. CASE LoaderFails
    BY <2>1, <2>3, FailsEvaluation DEF LoaderFails
  <2>. QED BY <1>4, <2>2, <2>3 DEF ResolveImport
<1>5. CASE EnterLoop \/ OldRuntimeEnds
  BY <1>5, EvaluationKept DEF EnterLoop, OldRuntimeEnds
<1>6. CASE UNCHANGED loadingVars
  BY <1>6, EvaluationKept DEF loadingVars
<1>. QED BY <1>1, <1>2, <1>3, <1>4, <1>5, <1>6, ImportsResolvedEvaluation, EvaluateImportEvaluation,
            RunModuleEvaluation, ThrowsEvaluation DEF LoadingNext

\* What a chain leads to is reached, in as many imports as the chain has.
LEMMA ChainReaches ==
  ASSUME LoadingIInv, NEW q, NEW m, NEW x, NEW i, Chain(q, m, x, i)
  PROVE  x \in ReachedFrom(i)
<1>. DEFINE D     == Nat
            N     == Len(context)
            V     == SUBSET (1..N)
            More(v) == v \cup UNION {ToSet(context[j].imports) : j \in v}
            b     == [d \in Nat |-> {i}]
            p     == [d \in Nat |-> IF d = 0 THEN 0 ELSE d - 1]
            F     == [d \in Nat |-> [v \in V |-> More(v)]]
            rank  == [d \in Nat |-> d]
            Def(f) == f = [d \in Nat |-> IF d = 0 THEN {i}
                                         ELSE f[d - 1] \cup UNION {ToSet(context[j].imports) : j \in f[d - 1]}]
            within == CHOOSE f : Def(f)
<1>1. /\ N \in Nat /\ DOMAIN context = 1..N /\ m \in Nat \ {0} /\ m <= N /\ i \in 1..N
      /\ \A k \in 1..m : q[k] \in 1..N
  <2>1. N \in Nat /\ DOMAIN context = 1..N
    BY SeqFacts DEF LoadingIInv, Instanced, Types
  <2>2. m \in Nat \ {0} /\ m <= N /\ q[m] = i /\ \A k \in 1..m : q[k] \in 1..N
    BY DEF Chain
  <2>3. m \in 1..m
    BY <2>2
  <2>. QED BY <2>1, <2>2, <2>3
<1>2. \A j \in 1..N : ToSet(context[j].imports) \subseteq 1..N
  <2>1. ASSUME NEW j \in 1..N, NEW y \in ToSet(context[j].imports)
        PROVE  y \in 1..N
    <3>1. context[j].imports \in Seq(Nat)
      <4>1. context[j] \in ContextModules
        BY <2>1, SeqFacts DEF LoadingIInv, Instanced, Types
      <4>. QED BY <4>1 DEF ContextModules
    <3>2. PICK k \in 1..Len(context[j].imports) : y = context[j].imports[k]
      BY <3>1, ToSetDef, SeqFacts
    <3>. QED BY <3>2 DEF LoadingIInv, Instanced, Links
  <2>. QED BY <2>1
<1>3. \A v \in V : More(v) \in V
  BY <1>2
<1>4. RecursionOn(D, V, {0}, b, p, F, rank)
  <2>1. b \in [Nat -> V] /\ p \in [Nat -> Nat] /\ rank \in [Nat -> Nat]
    BY <1>1
  <2>2. F \in [Nat -> [V -> V]]
    <3>. HIDE DEF V, More
    <3>. QED BY <1>3
  <2>3. \A d \in Nat \ {0} : rank[p[d]] < rank[d]
    OBVIOUS
  <2>. HIDE DEF V, b, p, F, rank
  <2>. QED BY <2>1, <2>2, <2>3 DEF RecursionOn
<1>5. PICK f \in [D -> V] : \A d \in D : f[d] = IF d \in {0} THEN b[d] ELSE F[d][f[p[d]]]
  <2>. HIDE DEF D, V, b, p, F, rank
  <2>. QED BY <1>4, Recursion
<1>6. \A d \in Nat : f[d] = IF d = 0 THEN {i} ELSE More(f[d - 1])
  <2>1. ASSUME NEW d \in Nat, d # 0
        PROVE  f[d] = More(f[d - 1])
    <3>1. d - 1 \in Nat /\ p[d] = d - 1
      BY <2>1
    <3>2. f[d - 1] \in V
      <4>. HIDE DEF V
      <4>. QED BY <1>5, <3>1
    <3>3. F[d][f[d - 1]] = More(f[d - 1])
      <4>. HIDE DEF V, More
      <4>. QED BY <3>2
    <3>. HIDE DEF V, More, F, p, b
    <3>. QED BY <1>5, <2>1, <3>1, <3>3
  <2>2. f[0] = {i}
    BY <1>5
  <2>. HIDE DEF V, More
  <2>. QED BY <2>1, <2>2
<1>7. Def(f)
  <2>1. f = [d \in Nat |-> f[d]]
    <3>. HIDE DEF V
    <3>. QED BY <1>5
  <2>. QED BY <1>6, <2>1
<1>8. Def(within)
  <2>. HIDE DEF Def
  <2>. QED BY <1>7
<1>9. ReachedFrom(i) = within[N]
  BY DEF ReachedFrom
<1>10. within[0] = {i} /\ \A d \in Nat \ {0} : within[d] = More(within[d - 1])
  <2>. HIDE DEF within
  <2>. QED BY <1>8
<1>. HIDE DEF within, N
<1>. DEFINE at(d) == q[IF d < m THEN m - d ELSE 1]
            Missed == {d \in Nat : d <= N /\ at(d) \notin within[d]}
<1>11. SUFFICES ASSUME Missed # {} PROVE FALSE
  <2>1. at(N) \in within[N]
    BY <1>1, <1>11
  <2>2. at(N) = x
    <3>1. ~(N < m) \/ m - N = 1
      BY <1>1
    <3>. QED BY <3>1 DEF Chain
  <2>. QED BY <1>9, <2>1, <2>2 DEF N
<1>12. PICK d \in Missed : \A e \in Missed : d <= e
  <2>1. Missed \in SUBSET Nat
    OBVIOUS
  <2>. HIDE DEF Missed
  <2>. QED BY <1>11, <2>1, LeastNatural
<1>13. CASE d = 0
  <2>1. at(0) = i
    BY <1>1 DEF Chain
  <2>. QED BY <1>10, <1>12, <1>13, <2>1
<1>14. CASE d # 0
  <2>1. d \in Nat /\ d - 1 \in Nat /\ d - 1 <= N /\ ~(d <= d - 1)
    BY <1>1, <1>12, <1>14
  <2>2. at(d - 1) \in within[d - 1]
    BY <1>12, <2>1
  <2>3. CASE d < m
    <3>1. d - 1 < m /\ m - d \in 1..(m - 1) /\ m - (d - 1) = (m - d) + 1
      BY <1>1, <2>1, <2>3
    <3>2. at(d) = q[m - d] /\ at(d - 1) = q[(m - d) + 1]
      BY <2>3, <3>1
    <3>3. at(d) \in ToSet(context[at(d - 1)].imports)
      <4>. HIDE DEF at
      <4>. QED BY <3>1, <3>2 DEF Chain
    <3>4. at(d) \in More(within[d - 1])
      <4>. HIDE DEF at
      <4>. QED BY <2>2, <3>3
    <3>. QED BY <1>10, <1>12, <2>1, <3>4
  <2>4. CASE ~(d < m)
    <3>1. (IF d < m THEN m - d ELSE 1) = 1 /\ (IF d - 1 < m THEN m - (d - 1) ELSE 1) = 1
      BY <1>1, <2>1, <2>4
    <3>2. at(d) = at(d - 1)
      BY <3>1
    <3>3. at(d) \in More(within[d - 1])
      <4>. HIDE DEF at
      <4>. QED BY <2>2, <3>2
    <3>. QED BY <1>10, <1>12, <2>1, <3>3
  <2>. QED BY <2>3, <2>4
<1>. QED BY <1>13, <1>14

\* For all import graphs, also those with cycles, the code of a module runs once
\* and after that of what it imports, but for what waits for it (eval_buf).
THEOREM EvaluatedInOrder == LoadingSpec => []EvaluationOrder
<1>1. LoadingIInv /\ Evaluation => EvaluationOrder
  <2>. SUFFICES ASSUME LoadingIInv, Evaluation
                PROVE  EvaluationOrder
    OBVIOUS
  <2>1. ran \in Seq(Nat) /\ DOMAIN ran = 1..Len(ran) /\ Len(ran) \in Nat
    BY SeqFacts DEF Evaluation, Ran
  <2>2. IsInjective(ran)
    BY <2>1 DEF Evaluation, Ran, IsInjective
  <2>3. ASSUME NEW p \in 1..Len(ran), NEW i \in ToSet(context[ran[p]].imports)
        PROVE  i \in ToSet(SubSeq(ran, 1, p - 1)) \/ ran[p] \in ReachedFrom(i)
    <3>1. CASE \E b \in 1..(p - 1) : ran[b] = i
      <4>1. PICK b \in 1..(p - 1) : ran[b] = i
        BY <3>1
      <4>2. 1 \in 1..(Len(ran) + 1) /\ p - 1 \in (1 - 1)..Len(ran) /\ p \in Nat /\ ((p - 1) - 1) + 1 = p - 1
        BY <2>1
      <4>3. /\ SubSeq(ran, 1, p - 1) \in Seq(Nat) /\ Len(SubSeq(ran, 1, p - 1)) = p - 1
            /\ \A k \in 1..(p - 1) : SubSeq(ran, 1, p - 1)[k] = ran[(1 + k) - 1]
        <5>1. /\ SubSeq(ran, 1, p - 1) \in Seq(Nat)
              /\ Len(SubSeq(ran, 1, p - 1)) = ((p - 1) - 1) + 1
              /\ \A k \in 1..(((p - 1) - 1) + 1) : SubSeq(ran, 1, p - 1)[k] = ran[(1 + k) - 1]
          BY <2>1, <4>2, PartFacts
        <5>. QED BY <4>2, <5>1
      <4>4. (1 + b) - 1 = b
        BY <4>2
      <4>5. SubSeq(ran, 1, p - 1)[b] = i /\ b \in DOMAIN SubSeq(ran, 1, p - 1)
        BY <4>1, <4>3, <4>4, SeqFacts
      <4>. QED BY <4>5, ToSetDef
    <3>2. CASE \E q, m : Chain(q, m, ran[p], i)
      BY <3>2, ChainReaches
    <3>. QED BY <3>1, <3>2 DEF Evaluation, Ordered
  <2>. QED BY <2>1, <2>2, <2>3 DEF EvaluationOrder
<1>. QED BY <1>1, InitLoadingIInv, StepLoadingIInv, InitEvaluation, StepEvaluation, PTL DEF LoadingSpec

\* In every state the program is one of those that are run, and the types are those
\* the code has: the modules of the context, what they are linked to, what is in
\* progress and what has run (js_cutome_module_loader, eval_buf).
THEOREM LoadingTyped == LoadingSpec => []LoadingTypeOK
<1>. DEFINE Steps == {"start", "resolve", "evaluate", "uv_run", "exit", "error"}
            Program == runtime \in Runtimes /\ step \in Steps
<1>1. LoadingInit => Program
  BY DEF LoadingInit
<1>2. Program /\ [LoadingNext]_loadingVars => Program'
  <2>. SUFFICES ASSUME Program, [LoadingNext]_loadingVars PROVE Program'
    OBVIOUS
  <2>1. runtime' = runtime
    BY DEF LoadingNext, loadingVars, RuntimeStart, OldRuntimeStart, Start, MainFileFails, ResolveImport,
           ImportsResolved, EvaluateImport, RunModule, ScriptThrows, EnterLoop, OldRuntimeEnds
  <2>2. step' = step \/ step' \in Steps
    BY DEF LoadingNext, loadingVars, RuntimeStart, OldRuntimeStart, Start, MainFileFails, LoadingFails,
           ResolveImport, ResolveFound, ModuleLoader, LoaderFails, ImportsResolved, EvaluateImport,
           RunModule, ScriptThrows, EnterLoop, OldRuntimeEnds
  <2>. QED BY <2>1, <2>2
<1>3. LoadingIInv /\ Evaluation /\ Program => LoadingTypeOK
  <2>. SUFFICES ASSUME LoadingIInv, Evaluation, Program PROVE LoadingTypeOK
    OBVIOUS
  <2>1. Len(context) \in Nat /\ Instances = 1..Len(context) /\ \A i \in 1..Len(context) : context[i] \in ContextModules
    BY SeqFacts DEF LoadingIInv, Instanced, Types, Instances
  <2>2. ASSUME NEW q \in Seq(Nat), \A k \in 1..Len(q) : q[k] \in Instances
        PROVE  q \in Seq(Instances)
    <3>1. Len(q) \in Nat /\ q \in [1..Len(q) -> Instances]
      BY <2>2, SeqFacts, SeqDef, LenProperties
    <3>. QED BY <3>1, SeqDef
  <2>3. ASSUME NEW i \in Instances
        PROVE  /\ context[i].name \in Importable \cup {BytecodeName[b] : b \in Builtins}
               /\ context[i].by \in Importable
               /\ context[i].requests \in Seq(Importable)
               /\ context[i].imports \in Seq(Instances)
               /\ context[i].state \in {"new", "evaluated"}
    <3>1. /\ context[i].name \in Importable \cup {BytecodeName[b] : b \in Builtins}
          /\ context[i].by \in Importable
          /\ context[i].requests \in Seq(Importable)
          /\ context[i].imports \in Seq(Nat)
          /\ context[i].state \in {"new", "evaluated"}
      BY <2>1 DEF ContextModules
    <3>2. \A k \in 1..Len(context[i].imports) : context[i].imports[k] \in Instances
      BY <2>1 DEF LoadingIInv, Instanced, Links
    <3>. QED BY <2>2, <3>1, <3>2
  <2>4. active \in Seq(Instances) /\ ran \in Seq(Instances)
    BY <2>1, <2>2 DEF Evaluation, Actives, Ran
  <2>5. IsInjective(active)
    <3>1. DOMAIN active = 1..Len(active)
      BY SeqFacts DEF Evaluation, Actives
    <3>. QED BY <3>1 DEF Evaluation, Actives, IsInjective
  <2>6. asks \in [Scripts -> Imported]
    BY DEF LoadingIInv, Instanced, Types
  <2>. QED BY <2>3, <2>4, <2>5, <2>6 DEF LoadingTypeOK
<1>. HIDE DEF Program
<1>. QED BY <1>1, <1>2, <1>3, InitLoadingIInv, StepLoadingIInv, InitEvaluation, StepEvaluation, PTL DEF LoadingSpec

-----------------------------------------------------------------------------
(* The two programs together *)

\* In the instance that TLC checks, the compiler and the runtimes each take only
\* steps of their own, so that what is proved of each of them holds there.
THEOREM ProgramsApart == ModulesSpec => ToyjscSpec /\ LoadingSpec
<1>1. ModulesInit => ToyjscInit /\ LoadingInit
  BY DEF ModulesInit
<1>2. [ModulesNext]_modulesVars => [ToyjscNext]_vars /\ [LoadingNext]_loadingVars
  BY DEF ModulesNext, modulesVars, ToyjscStep, RuntimeStep
<1>. QED BY <1>1, <1>2, PTL DEF ModulesSpec, ToyjscSpec, LoadingSpec

\* The variables of the compiler and of the runtimes have their types.
THEOREM ModulesTyped == ModulesSpec => []ModulesTypeOK
<1>1. TypeOK /\ LoadingTypeOK => ModulesTypeOK
  BY DEF ModulesTypeOK
<1>. QED BY <1>1, ProgramsApart, TypeCorrect, LoadingTyped, PTL

=============================================================================
