------------------------------ MODULE FfiProofs ------------------------------
(***************************************************************************)
(* Proofs about Ffi, for every set of signatures, functions and callbacks, *)
(* and any depth of nested calls.                                          *)
(*                                                                         *)
(* Inv strengthens the properties with what ties each kind of memory to    *)
(* its owner: a cif to the cache (CifOwner), the memory of a constructor   *)
(* to the state of its wrapper (MemOwner), a C string to the one list it   *)
(* is in (StrOwner), and a call in progress to a wrapper that has not been *)
(* freed and to the strings it lists (CallOwner).                          *)
(*                                                                         *)
(* The second half proves that Ffi implements NativeMemory for C strings,  *)
(* call interfaces and what constructors allocate (MemoryIsHeld).          *)
(***************************************************************************)
EXTENDS Ffi, DataLemmas

-----------------------------------------------------------------------------
(* The inductive invariant *)

\* Each live cif is cached with one index.
Cached ==
    /\ \A s, t \in Sigs : cifCache[s] = cifCache[t] /\ s # t => cifCache[s] = 0
    /\ \A s \in Sigs : cifCache[s] # 0 => cif[cifCache[s]] = "live"
    /\ \A k \in Cifs : cif[k] = "live" => \E s \in Sigs : cifCache[s] = k

\* Cif k was prepared for the signature s, and is live if it is still cached.
PreparedFor(k, s) ==
    /\ cif[k] # "unused"
    /\ cif[k] = "live" <=> cifCache[s] = k

CifOwner ==
    /\ Cached
    /\ \A w \in Wrappers : wrap[w] \in {"live", "freed"} =>
         wcif[w] \in Cifs /\ sig[w] \in Sigs /\ PreparedFor(wcif[w], sig[w])

MemOwner ==
    /\ \A w \in Wrappers :
         /\ wrap[w] \in {"none", "live", "freed"} => mem[w] = wrap[w]
         /\ wrap[w] = "failed" => mem[w] \in {"freed", "lost"}
    /\ \A c \in Cbs :
         /\ wrap[c] \in {"none", "live", "freed"} => closure[c] = wrap[c]
         /\ wrap[c] = "failed" => closure[c] = "lost"

\* Each live string is in one list, and only live ones are.
Listed ==
    /\ \A w \in Wrappers : \A s \in cstr[w] : str[s] = "live"
    /\ \A v, w \in Wrappers : v # w => cstr[v] \cap cstr[w] = {}
    /\ \A s \in Strs : str[s] = "live" => \E w \in Wrappers : s \in cstr[w]
    /\ \A s \in Strs : str[s] # "twice"

StrOwner ==
    /\ \A w \in Wrappers : wrap[w] # "live" => cstr[w] = {}
    /\ Listed

\* The wrapper of a call is live and lists the call's strings, when wr is the
\* state of the wrappers and cs their lists.
Owned(c, wr, cs) ==
    /\ wr[c.of] = "live"
    /\ c.of \in Cbs => c.given = 0
    /\ ~c.reused => \A p \in 1..c.given : c.args[p] \in cs[c.of]

CallOwner == \A i \in DOMAIN stack : Owned(stack[i], wrap, cstr)

Inv == MemoryTypes /\ CifOwner /\ MemOwner /\ StrOwner /\ CallOwner

-----------------------------------------------------------------------------
(* The stack *)

\* Pushing a call keeps the stack alternating if it is of the other kind than
\* the call it is made from.
LEMMA PushAlternates ==
    ASSUME NEW q \in Seq(Calls), NEW c \in Calls, Alternates(q),
           c.of \in Funs <=> (q # <<>> => Head(q).of \in Cbs)
    PROVE  <<c>> \o q \in Seq(Calls) /\ Alternates(<<c>> \o q)
<1>. DEFINE r == <<c>> \o q
<1>1. /\ r \in Seq(Calls) /\ Len(q) \in Nat /\ DOMAIN q = 1..Len(q)
      /\ DOMAIN r = 1..(Len(q) + 1) /\ r[1] = c
      /\ \A i \in 2..(Len(q) + 1) : r[i] = q[i - 1]
  BY ConsFacts
<1>2. Len(r) = Len(q) + 1
  BY <1>1, LenProperties
<1>3. q = <<>> <=> Len(q) = 0
  BY EmptySeq
<1>4. q # <<>> => Head(q) = q[1]
  BY TailFacts
<1>. HIDE DEF r
<1>5. r[1].of \in Funs <=> (1 = Len(r) \/ r[1 + 1].of \in Cbs)
  BY <1>1, <1>2, <1>3, <1>4
<1>6. ASSUME NEW i \in 2..(Len(q) + 1)
      PROVE  r[i].of \in Funs <=> (i = Len(r) \/ r[i + 1].of \in Cbs)
  <2>1. i - 1 \in DOMAIN q /\ (i - 1) + 1 = i
    BY <1>1
  <2>2. q[i - 1].of \in Funs <=> (i - 1 = Len(q) \/ q[i].of \in Cbs)
    BY <2>1 DEF Alternates
  <2>3. i # Len(r) => i + 1 \in 2..(Len(q) + 1) /\ (i + 1) - 1 = i
    BY <1>2, <1>1
  <2>4. i # Len(r) => r[i + 1] = q[i]
    BY <2>3, <1>1
  <2>5. r[i] = q[i - 1] /\ (i - 1 = Len(q) <=> i = Len(r))
    BY <1>1, <1>2
  <2>6. CASE i = Len(r)
    BY <2>6, <2>2, <2>5
  <2>7. CASE i # Len(r)
    <3>1. i - 1 # Len(q) /\ r[i + 1].of = q[i].of /\ r[i].of = q[i - 1].of
      BY <2>7, <2>4, <2>5
    <3>. QED BY <3>1, <2>7, <2>2
  <2>. QED BY <2>6, <2>7
<1>7. Alternates(r)
  BY <1>1, <1>5, <1>6 DEF Alternates
<1>. QED BY <1>1, <1>7 DEF r

\* Returning from the innermost call, with what becomes of the others.
LEMMA PopAlternates ==
    ASSUME NEW q \in Seq(Calls), q # <<>>, Alternates(q),
           NEW r \in Seq(Calls), DOMAIN r = DOMAIN Tail(q),
           \A i \in DOMAIN r : r[i].of = Tail(q)[i].of
    PROVE  Alternates(r)
<1>1. /\ DOMAIN r = 1..(Len(q) - 1) /\ Len(q) \in Nat /\ DOMAIN q = 1..Len(q)
      /\ \A i \in 1..(Len(q) - 1) : r[i].of = q[i + 1].of
  BY TailFacts
<1>2. Len(r) = Len(q) - 1
  <2>1. Len(r) \in Nat /\ DOMAIN r = 1..Len(r) /\ Len(q) \in Nat \ {0}
    BY LenProperties, TailFacts
  <2>2. \A a, b \in Nat : 1..a = 1..b => a = b
    <3>1. ASSUME NEW a \in Nat, NEW b \in Nat, a < b PROVE 1..a # 1..b
      <4>1. b \in 1..b /\ b \notin 1..a
        BY <3>1
      <4>. QED BY <4>1
    <3>2. ASSUME NEW a \in Nat, NEW b \in Nat, 1..a = 1..b PROVE a = b
      <4>1. ~(a < b) /\ ~(b < a)
        BY <3>1, <3>2, Zenon
      <4>. QED BY <4>1
    <3>. QED BY <3>2
  <2>3. 1..Len(r) = 1..(Len(q) - 1)
    BY <2>1, <1>1, Zenon
  <2>4. Len(q) - 1 \in Nat
    BY <2>1
  <2>. QED BY <2>1, <2>2, <2>3, <2>4, Zenon
<1>3. ASSUME NEW i \in DOMAIN r
      PROVE  r[i].of \in Funs <=> (i = Len(r) \/ r[i + 1].of \in Cbs)
  <2>1. i + 1 \in DOMAIN q
    BY <1>1
  <2>2. q[i + 1].of \in Funs <=> (i + 1 = Len(q) \/ q[(i + 1) + 1].of \in Cbs)
    BY <2>1 DEF Alternates
  <2>3. i # Len(r) => i + 1 \in 1..(Len(q) - 1)
    BY <1>1, <1>2
  <2>. QED BY <2>2, <2>3, <1>1, <1>2
<1>. QED BY <1>3 DEF Alternates

-----------------------------------------------------------------------------
(* The invariant *)

\* The constructors, invocations and frees of a state change only what is
\* typed: what the steps need of the constants.
LEMMA Typed ==
    /\ Wrappers = Funs \cup Cbs /\ Funs \cap Cbs = {}
    /\ Cifs = 1..MaxCif /\ MaxCif \in Nat /\ 0 \notin Cifs
    /\ Strs = 1..MaxStr /\ MaxStr \in Nat
    /\ Params = 1..NArgs /\ NArgs \in Nat
  BY FfiAssumption DEF Wrappers, Cifs, Strs, Params

LEMMA InitInv == FfiInit => Inv
<1>. SUFFICES ASSUME FfiInit PROVE Inv
  OBVIOUS
<1>1. stack = <<>> /\ stack \in Seq(Calls) /\ DOMAIN stack = {}
  BY DEF FfiInit
<1>2. MemoryTypes
  BY <1>1, Typed DEF FfiInit, MemoryTypes, Alternates, NoArgs
<1>3. CifOwner
  BY Typed DEF FfiInit, CifOwner, Cached
<1>4. MemOwner
  BY Typed DEF FfiInit, MemOwner
<1>5. StrOwner
  BY Typed DEF FfiInit, StrOwner, Listed
<1>6. CallOwner
  BY <1>1 DEF CallOwner
<1>. QED BY <1>2, <1>3, <1>4, <1>5, <1>6 DEF Inv

\* The types of the cache and of the cifs.
CifTypes ==
    /\ cifCache \in [Sigs -> 0..MaxCif]
    /\ cif \in [Cifs -> {"unused", "live", "freed", "lost"}]

\* A cif that prepCif returns is the one its index is cached with, and what
\* was prepared before stays prepared for the same signature.
LEMMA PrepCifOwner ==
    ASSUME CifTypes, Cached, NEW s \in Sigs, NEW k \in Cifs, PrepCif(s, k)
    PROVE  /\ CifTypes' /\ Cached' /\ PreparedFor(k, s)'
           /\ \A j \in Cifs, t \in Sigs : PreparedFor(j, t) => PreparedFor(j, t)'
<1>1. CASE cifCache[s] = k /\ k # 0 /\ UNCHANGED cifVars
  BY <1>1 DEF CifTypes, Cached, PreparedFor, cifVars
<1>2. CASE /\ cifCache[s] = 0 /\ cif[k] = "unused"
           /\ cif' = [cif EXCEPT ![k] = "live"]
           /\ cifCache' = [cifCache EXCEPT ![s] = k]
  <2>1. k # 0 /\ k \in 0..MaxCif
    BY Typed
  <2>2. CifTypes'
    BY <1>2, <2>1 DEF CifTypes
  <2>3. /\ \A t \in Sigs : cifCache'[t] = IF t = s THEN k ELSE cifCache[t]
        /\ \A j \in Cifs : cif'[j] = IF j = k THEN "live" ELSE cif[j]
    BY <1>2 DEF CifTypes
  <2>4. \A t \in Sigs : cifCache[t] # 0 => cifCache[t] \in Cifs /\ cifCache[t] # k
    BY <1>2, Typed DEF CifTypes, Cached
  <2>5. /\ \A t, u \in Sigs : cifCache'[t] = cifCache'[u] /\ t # u => cifCache'[t] = 0
        /\ \A t \in Sigs : cifCache'[t] # 0 => cif'[cifCache'[t]] = "live"
    BY <1>2, <2>1, <2>3, <2>4 DEF Cached
  <2>6. \A j \in Cifs : cif'[j] = "live" => \E t \in Sigs : cifCache'[t] = j
    BY <1>2, <2>1, <2>3, Typed DEF Cached
  <2>7. PreparedFor(k, s)'
    BY <2>3 DEF PreparedFor
  <2>8. ASSUME NEW j \in Cifs, NEW t \in Sigs, PreparedFor(j, t)
        PROVE  PreparedFor(j, t)'
    <3>1. j # k /\ cif'[j] = cif[j] /\ j # 0
      BY <2>8, <1>2, <2>3, Typed DEF PreparedFor
    <3>. QED BY <3>1, <2>8, <1>2, <2>3 DEF PreparedFor
  <2>. QED BY <2>2, <2>5, <2>6, <2>7, <2>8 DEF Cached
<1>. QED BY <1>1, <1>2 DEF PrepCif, NextCif

\* A prepCif that throws changes nothing that was prepared before.
LEMMA PrepCifThrowsOwner ==
    ASSUME CifTypes, Cached, NEW s \in Sigs, PrepCifThrows(s)
    PROVE  /\ CifTypes' /\ Cached'
           /\ \A j \in Cifs, t \in Sigs : PreparedFor(j, t) => PreparedFor(j, t)'
<1>. PICK k \in Cifs : /\ cif[k] = "unused"
                       /\ \/ cif' = [cif EXCEPT ![k] = "freed"]
                          \/ cif' = [cif EXCEPT ![k] = "lost"]
                          \/ cif' = cif
                       /\ cifCache' = cifCache
  BY DEF PrepCifThrows, FfiPrepCifFails, NextCif
<1>1. CifTypes'
  BY DEF CifTypes
<1>2. \A j \in Cifs : /\ cif[j] # "unused" => cif'[j] = cif[j]
                      /\ cif'[j] = "live" => cif[j] = "live"
  BY DEF CifTypes
<1>3. \A t \in Sigs : cifCache[t] # 0 => cifCache[t] \in Cifs
  BY Typed DEF CifTypes
<1>4. Cached'
  BY <1>2, <1>3 DEF Cached
<1>5. \A j \in Cifs, t \in Sigs : PreparedFor(j, t) => PreparedFor(j, t)'
  BY <1>2 DEF PreparedFor
<1>. QED BY <1>1, <1>4, <1>5

\* The types of the strings and of the lists.
StrTypes ==
    /\ cstr \in [Wrappers -> SUBSET Strs]
    /\ str \in [Strs -> {"unused", "live", "freed", "twice"}]

\* Freeing the strings of one list and listing new ones.
LEMMA RelistOwner ==
    ASSUME StrTypes, Listed, NEW w \in Wrappers, NEW new \in SUBSET Strs,
           \A s \in new : str[s] = "unused", Relist(w, new)
    PROVE  /\ StrTypes' /\ Listed'
           /\ \A v \in Wrappers : cstr'[v] = IF v = w THEN new ELSE cstr[v]
<1>1. /\ \A v \in Wrappers : cstr'[v] = IF v = w THEN new ELSE cstr[v]
      /\ cstr' \in [Wrappers -> SUBSET Strs]
  BY DEF StrTypes, Relist, Popped
<1>2. \A s \in Strs : str'[s] = IF s \in new THEN "live"
                                ELSE IF s \in cstr[w] THEN "freed" ELSE str[s]
  BY DEF StrTypes, Listed, Relist, StringsOf, Freed
<1>3. str' \in [Strs -> {"unused", "live", "freed", "twice"}]
  <2>1. str' = [s \in Strs |-> str'[s]]
    BY DEF Relist
  <2>. QED BY <2>1, <1>2 DEF StrTypes
<1>4. \A v \in Wrappers : cstr[v] \subseteq Strs /\ cstr[v] \cap new = {}
  BY DEF StrTypes, Listed
<1>5. ASSUME NEW v \in Wrappers, NEW s \in cstr'[v] PROVE str'[s] = "live"
  BY <1>1, <1>2, <1>4 DEF Listed
<1>6. ASSUME NEW v \in Wrappers, NEW u \in Wrappers, v # u
      PROVE  cstr'[v] \cap cstr'[u] = {}
  BY <1>1, <1>4, <1>6 DEF Listed
<1>7. ASSUME NEW s \in Strs, str'[s] = "live"
      PROVE  \E v \in Wrappers : s \in cstr'[v]
  BY <1>1, <1>2, <1>7 DEF Listed
<1>8. \A s \in Strs : str'[s] # "twice"
  BY <1>2 DEF Listed
<1>. QED BY <1>1, <1>3, <1>5, <1>6, <1>7, <1>8 DEF StrTypes, Listed

\* Freeing the strings of one list.
LEMMA FreeStringsOwner ==
    ASSUME StrTypes, Listed, NEW w \in Wrappers, FreeStrings(w)
    PROVE  /\ StrTypes' /\ Listed'
           /\ \A v \in Wrappers : cstr'[v] = IF v = w THEN {} ELSE cstr[v]
  BY RelistOwner DEF FreeStrings

\* The strings that invoke makes are listed, and their addresses written.
LEMMA WriteArgsOwner ==
    ASSUME StrTypes, Listed, avalues \in [Funs -> [Params -> 0..MaxStr]],
           NEW f \in Funs, NEW n \in 0..NArgs, WriteArgs(f, n)
    PROVE  /\ StrTypes' /\ Listed' /\ avalues' \in [Funs -> [Params -> 0..MaxStr]]
           /\ \A v \in Wrappers : cstr[v] \subseteq cstr'[v] /\ (v # f => cstr'[v] = cstr[v])
           /\ \A p \in 1..n : avalues'[f][p] \in cstr'[f]
<1>. PICK k \in 0..MaxStr :
        /\ Fresh(k, n)
        /\ str' = [s \in Strs |-> IF s \in (k + 1)..(k + n) THEN "live" ELSE str[s]]
        /\ cstr' = [cstr EXCEPT ![f] = @ \cup (k + 1)..(k + n)]
        /\ avalues' = [avalues EXCEPT ![f] =
                         [p \in Params |-> IF p <= n THEN k + p ELSE @[p]]]
  BY DEF WriteArgs
<1>. DEFINE new == (k + 1)..(k + n)
<1>1. f \in Wrappers /\ k \in Nat /\ n \in Nat
  BY Typed
<1>2. new \subseteq Strs /\ \A s \in new : str[s] = "unused"
  BY Typed, <1>1 DEF Fresh
<1>3. \A p \in 1..n : p \in Params /\ k + p \in new /\ k + p \in 0..MaxStr
  BY Typed, <1>1 DEF Fresh
<1>4. /\ avalues' \in [Funs -> [Params -> 0..MaxStr]]
      /\ \A p \in 1..n : avalues'[f][p] = k + p
  <2>1. \A p \in Params : p <= n => p \in 1..n
    BY Typed, <1>1
  <2>2. [p \in Params |-> IF p <= n THEN k + p ELSE avalues[f][p]] \in [Params -> 0..MaxStr]
    BY <2>1, <1>3
  <2>3. \A p \in 1..n : p <= n
    BY <1>1
  <2>. QED BY <2>2, <2>3, <1>3
<1>. HIDE DEF new
<1>5. /\ \A v \in Wrappers : cstr'[v] = IF v = f THEN cstr[v] \cup new ELSE cstr[v]
      /\ cstr' \in [Wrappers -> SUBSET Strs]
  BY <1>1, <1>2 DEF StrTypes, new
<1>6. /\ \A s \in Strs : str'[s] = IF s \in new THEN "live" ELSE str[s]
      /\ str' \in [Strs -> {"unused", "live", "freed", "twice"}]
  BY DEF StrTypes, new
<1>7. \A v \in Wrappers : cstr[v] \subseteq Strs /\ cstr[v] \cap new = {}
  BY <1>2 DEF StrTypes, Listed
<1>8. Listed'
  <2>1. ASSUME NEW v \in Wrappers, NEW s \in cstr'[v] PROVE str'[s] = "live"
    BY <1>2, <1>5, <1>6, <1>7 DEF Listed
  <2>2. ASSUME NEW v \in Wrappers, NEW u \in Wrappers, v # u
        PROVE  cstr'[v] \cap cstr'[u] = {}
    BY <1>5, <1>7, <2>2 DEF Listed
  <2>3. ASSUME NEW s \in Strs, str'[s] = "live"
        PROVE  \E v \in Wrappers : s \in cstr'[v]
    BY <1>1, <1>5, <1>6, <2>3 DEF Listed
  <2>4. \A s \in Strs : str'[s] # "twice"
    BY <1>6 DEF Listed
  <2>. QED BY <2>1, <2>2, <2>3, <2>4 DEF Listed
<1>9. \A p \in 1..n : avalues'[f][p] \in cstr'[f]
  BY <1>1, <1>3, <1>4, <1>5
<1>. QED BY <1>4, <1>5, <1>6, <1>8, <1>9 DEF StrTypes

-----------------------------------------------------------------------------
(* The steps *)

LEMMA InvTypes == Inv => CifTypes /\ Cached /\ StrTypes /\ Listed
  BY DEF Inv, MemoryTypes, CifTypes, CifOwner, StrTypes, StrOwner

\* The calls in progress are what they are typed to be.
LEMMA CallFacts ==
    ASSUME Inv, NEW i \in DOMAIN stack
    PROVE  /\ stack[i] \in Calls /\ stack[i].of \in Wrappers
           /\ stack[i].given \in 0..NArgs /\ stack[i].reused \in BOOLEAN
           /\ stack[i].args \in [Params -> 0..MaxStr]
<1>1. stack[i] \in Calls
  <2>1. stack \in Seq(Calls)
    BY DEF Inv, MemoryTypes
  <2>2. DOMAIN stack = 1..Len(stack) /\ \A j \in 1..Len(stack) : stack[j] \in Calls
    BY <2>1, LenProperties, ElementOfSeq
  <2>. QED BY <2>2
<1>. QED BY <1>1 DEF Calls

LEMMA FreeCifInv ==
    ASSUME Inv, NEW s \in Sigs, FreeCif(s) PROVE Inv'
<1>. DEFINE k == cifCache[s]
<1>1. /\ cifCache[s] # 0
      /\ cif' = [cif EXCEPT ![cifCache[s]] = "freed"]
      /\ cifCache' = [cifCache EXCEPT ![s] = 0]
      /\ UNCHANGED <<dlCache, wrap, sig, wcif, mem, closure, cstr, str, avalues, stack>>
  BY DEF FreeCif, Uncache, wrapVars, strVars
<1>2. k \in Cifs /\ k # 0 /\ cif[k] = "live"
  BY <1>1, InvTypes, Typed DEF CifTypes, Cached
<1>3. CifTypes'
  BY <1>1, <1>2, InvTypes, Typed DEF CifTypes
<1>4. /\ \A t \in Sigs : cifCache'[t] = IF t = s THEN 0 ELSE cifCache[t]
      /\ \A j \in Cifs : cif'[j] = IF j = k THEN "freed" ELSE cif[j]
  BY <1>1, <1>2, InvTypes DEF CifTypes
<1>5. \A t \in Sigs : cifCache[t] # 0 => cifCache[t] \in Cifs
  BY InvTypes, Typed DEF CifTypes
<1>. HIDE DEF k
<1>6. \A t \in Sigs : t # s => cifCache[t] # k
  BY <1>2, InvTypes DEF Cached, k
<1>7. Cached'
  <2>1. /\ \A t, u \in Sigs : cifCache'[t] = cifCache'[u] /\ t # u => cifCache'[t] = 0
        /\ \A t \in Sigs : cifCache'[t] # 0 => cif'[cifCache'[t]] = "live"
    BY <1>4, <1>5, <1>6, InvTypes DEF Cached
  <2>2. ASSUME NEW j \in Cifs, cif'[j] = "live" PROVE \E t \in Sigs : cifCache'[t] = j
    <3>1. j # k /\ cif[j] = "live"
      BY <2>2, <1>4
    <3>2. PICK t \in Sigs : cifCache[t] = j
      BY <3>1, InvTypes DEF Cached
    <3>. QED BY <3>1, <3>2, <1>4 DEF k
  <2>. QED BY <2>1, <2>2 DEF Cached
<1>8. ASSUME NEW j \in Cifs, NEW t \in Sigs, PreparedFor(j, t)
      PROVE  PreparedFor(j, t)'
  <2>1. CASE j = k
    BY <2>1, <1>2, <1>4, <1>6, <1>8 DEF PreparedFor
  <2>2. CASE j # k
    <3>1. j # 0
      BY Typed
    <3>. QED BY <3>1, <2>2, <1>4, <1>8 DEF PreparedFor, k
  <2>. QED BY <2>1, <2>2
<1>9. CifOwner'
  BY <1>1, <1>7, <1>8 DEF Inv, CifOwner
<1>10. MemoryTypes'
  BY <1>1, <1>3 DEF Inv, MemoryTypes, CifTypes
<1>11. MemOwner' /\ StrOwner' /\ CallOwner'
  BY <1>1 DEF Inv, MemOwner, StrOwner, Listed, CallOwner, Owned
<1>. QED BY <1>9, <1>10, <1>11 DEF Inv

\* Constructors and free() change a wrapper that no call in progress is of.
LEMMA CallOwnerStable ==
    ASSUME Inv, NEW w \in Wrappers, wrap[w] # "live" \/ ~OnStack(w),
           \A v \in Wrappers : v # w => wrap'[v] = wrap[v] /\ cstr'[v] = cstr[v],
           stack' = stack
    PROVE  CallOwner'
<1>1. \A i \in DOMAIN stack : stack[i].of \in Wrappers
  BY CallFacts
<1>2. \A i \in DOMAIN stack : stack[i].of # w
  BY DEF Inv, CallOwner, Owned, OnStack
<1>. QED BY <1>1, <1>2 DEF Inv, CallOwner, Owned

LEMMA NewFunctionInv ==
    ASSUME Inv, NEW f \in Funs, NEW l \in Libs, NEW s \in Sigs,
           NewFunction(f, l, s)
    PROVE  Inv'
<1>0. f \in Wrappers /\ f \notin Cbs /\ wrap[f] = "none"
      /\ dlCache' = dlCache \cup {l}
      /\ UNCHANGED <<closure, cstr, str, avalues, stack>>
  BY Typed DEF NewFunction, DlOpen, OpenFile, strVars
<1>1. CASE \E k \in Cifs : /\ PrepCif(s, k)
                           /\ wrap' = [wrap EXCEPT ![f] = "live"]
                           /\ sig' = [sig EXCEPT ![f] = s]
                           /\ wcif' = [wcif EXCEPT ![f] = k]
                           /\ mem' = [mem EXCEPT ![f] = "live"]
  <2>. PICK k \in Cifs : /\ PrepCif(s, k)
                         /\ wrap' = [wrap EXCEPT ![f] = "live"]
                         /\ sig' = [sig EXCEPT ![f] = s]
                         /\ wcif' = [wcif EXCEPT ![f] = k]
                         /\ mem' = [mem EXCEPT ![f] = "live"]
    BY <1>1
  <2>1. /\ CifTypes' /\ Cached' /\ PreparedFor(k, s)'
        /\ \A j \in Cifs, t \in Sigs : PreparedFor(j, t) => PreparedFor(j, t)'
    BY InvTypes, PrepCifOwner
  <2>2. k \in 0..MaxCif
    BY Typed
  <2>3. MemoryTypes'
    BY <1>0, <2>1, <2>2 DEF Inv, MemoryTypes, CifTypes
  <2>4. CifOwner'
    BY <1>0, <2>1 DEF Inv, MemoryTypes, CifOwner
  <2>5. MemOwner'
    BY <1>0 DEF Inv, MemoryTypes, MemOwner
  <2>6. StrOwner'
    BY <1>0 DEF Inv, MemoryTypes, StrOwner, Listed
  <2>7. CallOwner'
    BY <1>0, CallOwnerStable DEF Inv, MemoryTypes
  <2>. QED BY <2>3, <2>4, <2>5, <2>6, <2>7 DEF Inv
<1>2. CASE PrepCifThrows(s) /\ UNCHANGED <<wrap, sig, wcif, mem>>
  <2>1. /\ CifTypes' /\ Cached'
        /\ \A j \in Cifs, t \in Sigs : PreparedFor(j, t) => PreparedFor(j, t)'
    BY <1>2, InvTypes, PrepCifThrowsOwner
  <2>2. MemoryTypes'
    BY <1>0, <1>2, <2>1 DEF Inv, MemoryTypes, CifTypes
  <2>3. CifOwner'
    BY <1>2, <2>1 DEF Inv, CifOwner
  <2>4. MemOwner' /\ StrOwner' /\ CallOwner'
    BY <1>0, <1>2 DEF Inv, MemOwner, StrOwner, Listed, CallOwner, Owned
  <2>. QED BY <2>2, <2>3, <2>4 DEF Inv
<1>. QED BY <1>1, <1>2 DEF NewFunction

LEMMA NewCallbackInv ==
    ASSUME Inv, NEW c \in Cbs, NEW s \in Sigs, NewCallback(c, s) PROVE Inv'
<1>0. c \in Wrappers /\ wrap[c] = "none" /\ UNCHANGED <<dlCache, cstr, str, avalues, stack>>
  BY Typed DEF NewCallback, strVars
<1>1. CASE \E k \in Cifs :
             /\ PrepCif(s, k)
             /\ sig' = [sig EXCEPT ![c] = s]
             /\ wcif' = [wcif EXCEPT ![c] = k]
             /\ \/ /\ wrap' = [wrap EXCEPT ![c] = "live"]
                   /\ mem' = [mem EXCEPT ![c] = "live"]
                   /\ closure' = [closure EXCEPT ![c] = "live"]
                \/ /\ wrap' = [wrap EXCEPT ![c] = "failed"]
                   /\ mem' = [mem EXCEPT ![c] = "freed"]
                   /\ closure' = [closure EXCEPT ![c] = "lost"]
  <2>. PICK k \in Cifs :
             /\ PrepCif(s, k)
             /\ sig' = [sig EXCEPT ![c] = s]
             /\ wcif' = [wcif EXCEPT ![c] = k]
             /\ \/ /\ wrap' = [wrap EXCEPT ![c] = "live"]
                   /\ mem' = [mem EXCEPT ![c] = "live"]
                   /\ closure' = [closure EXCEPT ![c] = "live"]
                \/ /\ wrap' = [wrap EXCEPT ![c] = "failed"]
                   /\ mem' = [mem EXCEPT ![c] = "freed"]
                   /\ closure' = [closure EXCEPT ![c] = "lost"]
    BY <1>1
  <2>1. /\ CifTypes' /\ Cached' /\ PreparedFor(k, s)'
        /\ \A j \in Cifs, t \in Sigs : PreparedFor(j, t) => PreparedFor(j, t)'
    BY InvTypes, PrepCifOwner
  <2>2. k \in 0..MaxCif
    BY Typed
  <2>3. MemoryTypes'
    BY <1>0, <2>1, <2>2 DEF Inv, MemoryTypes, CifTypes
  <2>4. CifOwner'
    BY <1>0, <2>1 DEF Inv, MemoryTypes, CifOwner
  <2>5. MemOwner'
    <3>1. /\ \A w \in Wrappers : w # c => wrap'[w] = wrap[w] /\ mem'[w] = mem[w]
          /\ \A d \in Cbs : d # c => closure'[d] = closure[d]
          /\ \/ wrap'[c] = "live" /\ mem'[c] = "live" /\ closure'[c] = "live"
             \/ wrap'[c] = "failed" /\ mem'[c] = "freed" /\ closure'[c] = "lost"
      BY <1>0 DEF Inv, MemoryTypes
    <3>. QED BY <3>1, Typed DEF Inv, MemOwner
  <2>6. StrOwner'
    <3>1. cstr[c] = {} /\ \A w \in Wrappers : w # c => wrap'[w] = wrap[w]
      BY <1>0 DEF Inv, MemoryTypes, StrOwner
    <3>. QED BY <3>1, <1>0 DEF Inv, StrOwner, Listed
  <2>7. CallOwner'
    BY <1>0, CallOwnerStable DEF Inv, MemoryTypes
  <2>. QED BY <2>3, <2>4, <2>5, <2>6, <2>7 DEF Inv
<1>2. CASE /\ PrepCifThrows(s)
           /\ wrap' = [wrap EXCEPT ![c] = "failed"]
           /\ mem' = [mem EXCEPT ![c] = "lost"]
           /\ closure' = [closure EXCEPT ![c] = "lost"]
           /\ UNCHANGED <<sig, wcif>>
  <2>1. /\ CifTypes' /\ Cached'
        /\ \A j \in Cifs, t \in Sigs : PreparedFor(j, t) => PreparedFor(j, t)'
    BY <1>2, InvTypes, PrepCifThrowsOwner
  <2>2. MemoryTypes'
    BY <1>0, <1>2, <2>1 DEF Inv, MemoryTypes, CifTypes
  <2>3. CifOwner'
    BY <1>0, <1>2, <2>1 DEF Inv, MemoryTypes, CifOwner
  <2>4. MemOwner'
    BY <1>0, <1>2 DEF Inv, MemoryTypes, MemOwner
  <2>5. StrOwner'
    BY <1>0, <1>2 DEF Inv, MemoryTypes, StrOwner, Listed
  <2>6. CallOwner'
    BY <1>0, <1>2, CallOwnerStable DEF Inv, MemoryTypes
  <2>. QED BY <2>2, <2>3, <2>4, <2>5, <2>6 DEF Inv
<1>. QED BY <1>1, <1>2 DEF NewCallback, ClosurePrepared, ClosureRefused, ClosureLost

LEMMA FreeFunctionInv ==
    ASSUME Inv, NEW f \in Funs, FreeFunction(f) PROVE Inv'
<1>1. /\ f \in Wrappers /\ f \notin Cbs
      /\ wrap[f] \in {"live", "freed"} /\ ~OnStack(f)
      /\ wrap' = [wrap EXCEPT ![f] = "freed"]
      /\ mem' = [mem EXCEPT ![f] = IF wrap[f] = "live" THEN Freed(mem[f]) ELSE mem[f]]
      /\ FreeStrings(f)
      /\ UNCHANGED <<dlCache, cifCache, cif, sig, wcif, closure, avalues, stack>>
  BY Typed DEF FreeFunction, cifVars
<1>2. /\ StrTypes' /\ Listed'
      /\ \A v \in Wrappers : cstr'[v] = IF v = f THEN {} ELSE cstr[v]
  BY <1>1, InvTypes, FreeStringsOwner
<1>3. mem' = [mem EXCEPT ![f] = "freed"]
  BY <1>1 DEF Inv, MemOwner, Freed
<1>4. MemoryTypes'
  BY <1>1, <1>2, <1>3 DEF Inv, MemoryTypes, StrTypes
<1>5. CifOwner'
  BY <1>1 DEF Inv, MemoryTypes, CifOwner, Cached, PreparedFor
<1>6. MemOwner'
  BY <1>1, <1>3 DEF Inv, MemoryTypes, MemOwner
<1>7. StrOwner'
  BY <1>1, <1>2 DEF Inv, MemoryTypes, StrOwner
<1>8. CallOwner'
  BY <1>1, <1>2, CallOwnerStable DEF Inv, MemoryTypes
<1>. QED BY <1>4, <1>5, <1>6, <1>7, <1>8 DEF Inv

LEMMA FreeCallbackInv ==
    ASSUME Inv, NEW c \in Cbs, FreeCallback(c) PROVE Inv'
<1>1. /\ c \in Wrappers /\ wrap[c] = "live" /\ ~OnStack(c)
      /\ wrap' = [wrap EXCEPT ![c] = "freed"]
      /\ closure' = [closure EXCEPT ![c] = Freed(closure[c])]
      /\ mem' = [mem EXCEPT ![c] = Freed(mem[c])]
      /\ FreeStrings(c)
      /\ UNCHANGED <<dlCache, cifCache, cif, sig, wcif, avalues, stack>>
  BY Typed DEF FreeCallback, FfiClosureFree, cifVars
<1>2. /\ StrTypes' /\ Listed'
      /\ \A v \in Wrappers : cstr'[v] = IF v = c THEN {} ELSE cstr[v]
  BY <1>1, InvTypes, FreeStringsOwner
<1>3. mem' = [mem EXCEPT ![c] = "freed"] /\ closure' = [closure EXCEPT ![c] = "freed"]
  BY <1>1 DEF Inv, MemOwner, Freed
<1>4. MemoryTypes'
  BY <1>1, <1>2, <1>3 DEF Inv, MemoryTypes, StrTypes
<1>5. CifOwner'
  BY <1>1 DEF Inv, MemoryTypes, CifOwner, Cached, PreparedFor
<1>6. MemOwner'
  BY <1>1, <1>3 DEF Inv, MemoryTypes, MemOwner
<1>7. StrOwner'
  BY <1>1, <1>2 DEF Inv, MemoryTypes, StrOwner
<1>8. CallOwner'
  BY <1>1, <1>2, CallOwnerStable DEF Inv, MemoryTypes
<1>. QED BY <1>4, <1>5, <1>6, <1>7, <1>8 DEF Inv

\* Writing arguments changes neither cifs nor wrappers, and no call's strings
\* are freed.
LEMMA WriteArgsInv ==
    ASSUME Inv, NEW f \in Funs, NEW n \in 0..NArgs, wrap[f] = "live",
           WriteArgs(f, n), UNCHANGED <<cifVars, wrapVars>>
    PROVE  /\ CifOwner' /\ MemOwner' /\ StrOwner'
           /\ \A c \in Calls : Owned(c, wrap, cstr) => Owned(c, wrap', cstr')
<1>1. f \in Wrappers /\ UNCHANGED <<cifCache, cif, wrap, sig, wcif, mem, closure>>
  BY Typed DEF cifVars, wrapVars
<1>2. /\ StrTypes' /\ Listed'
      /\ \A v \in Wrappers : cstr[v] \subseteq cstr'[v] /\ (v # f => cstr'[v] = cstr[v])
  BY InvTypes, WriteArgsOwner DEF Inv, MemoryTypes
<1>3. CifOwner' /\ MemOwner'
  BY <1>1 DEF Inv, CifOwner, Cached, PreparedFor, MemOwner
<1>4. StrOwner'
  BY <1>1, <1>2 DEF Inv, StrOwner
<1>5. ASSUME NEW c \in Calls, Owned(c, wrap, cstr) PROVE Owned(c, wrap', cstr')
  <2>1. c.of \in Wrappers
    BY DEF Calls
  <2>. QED BY <2>1, <1>1, <1>2, <1>5 DEF Owned
<1>. QED BY <1>3, <1>4, <1>5

\* A call that is pushed on the stack joins those that are owned.
LEMMA PushOwned ==
    ASSUME Inv, NEW c \in Calls, Owned(c, wrap', cstr'), stack' = <<c>> \o stack,
           \A d \in Calls : Owned(d, wrap, cstr) => Owned(d, wrap', cstr')
    PROVE  CallOwner'
<1>1. /\ DOMAIN stack = 1..Len(stack) /\ Len(stack) \in Nat
      /\ DOMAIN stack' = 1..(Len(stack) + 1) /\ stack'[1] = c
      /\ \A i \in 2..(Len(stack) + 1) : stack'[i] = stack[i - 1]
  BY ConsFacts DEF Inv, MemoryTypes
<1>2. ASSUME NEW i \in DOMAIN stack' PROVE Owned(stack'[i], wrap', cstr')
  <2>1. CASE i = 1
    BY <2>1, <1>1
  <2>2. CASE i # 1
    <3>1. i - 1 \in DOMAIN stack /\ stack'[i] = stack[i - 1]
      BY <2>2, <1>1
    <3>2. stack[i - 1] \in Calls /\ Owned(stack[i - 1], wrap, cstr)
      BY <3>1, CallFacts DEF Inv, CallOwner
    <3>3. Owned(stack[i - 1], wrap', cstr')
      BY <3>2
    <3>. QED BY <3>1, <3>3
  <2>. QED BY <2>1, <2>2
<1>. QED BY <1>2 DEF CallOwner

LEMMA InvokeInv ==
    ASSUME Inv, NEW f \in Funs, NEW n \in 0..NArgs, Invoke(f, n) PROVE Inv'
<1>. DEFINE c == [of |-> f, args |-> avalues'[f], given |-> n, reused |-> FALSE]
<1>1. /\ InScript /\ wrap[f] = "live" /\ WriteArgs(f, n)
      /\ stack' = <<c>> \o stack /\ UNCHANGED <<dlCache, cifVars, wrapVars>>
  BY DEF Invoke, FfiCall, Usable
<1>2. /\ StrTypes' /\ avalues' \in [Funs -> [Params -> 0..MaxStr]]
      /\ \A p \in 1..n : avalues'[f][p] \in cstr'[f]
  BY <1>1, InvTypes, WriteArgsOwner DEF Inv, MemoryTypes
<1>3. c \in Calls
  BY <1>2, Typed DEF Calls
<1>4. stack' \in Seq(Calls) /\ Alternates(stack)'
  <2>1. c.of \in Funs <=> (stack # <<>> => Head(stack).of \in Cbs)
    BY <1>1 DEF InScript
  <2>2. <<c>> \o stack \in Seq(Calls) /\ Alternates(<<c>> \o stack)
    BY <1>3, <2>1, PushAlternates DEF Inv, MemoryTypes
  <2>. QED BY <1>1, <2>2 DEF Alternates
<1>5. MemoryTypes'
  BY <1>1, <1>2, <1>4 DEF Inv, MemoryTypes, StrTypes, cifVars, wrapVars
<1>6. /\ CifOwner' /\ MemOwner' /\ StrOwner'
      /\ \A d \in Calls : Owned(d, wrap, cstr) => Owned(d, wrap', cstr')
  BY <1>1, WriteArgsInv
<1>7. Owned(c, wrap', cstr')
  BY <1>1, <1>2, Typed DEF Owned, wrapVars
<1>8. CallOwner'
  BY <1>1, <1>3, <1>6, <1>7, PushOwned
<1>. QED BY <1>5, <1>6, <1>8 DEF Inv

LEMMA InvokeThrowsInv ==
    ASSUME Inv, NEW f \in Funs, NEW n \in 0..NArgs, InvokeThrows(f, n) PROVE Inv'
<1>1. /\ wrap[f] = "live" /\ WriteArgs(f, n) /\ stack' = stack
      /\ UNCHANGED <<dlCache, cifVars, wrapVars>>
  BY DEF InvokeThrows, Usable
<1>2. StrTypes' /\ avalues' \in [Funs -> [Params -> 0..MaxStr]]
  BY <1>1, InvTypes, WriteArgsOwner DEF Inv, MemoryTypes
<1>3. MemoryTypes'
  BY <1>1, <1>2 DEF Inv, MemoryTypes, StrTypes, cifVars, wrapVars, Alternates
<1>4. /\ CifOwner' /\ MemOwner' /\ StrOwner'
      /\ \A d \in Calls : Owned(d, wrap, cstr) => Owned(d, wrap', cstr')
  BY <1>1, WriteArgsInv
<1>5. CallOwner'
  BY <1>1, <1>4, CallFacts DEF Inv, CallOwner
<1>. QED BY <1>3, <1>4, <1>5 DEF Inv

LEMMA CallBackInv ==
    ASSUME Inv, NEW b \in Cbs, CallBack(b) PROVE Inv'
<1>. DEFINE c == [of |-> b, args |-> NoArgs, given |-> 0, reused |-> FALSE]
<1>1. /\ InNative /\ wrap[b] = "live" /\ stack' = <<c>> \o stack
      /\ UNCHANGED <<dlCache, cifCache, cif, wrap, sig, wcif, mem, closure, cstr, str, avalues>>
  BY DEF CallBack, Usable, cifVars, wrapVars, strVars
<1>2. c \in Calls
  BY Typed DEF Calls, NoArgs
<1>3. stack' \in Seq(Calls) /\ Alternates(stack)'
  <2>1. c.of \in Funs <=> (stack # <<>> => Head(stack).of \in Cbs)
    BY <1>1, Typed DEF InNative
  <2>2. <<c>> \o stack \in Seq(Calls) /\ Alternates(<<c>> \o stack)
    BY <1>2, <2>1, PushAlternates DEF Inv, MemoryTypes
  <2>. QED BY <1>1, <2>2 DEF Alternates
<1>4. MemoryTypes'
  BY <1>1, <1>3 DEF Inv, MemoryTypes
<1>5. CifOwner' /\ MemOwner' /\ StrOwner'
  BY <1>1 DEF Inv, CifOwner, Cached, PreparedFor, MemOwner, StrOwner, Listed
<1>6. Owned(c, wrap', cstr') /\ \A d \in Calls : Owned(d, wrap, cstr) => Owned(d, wrap', cstr')
  <2>1. wrap' = wrap /\ cstr' = cstr /\ wrap'[b] = "live" /\ 1..0 = {}
    BY <1>1
  <2>2. Owned(c, wrap', cstr')
    BY <2>1 DEF Owned
  <2>3. \A d \in Calls : Owned(d, wrap, cstr) => Owned(d, wrap', cstr')
    BY <2>1, Zenon
  <2>. QED BY <2>2, <2>3
<1>7. CallOwner'
  BY <1>1, <1>2, <1>6, PushOwned
<1>. QED BY <1>4, <1>5, <1>7 DEF Inv

LEMMA NativeReturnInv ==
    ASSUME Inv, NativeReturn PROVE Inv'
<1>. DEFINE f == Head(stack).of
            rest == Tail(stack)
<1>1. /\ stack # <<>> /\ f \in Funs /\ FreeStrings(f)
      /\ stack' = [i \in DOMAIN rest |-> [rest[i] EXCEPT !.reused = @ \/ rest[i].of = f]]
      /\ UNCHANGED <<dlCache, cifCache, cif, wrap, sig, wcif, mem, closure, avalues>>
  BY DEF NativeReturn, InNative, cifVars, wrapVars
<1>2. /\ stack \in Seq(Calls) /\ rest \in Seq(Calls) /\ Len(stack) \in Nat \ {0}
      /\ DOMAIN stack = 1..Len(stack) /\ DOMAIN rest = 1..(Len(stack) - 1)
      /\ \A i \in 1..(Len(stack) - 1) : rest[i] = stack[i + 1] /\ i + 1 \in DOMAIN stack
      /\ Head(stack) = stack[1] /\ 1 \in DOMAIN stack
  BY <1>1, TailFacts DEF Inv, MemoryTypes
<1>3. f \in Wrappers /\ wrap[f] = "live"
  BY <1>1, <1>2, Typed DEF Inv, CallOwner, Owned
<1>4. /\ StrTypes' /\ Listed'
      /\ \A v \in Wrappers : cstr'[v] = IF v = f THEN {} ELSE cstr[v]
  BY <1>1, <1>3, InvTypes, FreeStringsOwner
<1>. HIDE DEF f, rest
<1>5. ASSUME NEW i \in DOMAIN rest
      PROVE  /\ rest[i] \in Calls /\ Owned(rest[i], wrap, cstr)
             /\ stack'[i] \in Calls
             /\ stack'[i].of = rest[i].of /\ stack'[i].given = rest[i].given
             /\ stack'[i].args = rest[i].args
             /\ stack'[i].reused = (rest[i].reused \/ rest[i].of = f)
  <2>1. rest[i] = stack[i + 1] /\ i + 1 \in DOMAIN stack
    BY <1>2
  <2>2. rest[i] \in Calls /\ Owned(rest[i], wrap, cstr)
    BY <2>1, CallFacts DEF Inv, CallOwner
  <2>3. stack'[i] = [rest[i] EXCEPT !.reused = (rest[i].reused \/ rest[i].of = f)]
    BY <1>1
  <2>. QED BY <2>2, <2>3 DEF Calls
<1>6. DOMAIN stack' = DOMAIN rest
  BY <1>1
<1>7. stack' \in Seq(Calls)
  <2>1. Len(stack) - 1 \in Nat /\ stack' = [i \in 1..(Len(stack) - 1) |-> stack'[i]]
    BY <1>1, <1>2
  <2>2. \A i \in 1..(Len(stack) - 1) : stack'[i] \in Calls
    BY <1>2, <1>5
  <2>. QED BY <2>1, <2>2, IsASeq
<1>8. Alternates(stack)'
  <2>1. Alternates(stack')
    BY <1>1, <1>2, <1>5, <1>6, <1>7, PopAlternates DEF Inv, MemoryTypes, rest
  <2>. QED BY <2>1 DEF Alternates
<1>9. MemoryTypes'
  BY <1>1, <1>4, <1>7, <1>8 DEF Inv, MemoryTypes, StrTypes
<1>10. CifOwner' /\ MemOwner'
  BY <1>1 DEF Inv, CifOwner, Cached, PreparedFor, MemOwner
<1>11. StrOwner'
  BY <1>1, <1>3, <1>4 DEF Inv, StrOwner
<1>12. ASSUME NEW i \in DOMAIN rest PROVE Owned(stack'[i], wrap', cstr')
  <2>1. rest[i].of \in Wrappers /\ rest[i].reused \in BOOLEAN
    BY <1>5 DEF Calls
  <2>. QED BY <2>1, <1>1, <1>4, <1>5 DEF Owned
<1>13. CallOwner'
  BY <1>6, <1>12 DEF CallOwner
<1>. QED BY <1>9, <1>10, <1>11, <1>13 DEF Inv

\* A callback returns to native code, its list changed or not.
LEMMA AdapterInv ==
    ASSUME Inv, stack # <<>>, Head(stack).of \in Cbs, stack' = Tail(stack),
           StrTypes', Listed',
           \A v \in Wrappers : v # Head(stack).of => cstr'[v] = cstr[v],
           UNCHANGED <<dlCache, cifVars, wrapVars, avalues>>
    PROVE  Inv'
<1>. DEFINE c == Head(stack).of
<1>1. UNCHANGED <<dlCache, cifCache, cif, wrap, sig, wcif, mem, closure, avalues>>
  BY DEF cifVars, wrapVars
<1>2. /\ stack \in Seq(Calls) /\ stack' \in Seq(Calls) /\ Len(stack) \in Nat \ {0}
      /\ DOMAIN stack = 1..Len(stack) /\ DOMAIN stack' = 1..(Len(stack) - 1)
      /\ \A i \in 1..(Len(stack) - 1) : stack'[i] = stack[i + 1] /\ i + 1 \in DOMAIN stack
      /\ Head(stack) = stack[1] /\ 1 \in DOMAIN stack
  BY TailFacts DEF Inv, MemoryTypes
<1>3. c \in Wrappers /\ wrap[c] = "live"
  BY <1>2, Typed DEF Inv, CallOwner, Owned
<1>4. Alternates(stack)'
  <2>1. Alternates(stack')
    BY <1>2, PopAlternates DEF Inv, MemoryTypes
  <2>. QED BY <2>1 DEF Alternates
<1>5. MemoryTypes'
  BY <1>1, <1>2, <1>4 DEF Inv, MemoryTypes, StrTypes
<1>6. CifOwner' /\ MemOwner'
  BY <1>1 DEF Inv, CifOwner, Cached, PreparedFor, MemOwner
<1>7. StrOwner'
  BY <1>1, <1>3 DEF Inv, StrOwner
<1>8. ASSUME NEW i \in DOMAIN stack' PROVE Owned(stack'[i], wrap', cstr')
  <2>1. stack'[i] = stack[i + 1] /\ i + 1 \in DOMAIN stack
    BY <1>2
  <2>2. /\ stack'[i] \in Calls /\ stack'[i].of \in Wrappers
        /\ Owned(stack'[i], wrap, cstr)
    BY <2>1, CallFacts DEF Inv, CallOwner
  <2>3. CASE stack'[i].of = c
    <3>1. stack'[i].given = 0 /\ 1..0 = {}
      BY <2>2, <2>3 DEF Owned
    <3>. QED BY <3>1, <2>2, <1>1 DEF Owned
  <2>4. CASE stack'[i].of # c
    BY <2>2, <2>4, <1>1 DEF Owned
  <2>. QED BY <2>3, <2>4
<1>9. CallOwner'
  BY <1>8 DEF CallOwner
<1>. QED BY <1>5, <1>6, <1>7, <1>9 DEF Inv

LEMMA AdapterReturnInv ==
    ASSUME Inv, NEW n \in 0..NArgs, AdapterReturn(n) PROVE Inv'
<1>. DEFINE c == Head(stack).of
<1>1. PICK k \in 0..MaxStr : Fresh(k, n) /\ Relist(c, (k + 1)..(k + n))
  BY DEF AdapterReturn
<1>2. /\ stack # <<>> /\ c \in Cbs /\ stack' = Tail(stack)
      /\ UNCHANGED <<dlCache, cifVars, wrapVars, avalues>>
  BY DEF AdapterReturn
<1>3. c \in Wrappers /\ k \in Nat /\ n \in Nat
  BY <1>2, Typed
<1>4. (k + 1)..(k + n) \subseteq Strs /\ \A s \in (k + 1)..(k + n) : str[s] = "unused"
  BY <1>1, <1>3, Typed DEF Fresh
<1>5. /\ StrTypes' /\ Listed'
      /\ \A v \in Wrappers : v # c => cstr'[v] = cstr[v]
  BY <1>1, <1>3, <1>4, InvTypes, RelistOwner
<1>. QED BY <1>2, <1>5, AdapterInv

LEMMA AdapterThrowInv ==
    ASSUME Inv, AdapterThrow PROVE Inv'
<1>1. /\ stack # <<>> /\ Head(stack).of \in Cbs /\ stack' = Tail(stack)
      /\ UNCHANGED <<dlCache, cifVars, wrapVars, avalues>> /\ cstr' = cstr /\ str' = str
  BY DEF AdapterThrow, strVars
<1>2. StrTypes' /\ Listed'
  BY <1>1, InvTypes DEF StrTypes, Listed
<1>. QED BY <1>1, <1>2, AdapterInv

\* Of what the invariant is about dlSym changes nothing.
LEMMA DlSymThrowsInv ==
    ASSUME Inv, NEW l \in Libs, DlSymThrows(l) PROVE Inv'
  BY DEF DlSymThrows, DlOpen, OpenFile, cifVars, wrapVars, strVars, Inv, MemoryTypes, CifOwner, Cached,
         PreparedFor, MemOwner, StrOwner, Listed, CallOwner, Owned, Alternates

LEMMA NextInv == Inv /\ [FfiNext]_vars => Inv'
<1>. SUFFICES ASSUME Inv, [FfiNext]_vars PROVE Inv'
  OBVIOUS
<1>1. CASE \E s \in Sigs : FreeCif(s)
  BY <1>1, FreeCifInv
<1>2. CASE \E f \in Funs, l \in Libs, s \in Sigs : NewFunction(f, l, s)
  BY <1>2, NewFunctionInv
<1>3. CASE \E f \in Funs : FreeFunction(f)
  BY <1>3, FreeFunctionInv
<1>4. CASE \E f \in Funs, n \in 0..NArgs : Invoke(f, n)
  BY <1>4, InvokeInv
<1>5. CASE \E f \in Funs, n \in 0..NArgs : InvokeThrows(f, n)
  BY <1>5, InvokeThrowsInv
<1>6. CASE \E c \in Cbs, s \in Sigs : NewCallback(c, s)
  BY <1>6, NewCallbackInv
<1>7. CASE \E c \in Cbs : FreeCallback(c)
  BY <1>7, FreeCallbackInv
<1>8. CASE \E c \in Cbs : CallBack(c)
  BY <1>8, CallBackInv
<1>9. CASE NativeReturn
  BY <1>9, NativeReturnInv
<1>10. CASE \E n \in 0..NArgs : AdapterReturn(n)
  BY <1>10, AdapterReturnInv
<1>11. CASE AdapterThrow
  BY <1>11, AdapterThrowInv
<1>12. CASE UNCHANGED vars
  BY <1>12 DEF vars, cifVars, wrapVars, strVars, Inv, MemoryTypes, CifOwner, Cached, PreparedFor,
               MemOwner, StrOwner, Listed, CallOwner, Owned, Alternates
<1>13. CASE \E l \in Libs : DlSymThrows(l)
  BY <1>13, DlSymThrowsInv
<1>. QED BY <1>1, <1>2, <1>3, <1>4, <1>5, <1>6, <1>7, <1>8, <1>9, <1>10, <1>11, <1>12, <1>13
     DEF FfiNext

\* Inv holds in every reachable state.
THEOREM Invariance == FfiSpec => []Inv
  BY InitInv, NextInv, PTL DEF FfiSpec

-----------------------------------------------------------------------------
(* The properties *)

\* A wrapper's cif is good exactly while its index is cached (prepCif, freeCif).
THEOREM CifsCached == FfiSpec => []CifLiveIffCached
<1>1. Inv => CifLiveIffCached
  BY DEF Inv, CifOwner, Cached, PreparedFor, CifLiveIffCached
<1>. QED BY <1>1, Invariance, PTL

\* Native code finds the strings it was called with live for as long as it
\* runs, unless its own function is invoked again inside (invoke, adapter).
LEMMA ArgumentsStayLive == FfiSpec => []ArgumentsLive
<1>1. ASSUME Inv, NEW i \in DOMAIN stack, ~stack[i].reused, NEW p \in 1..stack[i].given
      PROVE  str[stack[i].args[p]] = "live"
  <2>1. stack[i].of \in Wrappers /\ stack[i].args[p] \in cstr[stack[i].of]
    BY <1>1, CallFacts DEF Inv, CallOwner, Owned
  <2>. QED BY <2>1, <1>1 DEF Inv, StrOwner, Listed
<1>2. Inv => ArgumentsLive
  BY <1>1 DEF ArgumentsLive
<1>. QED BY <1>2, Invariance, PTL

\* No memory is freed twice, in any order of calls, throws and frees (the
\* allocators' free, CFunction.free, CCallback.free).
THEOREM FreedOnce == FfiSpec => []NothingFreedTwice
<1>1. ASSUME Inv PROVE NothingFreedTwice
  <2>1. \A w \in Wrappers : wrap[w] \in {"none", "live", "freed", "failed"}
    BY <1>1 DEF Inv, MemoryTypes
  <2>2. \A c \in Cbs : c \in Wrappers
    BY Typed
  <2>. QED BY <1>1, <2>1, <2>2 DEF Inv, MemOwner, StrOwner, Listed, NothingFreedTwice
<1>. QED BY <1>1, Invariance, PTL

\* When every wrapper and every cif has been freed, nothing is allocated but
\* what constructors that threw have lost (freeCif, CFunction, CCallback).
THEOREM NothingLeaks == FfiSpec => []NoLeak
<1>1. ASSUME Inv, \A w \in Wrappers : wrap[w] # "live", \A s \in Sigs : cifCache[s] = 0
      PROVE  /\ \A s \in Strs : str[s] # "live"
             /\ \A k \in Cifs : cif[k] # "live"
             /\ \A w \in Wrappers : mem[w] # "live"
             /\ \A c \in Cbs : closure[c] # "live"
  <2>1. \A s \in Strs : str[s] # "live"
    BY <1>1 DEF Inv, StrOwner, Listed
  <2>2. \A k \in Cifs : cif[k] # "live"
    BY <1>1, Typed DEF Inv, CifOwner, Cached
  <2>3. \A w \in Wrappers : wrap[w] \in {"none", "freed", "failed"}
    BY <1>1 DEF Inv, MemoryTypes
  <2>. QED BY <1>1, <2>1, <2>2, <2>3, Typed DEF Inv, MemOwner
<1>2. Inv => NoLeak
  BY <1>1 DEF NoLeak
<1>. QED BY <1>2, Invariance, PTL

-----------------------------------------------------------------------------
(* Calls in progress use live call interfaces *)

\* The cif of a wrapper whose call is in progress is live: the script does not
\* free it then, and nothing else does.
InUse == \A i \in DOMAIN stack : Usable(stack[i].of)

LEMMA OnStackIs ==
    ASSUME Inv, NEW w \in Wrappers, OnStack(w)
    PROVE  wrap[w] = "live" /\ wcif[w] \in Cifs /\ sig[w] \in Sigs
  BY DEF OnStack, Inv, CallOwner, Owned, CifOwner

\* Preparing another cif leaves those that are live.
LEMMA PrepCifKeepsLive ==
    ASSUME CifTypes, NEW s \in Sigs, (\E k \in Cifs : PrepCif(s, k)) \/ PrepCifThrows(s)
    PROVE  \A j \in Cifs : cif[j] = "live" => cif'[j] = "live"
<1>1. CASE \E k \in Cifs : PrepCif(s, k)
  BY <1>1 DEF PrepCif, NextCif, CifTypes, cifVars
<1>2. CASE PrepCifThrows(s)
  BY <1>2 DEF PrepCifThrows, NextCif, CifTypes, FfiPrepCifFails
<1>. QED BY <1>1, <1>2

\* While the stack is the same and its wrappers keep their live cifs.
LEMMA InUseStable ==
    ASSUME Inv, InUse, stack' = stack,
           \A w \in Wrappers : OnStack(w) =>
             wrap'[w] = wrap[w] /\ wcif'[w] = wcif[w] /\ cif'[wcif[w]] = cif[wcif[w]]
    PROVE  InUse'
<1>1. ASSUME NEW i \in DOMAIN stack'
      PROVE  /\ wrap'[stack'[i].of] = "live" /\ wcif'[stack'[i].of] # 0
             /\ cif'[wcif'[stack'[i].of]] = "live"
  <2>. DEFINE w == stack[i].of
  <2>1. w \in Wrappers /\ OnStack(w) /\ Usable(w) /\ stack'[i].of = w
    BY CallFacts DEF OnStack, InUse
  <2>2. wrap'[w] = wrap[w] /\ wcif'[w] = wcif[w] /\ cif'[wcif[w]] = cif[wcif[w]]
    BY <2>1
  <2>. HIDE DEF w
  <2>. QED BY <2>1, <2>2 DEF Usable
<1>. QED BY <1>1 DEF InUse, Usable

\* A call that is pushed on the stack, of a wrapper that is usable.
LEMMA InUsePushed ==
    ASSUME Inv, InUse, NEW c \in Calls, Usable(c.of), stack' = <<c>> \o stack,
           UNCHANGED <<wrap, wcif, cif>>
    PROVE  InUse'
<1>1. /\ DOMAIN stack = 1..Len(stack) /\ Len(stack) \in Nat
      /\ DOMAIN stack' = 1..(Len(stack) + 1) /\ stack'[1] = c
      /\ \A i \in 2..(Len(stack) + 1) : stack'[i] = stack[i - 1]
  BY ConsFacts DEF Inv, MemoryTypes
<1>2. ASSUME NEW i \in DOMAIN stack' PROVE Usable(stack'[i].of)
  <2>1. CASE i = 1
    BY <2>1, <1>1
  <2>2. CASE i # 1
    <3>1. i - 1 \in DOMAIN stack /\ stack'[i] = stack[i - 1]
      BY <2>2, <1>1
    <3>. QED BY <3>1 DEF InUse
  <2>. QED BY <2>1, <2>2
<1>3. \A i \in DOMAIN stack' : /\ wrap'[stack'[i].of] = "live" /\ wcif'[stack'[i].of] # 0
                              /\ cif'[wcif'[stack'[i].of]] = "live"
  BY <1>2 DEF Usable
<1>. QED BY <1>3 DEF InUse, Usable

\* The innermost call returns.
LEMMA InUsePopped ==
    ASSUME Inv, InUse, stack # <<>>, DOMAIN stack' = DOMAIN Tail(stack),
           \A i \in DOMAIN stack' : stack'[i].of = Tail(stack)[i].of,
           UNCHANGED <<wrap, wcif, cif>>
    PROVE  InUse'
<1>1. /\ DOMAIN Tail(stack) = 1..(Len(stack) - 1) /\ DOMAIN stack = 1..Len(stack) /\ Len(stack) \in Nat
      /\ \A i \in 1..(Len(stack) - 1) : Tail(stack)[i] = stack[i + 1]
  BY TailFacts DEF Inv, MemoryTypes
<1>2. \A i \in DOMAIN stack' : i + 1 \in DOMAIN stack /\ stack'[i].of = stack[i + 1].of
  BY <1>1
<1>3. \A i \in DOMAIN stack' : /\ wrap'[stack'[i].of] = "live" /\ wcif'[stack'[i].of] # 0
                              /\ cif'[wcif'[stack'[i].of]] = "live"
  BY <1>2 DEF InUse, Usable
<1>. QED BY <1>3 DEF InUse, Usable

\* What a return makes of the other calls.
LEMMA ReturnFacts ==
    ASSUME Inv, NativeReturn \/ AdapterThrow \/ \E n \in 0..NArgs : AdapterReturn(n)
    PROVE  /\ stack # <<>> /\ DOMAIN stack' = DOMAIN Tail(stack)
           /\ \A i \in DOMAIN stack' : /\ stack'[i].of = Tail(stack)[i].of
                                       /\ stack'[i].args = Tail(stack)[i].args
           /\ UNCHANGED <<cifVars, wrapVars>>
<1>1. CASE NativeReturn
  <2>. DEFINE f == Head(stack).of
  <2>1. /\ stack # <<>> /\ UNCHANGED <<cifVars, wrapVars>>
        /\ stack' = [i \in DOMAIN Tail(stack) |->
                       [Tail(stack)[i] EXCEPT !.reused = @ \/ Tail(stack)[i].of = f]]
    BY <1>1 DEF NativeReturn, InNative
  <2>2. \A i \in DOMAIN Tail(stack) : Tail(stack)[i] \in Calls
    <3>1. Tail(stack) \in Seq(Calls)
      BY <2>1, TailFacts DEF Inv, MemoryTypes
    <3>. QED BY <3>1, SeqFacts
  <2>. HIDE DEF f
  <2>3. ASSUME NEW i \in DOMAIN stack'
        PROVE  stack'[i].of = Tail(stack)[i].of /\ stack'[i].args = Tail(stack)[i].args
    <3>. DEFINE c == Tail(stack)[i]
    <3>1. c \in Calls /\ stack'[i] = [c EXCEPT !.reused = @ \/ c.of = f]
      BY <2>1, <2>2
    <3>. HIDE DEF c
    <3>2. stack'[i].of = c.of /\ stack'[i].args = c.args
      BY <3>1 DEF Calls
    <3>. QED BY <3>2 DEF c
  <2>. QED BY <2>1, <2>3
<1>2. CASE AdapterThrow
  BY <1>2 DEF AdapterThrow
<1>3. CASE \E n \in 0..NArgs : AdapterReturn(n)
  BY <1>3 DEF AdapterReturn
<1>. QED BY <1>1, <1>2, <1>3

\* A call that begins is of a usable wrapper.
LEMMA StartFacts ==
    ASSUME Inv, NEW w \in Wrappers, CallBack(w) \/ \E n \in 0..NArgs : w \in Funs /\ Invoke(w, n)
    PROVE  /\ Usable(w) /\ UNCHANGED <<cifVars, wrapVars>>
           /\ \E c \in Calls : c.of = w /\ stack' = <<c>> \o stack
<1>1. CASE CallBack(w)
  <2>. DEFINE c == [of |-> w, args |-> NoArgs, given |-> 0, reused |-> FALSE]
  <2>1. Usable(w) /\ UNCHANGED <<cifVars, wrapVars>> /\ stack' = <<c>> \o stack
    BY <1>1 DEF CallBack
  <2>2. c \in Calls /\ c.of = w
    BY Typed DEF Calls, NoArgs
  <2>. QED BY <2>1, <2>2
<1>2. ASSUME NEW n \in 0..NArgs, w \in Funs, Invoke(w, n)
      PROVE  /\ Usable(w) /\ UNCHANGED <<cifVars, wrapVars>>
             /\ \E c \in Calls : c.of = w /\ stack' = <<c>> \o stack
  <2>. DEFINE c == [of |-> w, args |-> avalues'[w], given |-> n, reused |-> FALSE]
  <2>1. Usable(w) /\ UNCHANGED <<cifVars, wrapVars>> /\ WriteArgs(w, n) /\ stack' = <<c>> \o stack
    BY <1>2 DEF Invoke, FfiCall
  <2>2. avalues' \in [Funs -> [Params -> 0..MaxStr]]
    BY <1>2, <2>1, InvTypes, WriteArgsOwner DEF Inv, MemoryTypes
  <2>3. c \in Calls /\ c.of = w
    BY <1>2, <2>2, Typed DEF Calls
  <2>. QED BY <2>1, <2>3
<1>. QED BY <1>1, <1>2

LEMMA InUseNext ==
    ASSUME Inv, InUse, [FfiNext]_vars
    PROVE  InUse'
<1>1. ASSUME NEW s \in Sigs, FreeCif(s) PROVE InUse'
  <2>1. /\ stack' = stack /\ wrap' = wrap /\ wcif' = wcif
        /\ cif' = [cif EXCEPT ![cifCache[s]] = "freed"]
        /\ \A w \in Wrappers : wcif[w] = cifCache[s] => ~OnStack(w)
    BY <1>1 DEF FreeCif, wrapVars
  <2>2. \A w \in Wrappers : OnStack(w) => cif'[wcif[w]] = cif[wcif[w]]
    BY <2>1, OnStackIs, InvTypes DEF CifTypes
  <2>. QED BY <2>1, <2>2, InUseStable
<1>2. ASSUME NEW w \in Wrappers, NEW s \in Sigs,
             NewCallback(w, s) \/ \E l \in Libs : NewFunction(w, l, s)
      PROVE  InUse'
  <2>1. /\ stack' = stack /\ wrap[w] = "none"
        /\ \A v \in Wrappers : v # w => wrap'[v] = wrap[v] /\ wcif'[v] = wcif[v]
        /\ (\E k \in Cifs : PrepCif(s, k)) \/ PrepCifThrows(s)
    BY <1>2 DEF NewFunction, NewCallback, ClosurePrepared, ClosureRefused, ClosureLost, Inv, MemoryTypes
  <2>2. \A j \in Cifs : cif[j] = "live" => cif'[j] = "live"
    BY <2>1, InvTypes, PrepCifKeepsLive
  <2>3. ASSUME NEW v \in Wrappers, OnStack(v)
        PROVE  wrap'[v] = wrap[v] /\ wcif'[v] = wcif[v] /\ cif'[wcif[v]] = cif[wcif[v]]
    <3>1. v # w /\ wcif[v] \in Cifs
      BY <2>1, <2>3, OnStackIs
    <3>2. cif[wcif[v]] = "live"
      BY <2>3 DEF OnStack, InUse, Usable
    <3>. QED BY <2>1, <2>2, <3>1, <3>2
  <2>. QED BY <2>1, <2>3, InUseStable
<1>3. ASSUME NEW w \in Wrappers, FreeFunction(w) \/ FreeCallback(w) PROVE InUse'
  <2>1. /\ stack' = stack /\ ~OnStack(w) /\ UNCHANGED <<cif, wcif>>
        /\ \A v \in Wrappers : v # w => wrap'[v] = wrap[v]
    BY <1>3 DEF FreeFunction, FreeCallback, cifVars, Inv, MemoryTypes
  <2>2. \A v \in Wrappers : OnStack(v) =>
          wrap'[v] = wrap[v] /\ wcif'[v] = wcif[v] /\ cif'[wcif[v]] = cif[wcif[v]]
    BY <2>1
  <2>. QED BY <2>1, <2>2, InUseStable
<1>4. ASSUME NEW w \in Wrappers, CallBack(w) \/ \E n \in 0..NArgs : w \in Funs /\ Invoke(w, n)
      PROVE  InUse'
  BY <1>4, StartFacts, InUsePushed DEF cifVars, wrapVars
<1>5. CASE NativeReturn \/ AdapterThrow \/ \E n \in 0..NArgs : AdapterReturn(n)
  BY <1>5, ReturnFacts, InUsePopped DEF cifVars, wrapVars
<1>6. CASE \/ \E l \in Libs : DlSymThrows(l)
           \/ \E f \in Funs, n \in 0..NArgs : InvokeThrows(f, n)
           \/ UNCHANGED vars
  <2>1. UNCHANGED <<stack, wrap, wcif, cif>>
    BY <1>6 DEF DlSymThrows, InvokeThrows, vars, cifVars, wrapVars
  <2>. QED BY <2>1 DEF InUse, Usable
<1>. QED BY <1>1, <1>2, <1>3, <1>4, <1>5, <1>6, Typed DEF FfiNext

-----------------------------------------------------------------------------
(* The callers of the memory that is held *)

\* A sequence with an element put before it, and one without its first element.
LEMMA FirstPut ==
    ASSUME NEW V, NEW n \in Nat, NEW u \in [1..n -> V], NEW h \in V
    PROVE  /\ <<h>> \o u = [i \in 1..(n + 1) |-> (<<h>> \o u)[i]]
           /\ (<<h>> \o u)[1] = h /\ \A i \in 2..(n + 1) : (<<h>> \o u)[i] = u[i - 1]
<1>. DEFINE r == <<h>> \o u
<1>1. u \in Seq(V) /\ DOMAIN u = 1..n /\ Len(u) = n
  BY LenProperties
<1>2. /\ r \in Seq(V) /\ DOMAIN r = 1..(n + 1) /\ r[1] = h
      /\ \A i \in 2..(n + 1) : r[i] = u[i - 1]
  BY <1>1, ConsFacts
<1>. HIDE DEF r
<1>3. r = [i \in 1..(n + 1) |-> r[i]]
  BY <1>2
<1>. QED BY <1>2, <1>3 DEF r

LEMMA FirstTaken ==
    ASSUME NEW V, NEW n \in Nat \ {0}, NEW u \in [1..n -> V],
           NEW v, v = [i \in 1..(n - 1) |-> v[i]], \A i \in 1..(n - 1) : v[i] = u[i + 1]
    PROVE  u # <<>> /\ v = Tail(u) /\ Head(u) = u[1]
<1>1. u \in Seq(V) /\ DOMAIN u = 1..n /\ Len(u) = n
  BY LenProperties
<1>2. u # <<>>
  BY <1>1
<1>. DEFINE r == Tail(u)
<1>3. /\ r \in Seq(V) /\ DOMAIN r = 1..(n - 1) /\ Head(u) = u[1]
      /\ \A i \in 1..(n - 1) : r[i] = u[i + 1]
  BY <1>1, <1>2, TailFacts
<1>. HIDE DEF r
<1>4. r = [i \in 1..(n - 1) |-> r[i]]
  BY <1>3
<1>. QED BY <1>2, <1>3, <1>4 DEF r

LEMMA CallersTypes ==
    ASSUME Inv
    PROVE  /\ Callers \in [1..Len(stack) -> Wrappers] /\ CallerSigs \in [1..Len(stack) -> Sigs]
           /\ Len(stack) \in Nat /\ DOMAIN stack = 1..Len(stack)
           /\ \A i \in 1..Len(stack) : Callers[i] = stack[i].of /\ CallerSigs[i] = sig[stack[i].of]
<1>1. Len(stack) \in Nat /\ DOMAIN stack = 1..Len(stack)
  BY LenProperties DEF Inv, MemoryTypes
<1>2. \A i \in 1..Len(stack) : stack[i].of \in Wrappers /\ sig[stack[i].of] \in Sigs
  <2>. SUFFICES ASSUME NEW i \in 1..Len(stack)
                PROVE  stack[i].of \in Wrappers /\ sig[stack[i].of] \in Sigs
    OBVIOUS
  <2>1. stack[i].of \in Wrappers /\ OnStack(stack[i].of)
    BY <1>1, CallFacts DEF OnStack
  <2>. QED BY <2>1, OnStackIs
<1>. QED BY <1>1, <1>2 DEF Callers, CallerSigs

\* A call begins.
LEMMA CallersStart ==
    ASSUME Inv, NEW w \in Wrappers, CallBack(w) \/ \E n \in 0..NArgs : w \in Funs /\ Invoke(w, n)
    PROVE  Callers' = <<w>> \o Callers /\ CallerSigs' = <<sig[w]>> \o CallerSigs
<1>. PICK c \in Calls : c.of = w /\ stack' = <<c>> \o stack
  BY StartFacts
<1>. DEFINE n == Len(stack)
<1>1. wrap[w] = "live" /\ sig' = sig /\ sig[w] \in Sigs
  BY StartFacts DEF Usable, wrapVars, Inv, CifOwner
<1>2. /\ DOMAIN stack' = 1..(n + 1) /\ stack'[1] = c
      /\ \A i \in 2..(n + 1) : stack'[i] = stack[i - 1]
  BY ConsFacts DEF Inv, MemoryTypes
<1>3. /\ n \in Nat /\ Callers \in [1..n -> Wrappers] /\ CallerSigs \in [1..n -> Sigs]
      /\ \A i \in 1..n : Callers[i] = stack[i].of /\ CallerSigs[i] = sig[stack[i].of]
  BY CallersTypes
<1>. HIDE DEF n
<1>4. /\ Callers' = [i \in 1..(n + 1) |-> stack'[i].of]
      /\ CallerSigs' = [i \in 1..(n + 1) |-> sig[stack'[i].of]]
  BY <1>1, <1>2 DEF Callers, CallerSigs
<1>5. 1 \in 1..(n + 1) /\ \A i \in 2..(n + 1) : i \in 1..(n + 1) /\ i - 1 \in 1..n
  BY <1>3
<1>6. Callers'[1] = w /\ CallerSigs'[1] = sig[w]
  BY <1>2, <1>4, <1>5
<1>7. \A i \in 2..(n + 1) : Callers'[i] = Callers[i - 1] /\ CallerSigs'[i] = CallerSigs[i - 1]
  BY <1>2, <1>3, <1>4, <1>5
<1>8. Callers' = [i \in 1..(n + 1) |-> Callers'[i]] /\ CallerSigs' = [i \in 1..(n + 1) |-> CallerSigs'[i]]
  BY <1>4
<1>. DEFINE a == Callers'  b == CallerSigs'
<1>9. a = <<w>> \o Callers
  <2>1. a[1] = w /\ a = [i \in 1..(n + 1) |-> a[i]] /\ \A i \in 2..(n + 1) : a[i] = Callers[i - 1]
    BY <1>6, <1>7, <1>8
  <2>. DEFINE r == <<w>> \o Callers
  <2>2. /\ r = [i \in 1..(n + 1) |-> r[i]] /\ r[1] = w
        /\ \A i \in 2..(n + 1) : r[i] = Callers[i - 1]
    BY <1>3, FirstPut
  <2>. HIDE DEF a, r
  <2>3. \A i \in 1..(n + 1) : i = 1 \/ i \in 2..(n + 1)
    BY <1>3
  <2>4. a = r
    BY <2>1, <2>2, <2>3
  <2>. QED BY <2>4 DEF r
<1>10. b = <<sig[w]>> \o CallerSigs
  <2>1. b[1] = sig[w] /\ b = [i \in 1..(n + 1) |-> b[i]] /\ \A i \in 2..(n + 1) : b[i] = CallerSigs[i - 1]
    BY <1>6, <1>7, <1>8
  <2>. DEFINE r == <<sig[w]>> \o CallerSigs
  <2>2. /\ r = [i \in 1..(n + 1) |-> r[i]] /\ r[1] = sig[w]
        /\ \A i \in 2..(n + 1) : r[i] = CallerSigs[i - 1]
    BY <1>1, <1>3, FirstPut
  <2>. HIDE DEF b, r
  <2>3. \A i \in 1..(n + 1) : i = 1 \/ i \in 2..(n + 1)
    BY <1>3
  <2>4. b = r
    BY <2>1, <2>2, <2>3
  <2>. QED BY <2>4 DEF r
<1>. QED BY <1>9, <1>10

\* A call ends.
LEMMA CallersReturn ==
    ASSUME Inv, NativeReturn \/ AdapterThrow \/ \E n \in 0..NArgs : AdapterReturn(n)
    PROVE  /\ Callers # <<>> /\ Callers' = Tail(Callers) /\ Head(Callers) = Head(stack).of
           /\ CallerSigs # <<>> /\ CallerSigs' = Tail(CallerSigs)
<1>. DEFINE n == Len(stack)
<1>1. /\ stack # <<>> /\ DOMAIN stack' = DOMAIN Tail(stack) /\ sig' = sig
      /\ \A i \in DOMAIN stack' : stack'[i].of = Tail(stack)[i].of
  BY ReturnFacts DEF wrapVars
<1>2. /\ n \in Nat \ {0} /\ DOMAIN Tail(stack) = 1..(n - 1) /\ Head(stack) = stack[1]
      /\ \A i \in 1..(n - 1) : Tail(stack)[i] = stack[i + 1]
  BY <1>1, TailFacts DEF Inv, MemoryTypes
<1>3. /\ Callers \in [1..n -> Wrappers] /\ CallerSigs \in [1..n -> Sigs]
      /\ \A i \in 1..n : Callers[i] = stack[i].of /\ CallerSigs[i] = sig[stack[i].of]
  BY CallersTypes
<1>. HIDE DEF n
<1>4. /\ Callers' = [i \in 1..(n - 1) |-> stack'[i].of]
      /\ CallerSigs' = [i \in 1..(n - 1) |-> sig[stack'[i].of]]
  BY <1>1, <1>2 DEF Callers, CallerSigs
<1>5. 1 \in 1..n /\ \A i \in 1..(n - 1) : i + 1 \in 1..n
  BY <1>2
<1>6. \A i \in 1..(n - 1) : stack'[i].of = stack[i + 1].of
  BY <1>1, <1>2
<1>7. \A i \in 1..(n - 1) : Callers'[i] = Callers[i + 1] /\ CallerSigs'[i] = CallerSigs[i + 1]
  BY <1>3, <1>4, <1>5, <1>6
<1>8. Callers' = [i \in 1..(n - 1) |-> Callers'[i]] /\ CallerSigs' = [i \in 1..(n - 1) |-> CallerSigs'[i]]
  BY <1>4
<1>. DEFINE a == Callers'  b == CallerSigs'
<1>9. Callers # <<>> /\ a = Tail(Callers) /\ Head(Callers) = Callers[1]
  <2>. HIDE DEF a
  <2>. QED BY <1>2, <1>3, <1>7, <1>8, FirstTaken DEF a
<1>10. CallerSigs # <<>> /\ b = Tail(CallerSigs)
  <2>. HIDE DEF b
  <2>. QED BY <1>2, <1>3, <1>7, <1>8, FirstTaken DEF b
<1>. QED BY <1>2, <1>3, <1>5, <1>9, <1>10

\* The calls are the same, and so are their signatures unless a constructor has
\* given one to its own wrapper.
LEMMA CallersSame ==
    ASSUME Inv, stack' = stack, \A w \in Wrappers : OnStack(w) => sig'[w] = sig[w]
    PROVE  Callers' = Callers /\ CallerSigs' = CallerSigs
<1>1. \A i \in DOMAIN stack : stack[i].of \in Wrappers /\ OnStack(stack[i].of)
  BY CallFacts DEF OnStack
<1>2. \A i \in DOMAIN stack : sig'[stack[i].of] = sig[stack[i].of]
  BY <1>1
<1>. QED BY <1>2 DEF Callers, CallerSigs

\* The steps that leave the calls alone.
LEMMA CallersStay ==
    ASSUME Inv,
           \/ \E s \in Sigs : FreeCif(s)
           \/ \E f \in Funs, l \in Libs, s \in Sigs : NewFunction(f, l, s)
           \/ \E c \in Cbs, s \in Sigs : NewCallback(c, s)
           \/ \E f \in Funs : FreeFunction(f)
           \/ \E c \in Cbs : FreeCallback(c)
           \/ \E f \in Funs, n \in 0..NArgs : InvokeThrows(f, n)
           \/ \E l \in Libs : DlSymThrows(l)
           \/ UNCHANGED vars
    PROVE  Callers' = Callers /\ CallerSigs' = CallerSigs
<1>1. ASSUME NEW w \in Wrappers, NEW s \in Sigs,
             NewCallback(w, s) \/ \E l \in Libs : NewFunction(w, l, s)
      PROVE  Callers' = Callers /\ CallerSigs' = CallerSigs
  <2>1. stack' = stack /\ wrap[w] = "none" /\ \A v \in Wrappers : v # w => sig'[v] = sig[v]
    BY <1>1 DEF NewFunction, NewCallback, Inv, MemoryTypes
  <2>2. \A v \in Wrappers : OnStack(v) => v # w
    BY <2>1, OnStackIs
  <2>. QED BY <2>1, <2>2, CallersSame
<1>2. CASE UNCHANGED <<stack, sig>>
  BY <1>2, CallersSame
<1>. QED BY <1>1, <1>2, Typed
     DEF FreeCif, FreeFunction, FreeCallback, InvokeThrows, DlSymThrows, vars, wrapVars

\* The steps by what they do for a wrapper: construct it with the signature s,
\* free it, or begin a call.
Constructs(w, s) ==
    \/ w \in Cbs /\ NewCallback(w, s)
    \/ w \in Funs /\ \E l \in Libs : NewFunction(w, l, s)

Frees(w) ==
    \/ w \in Funs /\ FreeFunction(w)
    \/ w \in Cbs /\ FreeCallback(w)

Begins(w) ==
    \/ w \in Cbs /\ CallBack(w)
    \/ w \in Funs /\ \E n \in 0..NArgs : Invoke(w, n)

LEMMA StepCases ==
    ASSUME [FfiNext]_vars
    PROVE  \/ \E s \in Sigs : FreeCif(s)
           \/ \E l \in Libs : DlSymThrows(l)
           \/ UNCHANGED vars
           \/ \E w \in Wrappers, s \in Sigs : Constructs(w, s)
           \/ \E w \in Wrappers : Frees(w)
           \/ \E f \in Funs, n \in 0..NArgs : InvokeThrows(f, n)
           \/ \E w \in Wrappers : Begins(w)
           \/ NativeReturn \/ AdapterThrow \/ \E n \in 0..NArgs : AdapterReturn(n)
<1>1. CASE \E f \in Funs, l \in Libs, s \in Sigs : NewFunction(f, l, s)
  BY <1>1, Typed DEF Constructs
<1>2. CASE \E c \in Cbs, s \in Sigs : NewCallback(c, s)
  BY <1>2, Typed DEF Constructs
<1>3. CASE (\E f \in Funs : FreeFunction(f)) \/ \E c \in Cbs : FreeCallback(c)
  BY <1>3, Typed DEF Frees
<1>4. CASE (\E f \in Funs, n \in 0..NArgs : Invoke(f, n)) \/ \E c \in Cbs : CallBack(c)
  BY <1>4, Typed DEF Begins
<1>. QED BY <1>1, <1>2, <1>3, <1>4 DEF FfiNext

-----------------------------------------------------------------------------
(* C strings are held as promised *)

\* A list is freed, and new strings are listed.
LEMMA RelistExchanges ==
    ASSUME StrTypes, Listed, NEW w \in Wrappers, NEW new, Relist(w, new)
    PROVE  Strings!Exchange(w, cstr[w], new)
<1>1. \A s \in cstr[w] : Freed(str[s]) = "freed"
  BY DEF Listed, Freed
<1>2. str' = [s \in Strs |-> IF s \in new THEN "live" ELSE IF s \in cstr[w] THEN "freed" ELSE str[s]]
  BY <1>1 DEF Relist, StringsOf
<1>3. cstr' = [cstr EXCEPT ![w] = (cstr[w] \ cstr[w]) \cup new]
  BY DEF Relist, Popped
<1>. QED BY <1>2, <1>3 DEF Strings!Exchange

\* invoke lists the strings it makes.
LEMMA WriteArgsExchanges ==
    ASSUME StrTypes, NEW f \in Funs, NEW n \in 0..NArgs, WriteArgs(f, n)
    PROVE  \E new \in SUBSET Strings!Unused : Strings!Exchange(f, {}, new)
<1>. PICK k \in 0..MaxStr :
        /\ Fresh(k, n)
        /\ str' = [s \in Strs |-> IF s \in (k + 1)..(k + n) THEN "live" ELSE str[s]]
        /\ cstr' = [cstr EXCEPT ![f] = cstr[f] \cup (k + 1)..(k + n)]
  BY DEF WriteArgs
<1>. DEFINE new == (k + 1)..(k + n)
<1>1. new \in SUBSET Strings!Unused
  <2>1. k \in Nat /\ n \in Nat
    BY Typed
  <2>2. new \subseteq Strs /\ \A s \in new : str[s] = "unused"
    BY <2>1, Typed DEF Fresh
  <2>. QED BY <2>2 DEF Strings!Unused
<1>. HIDE DEF new
<1>2. Strings!Exchange(f, {}, new)
  BY DEF Strings!Exchange, new
<1>. QED BY <1>1, <1>2

\* Strings that are made in a row are unused before.
LEMMA FreshUnused ==
    ASSUME NEW k \in 0..MaxStr, NEW n \in 0..NArgs, Fresh(k, n)
    PROVE  (k + 1)..(k + n) \in SUBSET Strings!Unused
<1>1. k \in Nat /\ n \in Nat
  BY Typed
<1>. QED BY <1>1, Typed DEF Fresh, Strings!Unused

\* The exchange of nothing changes nothing.
LEMMA NothingExchanged ==
    ASSUME Inv, UNCHANGED <<cstr, str>>, NEW w \in Wrappers
    PROVE  \E new \in SUBSET Strings!Unused : Strings!Exchange(w, {}, new)
<1>1. {} \in SUBSET Strings!Unused
  OBVIOUS
<1>2. Strings!Exchange(w, {}, {})
  BY DEF Strings!Exchange, Inv, MemoryTypes
<1>. QED BY <1>1, <1>2

LEMMA StringsNext ==
    ASSUME Inv, [FfiNext]_vars
    PROVE  [Strings!MemoryNext]_(Strings!memoryVars)
<1>. USE DEF Strings!MemoryNext
<1>1. CASE \/ \E s \in Sigs : FreeCif(s)
           \/ \E l \in Libs : DlSymThrows(l)
           \/ UNCHANGED vars
  <2>1. UNCHANGED <<wrap, cstr, str>> /\ Callers' = Callers
    BY <1>1, CallersStay DEF FreeCif, DlSymThrows, vars, wrapVars, strVars
  <2>. QED BY <2>1 DEF Strings!memoryVars, LiveWrappers
<1>2. ASSUME NEW w \in Wrappers, NEW s \in Sigs, Constructs(w, s)
      PROVE  [Strings!MemoryNext]_(Strings!memoryVars)
  <2>1. /\ UNCHANGED <<cstr, str>> /\ Callers' = Callers
        /\ wrap[w] = "none"
        /\ wrap' = wrap \/ wrap' = [wrap EXCEPT ![w] = "live"] \/ wrap' = [wrap EXCEPT ![w] = "failed"]
    BY <1>2, CallersStay DEF Constructs, NewFunction, NewCallback, ClosurePrepared, ClosureRefused, ClosureLost, strVars
  <2>2. CASE LiveWrappers' = LiveWrappers
    BY <2>1, <2>2 DEF Strings!memoryVars
  <2>3. CASE wrap' = [wrap EXCEPT ![w] = "live"]
    <3>1. w \notin LiveWrappers /\ LiveWrappers' = LiveWrappers \cup {w}
      BY <2>1, <2>3 DEF LiveWrappers, Inv, MemoryTypes
    <3>2. Strings!Open(w)
      BY <2>1, <3>1, NothingExchanged DEF Strings!Open
    <3>. QED BY <3>2
  <2>. QED BY <2>1, <2>2, <2>3 DEF LiveWrappers, Inv, MemoryTypes
<1>3. ASSUME NEW w \in Wrappers, Frees(w)
      PROVE  [Strings!MemoryNext]_(Strings!memoryVars)
  <2>1. /\ Relist(w, {}) /\ Callers' = Callers /\ ~OnStack(w)
        /\ wrap[w] \in {"live", "freed"} /\ wrap' = [wrap EXCEPT ![w] = "freed"]
    BY <1>3, CallersStay DEF Frees, FreeFunction, FreeCallback, FreeStrings
  <2>2. Strings!Exchange(w, cstr[w], {})
    BY <2>1, InvTypes, RelistExchanges
  <2>3. CASE wrap[w] = "live"
    <3>1. w \in LiveWrappers /\ LiveWrappers' = LiveWrappers \ {w}
      BY <2>1, <2>3 DEF LiveWrappers, Inv, MemoryTypes
    <3>2. \A i \in DOMAIN Callers : Callers[i] # w
      BY <2>1 DEF Callers, OnStack
    <3>3. Strings!Close(w)
      BY <2>1, <2>2, <3>1, <3>2 DEF Strings!Close
    <3>. QED BY <3>3
  <2>4. CASE wrap[w] = "freed"
    <3>1. LiveWrappers' = LiveWrappers
      BY <2>1, <2>4 DEF LiveWrappers, Inv, MemoryTypes
    <3>2. cstr[w] = {}
      BY <2>4 DEF Inv, StrOwner
    <3>3. cstr' = cstr /\ str' = str
      BY <2>2, <3>2 DEF Strings!Exchange, Inv, MemoryTypes
    <3>. QED BY <2>1, <3>1, <3>3 DEF Strings!memoryVars
  <2>. QED BY <2>1, <2>3, <2>4
<1>4. ASSUME NEW f \in Funs, NEW n \in 0..NArgs, InvokeThrows(f, n)
      PROVE  [Strings!MemoryNext]_(Strings!memoryVars)
  <2>1. f \in Wrappers /\ Usable(f) /\ WriteArgs(f, n) /\ wrap' = wrap /\ Callers' = Callers
    BY <1>4, Typed, CallersStay DEF InvokeThrows, wrapVars
  <2>2. f \in LiveWrappers /\ LiveWrappers' = LiveWrappers
    BY <2>1 DEF LiveWrappers, Usable
  <2>3. Strings!Take(f)
    BY <2>1, <2>2, InvTypes, WriteArgsExchanges DEF Strings!Take
  <2>. QED BY <2>1, <2>3
<1>5. ASSUME NEW w \in Wrappers, Begins(w)
      PROVE  [Strings!MemoryNext]_(Strings!memoryVars)
  <2>1. Usable(w) /\ wrap' = wrap /\ Callers' = <<w>> \o Callers
    BY <1>5, StartFacts, CallersStart DEF Begins, wrapVars
  <2>2. w \in LiveWrappers /\ LiveWrappers' = LiveWrappers
    BY <2>1 DEF LiveWrappers, Usable
  <2>3. \E new \in SUBSET Strings!Unused : Strings!Exchange(w, {}, new)
    <3>1. CASE CallBack(w)
      BY <3>1, NothingExchanged DEF CallBack, strVars
    <3>2. CASE w \in Funs /\ \E n \in 0..NArgs : Invoke(w, n)
      BY <3>2, InvTypes, WriteArgsExchanges DEF Invoke
    <3>. QED BY <1>5, <3>1, <3>2 DEF Begins
  <2>4. Strings!Start(w)
    BY <2>1, <2>2, <2>3 DEF Strings!Start
  <2>. QED BY <2>4
<1>6. CASE NativeReturn \/ AdapterThrow \/ \E n \in 0..NArgs : AdapterReturn(n)
  <2>. DEFINE w == Head(stack).of
  <2>1. /\ Callers # <<>> /\ Callers' = Tail(Callers) /\ Head(Callers) = w
        /\ wrap' = wrap
    BY <1>6, ReturnFacts, CallersReturn DEF wrapVars
  <2>2. LiveWrappers' = LiveWrappers
    BY <2>1 DEF LiveWrappers
  <2>3. w \in Wrappers
    <3>1. Callers \in Seq(Wrappers)
      BY CallersTypes
    <3>. QED BY <2>1, <3>1, TailFacts
  <2>4. UNCHANGED <<cstr, str>> \/ \E new \in SUBSET Strings!Unused : Strings!Exchange(w, cstr[w], new)
    <3>1. CASE NativeReturn
      <4>1. Relist(w, {}) /\ {} \in SUBSET Strings!Unused
        BY <3>1 DEF NativeReturn, FreeStrings
      <4>. HIDE DEF w
      <4>. QED BY <2>3, <4>1, InvTypes, RelistExchanges
    <3>2. CASE AdapterThrow
      BY <3>2 DEF AdapterThrow, strVars
    <3>3. ASSUME NEW n \in 0..NArgs, AdapterReturn(n)
          PROVE  \E new \in SUBSET Strings!Unused : Strings!Exchange(w, cstr[w], new)
      <4>1. PICK k \in 0..MaxStr : Fresh(k, n) /\ Relist(w, (k + 1)..(k + n))
        BY <3>3 DEF AdapterReturn
      <4>. HIDE DEF w
      <4>. QED BY <2>3, <4>1, FreshUnused, InvTypes, RelistExchanges
    <3>. QED BY <1>6, <3>1, <3>2, <3>3
  <2>. HIDE DEF w
  <2>5. Strings!Finish
    BY <2>1, <2>2, <2>4 DEF Strings!Finish
  <2>. QED BY <2>5
<1>. HIDE DEF Strings!MemoryNext
<1>. QED BY <1>1, <1>2, <1>3, <1>4, <1>5, <1>6, StepCases
-----------------------------------------------------------------------------
(* Call interfaces are held as promised *)

\* The exchange of nothing, for a signature.
LEMMA NoCifExchanged ==
    ASSUME Inv, UNCHANGED <<cifCache, cif>>, NEW s \in Sigs
    PROVE  \E new \in SUBSET Interfaces!Unused : Interfaces!Exchange(s, {}, new)
<1>1. {} \in SUBSET Interfaces!Unused
  OBVIOUS
<1>2. /\ CachedCifs' = [CachedCifs EXCEPT ![s] = (@ \ {}) \cup {}]
      /\ cif' = [b \in Cifs |-> IF b \in {} THEN "live" ELSE IF b \in {} THEN "freed" ELSE cif[b]]
  BY DEF CachedCifs, Inv, MemoryTypes
<1>3. Interfaces!Exchange(s, {}, {})
  BY <1>2 DEF Interfaces!Exchange
<1>. QED BY <1>1, <1>3

\* prepCif gives a signature its first cif, or finds it, or leaves what nobody has.
LEMMA PrepCifHeld ==
    ASSUME CifTypes, NEW s \in Sigs, CallerSigs' = CallerSigs,
           (\E k \in Cifs : PrepCif(s, k)) \/ PrepCifThrows(s)
    PROVE  [Interfaces!MemoryNext]_(Interfaces!memoryVars)
<1>1. CASE UNCHANGED cifVars
  BY <1>1 DEF Interfaces!memoryVars, CachedSigs, CachedCifs, cifVars
<1>2. ASSUME NEW k \in Cifs, cifCache[s] = 0, cif[k] = "unused",
             cif' = [cif EXCEPT ![k] = "live"], cifCache' = [cifCache EXCEPT ![s] = k]
      PROVE  Interfaces!Open(s)
  <2>1. k # 0 /\ \A t \in Sigs : cifCache'[t] = IF t = s THEN k ELSE cifCache[t]
    BY <1>2, Typed DEF CifTypes
  <2>2. s \notin CachedSigs /\ CachedSigs' = CachedSigs \cup {s}
    BY <1>2, <2>1 DEF CachedSigs
  <2>3. {k} \in SUBSET Interfaces!Unused
    BY <1>2 DEF Interfaces!Unused
  <2>4. CachedCifs' = [CachedCifs EXCEPT ![s] = (@ \ {}) \cup {k}]
    BY <1>2, <2>1 DEF CachedCifs
  <2>5. cif' = [b \in Cifs |-> IF b \in {k} THEN "live" ELSE IF b \in {} THEN "freed" ELSE cif[b]]
    BY <1>2 DEF CifTypes
  <2>6. Interfaces!Exchange(s, {}, {k})
    BY <2>4, <2>5 DEF Interfaces!Exchange
  <2>. QED BY <2>2, <2>3, <2>6 DEF Interfaces!Open
<1>3. ASSUME NEW k \in Cifs, cif[k] = "unused", cifCache' = cifCache,
             cif' = [cif EXCEPT ![k] = "freed"] \/ cif' = [cif EXCEPT ![k] = "lost"]
      PROVE  Interfaces!Fail
  <2>1. CachedSigs' = CachedSigs /\ CachedCifs' = CachedCifs
    BY <1>3 DEF CachedSigs, CachedCifs
  <2>2. cif' \in [Cifs -> {"unused", "live", "freed", "lost"}]
    BY <1>3 DEF CifTypes
  <2>3. \A b \in Cifs : cif'[b] # cif[b] => cif[b] = "unused" /\ cif'[b] \in {"freed", "lost"}
    BY <1>3 DEF CifTypes
  <2>. QED BY <2>1, <2>2, <2>3 DEF Interfaces!Fail
<1>4. CASE \E k \in Cifs : PrepCif(s, k)
  BY <1>1, <1>2, <1>4 DEF PrepCif, NextCif, Interfaces!MemoryNext
<1>5. CASE PrepCifThrows(s)
  BY <1>1, <1>3, <1>5 DEF PrepCifThrows, NextCif, FfiPrepCifFails, cifVars, Interfaces!MemoryNext
<1>. QED BY <1>4, <1>5

\* A call in progress uses the cif that is cached for its signature.
LEMMA CallersCif ==
    ASSUME Inv, NEW w \in Wrappers, Usable(w)
    PROVE  sig[w] \in Sigs /\ cifCache[sig[w]] = wcif[w] /\ wcif[w] \in Cifs
  BY DEF Usable, Inv, CifOwner, PreparedFor

LEMMA FreeCifHeld ==
    ASSUME Inv, InUse, NEW s \in Sigs, FreeCif(s)
    PROVE  Interfaces!Close(s)
<1>1. /\ cifCache[s] # 0
      /\ \A w \in Wrappers : wcif[w] = cifCache[s] => ~OnStack(w)
      /\ cif' = [cif EXCEPT ![cifCache[s]] = "freed"]
      /\ cifCache' = [cifCache EXCEPT ![s] = 0]
      /\ CallerSigs' = CallerSigs
  BY CallersStay DEF FreeCif, Uncache
<1>2. s \in CachedSigs /\ CachedSigs' = CachedSigs \ {s}
  BY <1>1, InvTypes DEF CachedSigs, CifTypes
<1>3. ASSUME NEW i \in DOMAIN CallerSigs PROVE CallerSigs[i] # s
  <2>. DEFINE w == stack[i].of
  <2>1. i \in DOMAIN stack /\ CallerSigs[i] = sig[w]
    BY <1>3 DEF CallerSigs
  <2>2. w \in Wrappers /\ OnStack(w) /\ Usable(w)
    BY <2>1, CallFacts DEF OnStack, InUse
  <2>. HIDE DEF w
  <2>3. cifCache[sig[w]] = wcif[w]
    BY <2>2, CallersCif
  <2>. QED BY <1>1, <2>1, <2>2, <2>3
<1>4. CachedCifs[s] = {cifCache[s]}
  BY <1>1 DEF CachedCifs
<1>5. CachedCifs' = [CachedCifs EXCEPT ![s] = (@ \ CachedCifs[s]) \cup {}]
  BY <1>1, <1>4, InvTypes DEF CachedCifs, CifTypes
<1>6. cif' = [b \in Cifs |-> IF b \in {} THEN "live" ELSE IF b \in CachedCifs[s] THEN "freed" ELSE cif[b]]
  BY <1>1, <1>4, InvTypes DEF CifTypes
<1>7. Interfaces!Exchange(s, CachedCifs[s], {})
  BY <1>5, <1>6 DEF Interfaces!Exchange
<1>. QED BY <1>1, <1>2, <1>3, <1>7 DEF Interfaces!Close

LEMMA InterfacesNext ==
    ASSUME Inv, InUse, [FfiNext]_vars
    PROVE  [Interfaces!MemoryNext]_(Interfaces!memoryVars)
<1>1. ASSUME NEW s \in Sigs, FreeCif(s) PROVE [Interfaces!MemoryNext]_(Interfaces!memoryVars)
  BY <1>1, FreeCifHeld DEF Interfaces!MemoryNext
<1>2. ASSUME NEW w \in Wrappers, NEW s \in Sigs, Constructs(w, s)
      PROVE  [Interfaces!MemoryNext]_(Interfaces!memoryVars)
  <2>1. CallerSigs' = CallerSigs /\ ((\E k \in Cifs : PrepCif(s, k)) \/ PrepCifThrows(s))
    BY <1>2, CallersStay DEF Constructs, NewFunction, NewCallback
  <2>. QED BY <2>1, InvTypes, PrepCifHeld
<1>3. CASE \/ \E w \in Wrappers : Frees(w)
           \/ \E f \in Funs, n \in 0..NArgs : InvokeThrows(f, n)
           \/ \E l \in Libs : DlSymThrows(l)
           \/ UNCHANGED vars
  <2>1. UNCHANGED <<cifCache, cif>> /\ CallerSigs' = CallerSigs
    BY <1>3, CallersStay
       DEF Frees, FreeFunction, FreeCallback, InvokeThrows, DlSymThrows, vars, cifVars
  <2>. QED BY <2>1 DEF Interfaces!memoryVars, CachedSigs, CachedCifs
<1>4. ASSUME NEW w \in Wrappers, Begins(w)
      PROVE  [Interfaces!MemoryNext]_(Interfaces!memoryVars)
  <2>1. Usable(w) /\ UNCHANGED <<cifCache, cif>> /\ CallerSigs' = <<sig[w]>> \o CallerSigs
    BY <1>4, StartFacts, CallersStart DEF Begins, cifVars
  <2>2. sig[w] \in Sigs /\ sig[w] \in CachedSigs /\ CachedSigs' = CachedSigs
    BY <2>1, CallersCif, Typed DEF CachedSigs
  <2>3. Interfaces!Start(sig[w])
    BY <2>1, <2>2, NoCifExchanged DEF Interfaces!Start
  <2>. QED BY <2>2, <2>3 DEF Interfaces!MemoryNext
<1>5. CASE NativeReturn \/ AdapterThrow \/ \E n \in 0..NArgs : AdapterReturn(n)
  <2>1. CallerSigs # <<>> /\ CallerSigs' = Tail(CallerSigs) /\ UNCHANGED <<cifCache, cif>>
    BY <1>5, ReturnFacts, CallersReturn DEF cifVars
  <2>2. Interfaces!Finish
    BY <2>1 DEF Interfaces!Finish, CachedSigs, CachedCifs
  <2>. QED BY <2>2 DEF Interfaces!MemoryNext
<1>. QED BY <1>1, <1>2, <1>3, <1>4, <1>5, StepCases

-----------------------------------------------------------------------------
(* What constructors allocate is held as promised *)

\* A part is the memory of a wrapper or the closure of a callback.
LEMMA PartIs ==
    ASSUME NEW b \in Parts
    PROVE  /\ b[1] \in Wrappers
           /\ b[2] = "memory" \/ (b[2] = "closure" /\ b[1] \in Cbs)
<1>1. CASE b \in Wrappers \X {"memory"}
  BY <1>1
<1>2. CASE b \in Cbs \X {"closure"}
  BY <1>2, Typed
<1>. QED BY <1>1, <1>2 DEF Parts

\* What a wrapper's parts are, by its state.
PartByState(b) ==
    /\ PartStates[b] \in {"unused", "live", "freed", "lost"}
    /\ wrap[b[1]] = "none" => PartStates[b] = "unused"
    /\ wrap[b[1]] = "live" => PartStates[b] = "live"
    /\ wrap[b[1]] = "freed" => PartStates[b] = "freed"
    /\ wrap[b[1]] = "failed" => PartStates[b] \in {"freed", "lost"}

LEMMA PartStatesAre == Inv => \A b \in Parts : PartByState(b)
<1>. SUFFICES ASSUME Inv, NEW b \in Parts PROVE PartByState(b)
  OBVIOUS
<1>. DEFINE w == b[1]
            state == IF b[2] = "memory" THEN mem[w] ELSE closure[w]
<1>1. PartStates[b] = IF state = "none" THEN "unused" ELSE state
  BY DEF PartStates, PartState
<1>2. w \in Wrappers /\ (b[2] = "memory" \/ (b[2] = "closure" /\ w \in Cbs))
  BY PartIs
<1>. HIDE DEF w
<1>3. wrap[w] \in {"none", "live", "freed", "failed"}
  BY <1>2 DEF Inv, MemoryTypes
<1>4. CASE b[2] = "memory"
  BY <1>1, <1>2, <1>3, <1>4 DEF Inv, MemOwner, PartByState, w
<1>5. CASE b[2] = "closure" /\ w \in Cbs
  BY <1>1, <1>2, <1>3, <1>5 DEF Inv, MemOwner, PartByState, w
<1>. QED BY <1>2, <1>4, <1>5

\* The parts of the wrappers that a step leaves alone are left alone.
LEMMA OtherParts ==
    ASSUME NEW w \in Wrappers,
           \A v \in Wrappers : v # w => mem'[v] = mem[v],
           \A c \in Cbs : c # w => closure'[c] = closure[c]
    PROVE  \A b \in Parts : b[1] # w => PartStates'[b] = PartStates[b]
<1>1. ASSUME NEW b \in Parts, b[1] # w PROVE PartState(b)' = PartState(b)
  BY <1>1, PartIs DEF PartState
<1>. QED BY <1>1 DEF PartStates

\* A step of w alone: its state becomes wr.
LEMMA WrapBecomes ==
    ASSUME Inv, NEW w \in Wrappers, NEW wr \in {"live", "freed", "failed"},
           wrap' = [wrap EXCEPT ![w] = wr]
    PROVE  /\ wr = "live" => /\ LiveWrappers' = LiveWrappers \cup {w}
                             /\ HeldParts' = [HeldParts EXCEPT ![w] = PartsOf(w)]
           /\ wr # "live" => /\ LiveWrappers' = LiveWrappers \ {w}
                             /\ HeldParts' = [HeldParts EXCEPT ![w] = {}]
<1>1. \A v \in Wrappers : wrap'[v] = IF v = w THEN wr ELSE wrap[v]
  BY DEF Inv, MemoryTypes
<1>2. wr = "live" => /\ LiveWrappers' = LiveWrappers \cup {w}
                     /\ HeldParts' = [HeldParts EXCEPT ![w] = PartsOf(w)]
  BY <1>1 DEF LiveWrappers, HeldParts, PartsOf
<1>3. wr # "live" => /\ LiveWrappers' = LiveWrappers \ {w}
                     /\ HeldParts' = [HeldParts EXCEPT ![w] = {}]
  BY <1>1 DEF LiveWrappers, HeldParts, PartsOf
<1>. QED BY <1>2, <1>3

\* The parts of w are those that the exchange takes.
LEMMA PartsExchange ==
    ASSUME NEW w \in Wrappers,
           \A b \in Parts : b[1] # w => PartStates'[b] = PartStates[b]
    PROVE  /\ /\ \A b \in PartsOf(w) : PartStates'[b] = "live"
              /\ HeldParts[w] = {} /\ HeldParts' = [HeldParts EXCEPT ![w] = PartsOf(w)]
              => Objects!Exchange(w, {}, PartsOf(w))
           /\ /\ \A b \in PartsOf(w) : PartStates'[b] = "freed"
              /\ HeldParts[w] = PartsOf(w) /\ HeldParts' = [HeldParts EXCEPT ![w] = {}]
              => Objects!Exchange(w, HeldParts[w], {})
<1>1. \A b \in Parts : b \in PartsOf(w) <=> b[1] = w
  BY DEF PartsOf
<1>2. PartStates' = [b \in Parts |-> PartStates'[b]]
  BY DEF PartStates
<1>3. ASSUME \A b \in PartsOf(w) : PartStates'[b] = "live", HeldParts[w] = {},
             HeldParts' = [HeldParts EXCEPT ![w] = PartsOf(w)]
      PROVE  Objects!Exchange(w, {}, PartsOf(w))
  <2>1. \A b \in Parts : PartStates'[b] = IF b \in PartsOf(w) THEN "live" ELSE PartStates[b]
    BY <1>1, <1>3
  <2>2. HeldParts' = [HeldParts EXCEPT ![w] = (@ \ {}) \cup PartsOf(w)]
    BY <1>3
  <2>. QED BY <1>2, <2>1, <2>2 DEF Objects!Exchange
<1>4. ASSUME \A b \in PartsOf(w) : PartStates'[b] = "freed", HeldParts[w] = PartsOf(w),
             HeldParts' = [HeldParts EXCEPT ![w] = {}]
      PROVE  Objects!Exchange(w, HeldParts[w], {})
  <2>1. \A b \in Parts : PartStates'[b] = IF b \in HeldParts[w] THEN "freed" ELSE PartStates[b]
    BY <1>1, <1>4
  <2>2. HeldParts' = [HeldParts EXCEPT ![w] = (@ \ HeldParts[w]) \cup {}]
    BY <1>4
  <2>. QED BY <1>2, <2>1, <2>2 DEF Objects!Exchange
<1>. QED BY <1>3, <1>4

\* A constructor returns an object with its parts, or leaves what is nobody's.
LEMMA ConstructsHeld ==
    ASSUME Inv, Inv', NEW w \in Wrappers, NEW s \in Sigs, Constructs(w, s), Callers' = Callers
    PROVE  [Objects!MemoryNext]_(Objects!memoryVars)
<1>1. wrap[w] = "none"
  BY DEF Constructs, NewFunction, NewCallback
<1>2. /\ \A v \in Wrappers : v # w => mem'[v] = mem[v]
      /\ \A c \in Cbs : c # w => closure'[c] = closure[c]
  BY DEF Constructs, NewFunction, NewCallback, ClosurePrepared, ClosureRefused, ClosureLost,
         Inv, MemoryTypes
<1>3. \A b \in Parts : b[1] # w => PartStates'[b] = PartStates[b]
  BY <1>2, OtherParts
<1>4. \/ UNCHANGED <<wrap, mem, closure>>
      \/ wrap' = [wrap EXCEPT ![w] = "live"]
      \/ wrap' = [wrap EXCEPT ![w] = "failed"]
  BY DEF Constructs, NewFunction, NewCallback, ClosurePrepared, ClosureRefused, ClosureLost
<1>5. \A b \in PartsOf(w) : b \in Parts /\ b[1] = w
  BY DEF PartsOf
<1>6. HeldParts[w] = {} /\ w \notin LiveWrappers
  BY <1>1 DEF HeldParts, LiveWrappers
<1>7. CASE UNCHANGED <<wrap, mem, closure>>
  <2>1. LiveWrappers' = LiveWrappers /\ HeldParts' = HeldParts
    BY <1>7 DEF LiveWrappers, HeldParts, PartsOf
  <2>2. PartStates' = PartStates
    BY <1>7 DEF PartStates, PartState
  <2>. QED BY <2>1, <2>2 DEF Objects!memoryVars
<1>8. CASE wrap' = [wrap EXCEPT ![w] = "live"]
  <2>1. wrap'[w] = "live"
    BY <1>8 DEF Inv, MemoryTypes
  <2>2. \A b \in PartsOf(w) : PartStates'[b] = "live"
    <3>1. ASSUME NEW b \in PartsOf(w) PROVE (wrap[b[1]] = "live")'
      BY <1>5, <2>1
    <3>2. (\A b \in Parts : PartByState(b))'
      BY PartStatesAre, PTL
    <3>. QED BY <1>5, <3>1, <3>2 DEF PartByState
  <2>3. /\ LiveWrappers' = LiveWrappers \cup {w}
        /\ HeldParts' = [HeldParts EXCEPT ![w] = PartsOf(w)]
    BY <1>8, WrapBecomes
  <2>4. PartsOf(w) \in SUBSET Objects!Unused
    BY <1>1, <1>5, PartStatesAre DEF PartByState, Objects!Unused
  <2>5. Objects!Exchange(w, {}, PartsOf(w))
    BY <1>3, <1>6, <2>2, <2>3, PartsExchange
  <2>6. Objects!Open(w)
    BY <1>6, <2>3, <2>4, <2>5 DEF Objects!Open
  <2>. QED BY <2>6 DEF Objects!MemoryNext
<1>9. CASE wrap' = [wrap EXCEPT ![w] = "failed"]
  <2>1. LiveWrappers' = LiveWrappers /\ HeldParts' = HeldParts
    <3>1. HeldParts' = [HeldParts EXCEPT ![w] = {}] /\ LiveWrappers' = LiveWrappers \ {w}
      BY <1>9, WrapBecomes
    <3>. QED BY <1>6, <3>1 DEF HeldParts
  <2>2. wrap'[w] = "failed"
    BY <1>9 DEF Inv, MemoryTypes
  <2>3. (\A b \in Parts : PartByState(b))'
    BY PartStatesAre, PTL
  <2>4. \A b \in Parts :
          /\ PartStates'[b] \in {"unused", "live", "freed", "lost"}
          /\ b[1] = w => PartStates'[b] \in {"freed", "lost"}
    BY <2>2, <2>3 DEF PartByState
  <2>5. PartStates' \in [Parts -> {"unused", "live", "freed", "lost"}]
    BY <2>4 DEF PartStates
  <2>6. \A b \in Parts : PartStates'[b] # PartStates[b] =>
          PartStates[b] = "unused" /\ PartStates'[b] \in {"freed", "lost"}
    BY <1>1, <1>3, <2>4, PartStatesAre DEF PartByState
  <2>7. Objects!Fail
    BY <2>1, <2>5, <2>6 DEF Objects!Fail
  <2>. QED BY <2>7 DEF Objects!MemoryNext
<1>. QED BY <1>4, <1>7, <1>8, <1>9

\* free() gives back all the parts, unless it has before.
LEMMA FreesHeld ==
    ASSUME Inv, Inv', NEW w \in Wrappers, Frees(w), Callers' = Callers
    PROVE  [Objects!MemoryNext]_(Objects!memoryVars)
<1>1. /\ wrap[w] \in {"live", "freed"} /\ ~OnStack(w)
      /\ wrap' = [wrap EXCEPT ![w] = "freed"]
  BY DEF Frees, FreeFunction, FreeCallback
<1>2. /\ \A v \in Wrappers : v # w => mem'[v] = mem[v]
      /\ \A c \in Cbs : c # w => closure'[c] = closure[c]
  BY DEF Frees, FreeFunction, FreeCallback, FfiClosureFree, Inv, MemoryTypes
<1>3. \A b \in Parts : b[1] # w => PartStates'[b] = PartStates[b]
  BY <1>2, OtherParts
<1>4. \A b \in PartsOf(w) : b \in Parts /\ b[1] = w
  BY DEF PartsOf
<1>5. \A b \in PartsOf(w) : PartStates'[b] = "freed"
  <2>1. wrap'[w] = "freed"
    BY <1>1 DEF Inv, MemoryTypes
  <2>2. (\A b \in Parts : PartByState(b))'
    BY PartStatesAre, PTL
  <2>. QED BY <1>4, <2>1, <2>2 DEF PartByState
<1>6. /\ LiveWrappers' = LiveWrappers \ {w}
      /\ HeldParts' = [HeldParts EXCEPT ![w] = {}]
  BY <1>1, WrapBecomes
<1>7. CASE wrap[w] = "live"
  <2>1. w \in LiveWrappers /\ HeldParts[w] = PartsOf(w)
    BY <1>7 DEF LiveWrappers, HeldParts
  <2>2. Objects!Exchange(w, HeldParts[w], {})
    BY <1>3, <1>5, <1>6, <2>1, PartsExchange
  <2>3. \A i \in DOMAIN Callers : Callers[i] # w
    BY <1>1 DEF Callers, OnStack
  <2>4. Objects!Close(w)
    BY <1>6, <2>1, <2>2, <2>3 DEF Objects!Close
  <2>. QED BY <2>4 DEF Objects!MemoryNext
<1>8. CASE wrap[w] = "freed"
  <2>1. LiveWrappers' = LiveWrappers /\ HeldParts' = HeldParts
    BY <1>6, <1>8 DEF LiveWrappers, HeldParts
  <2>2. \A b \in PartsOf(w) : PartStates[b] = "freed"
    BY <1>4, <1>8, PartStatesAre DEF PartByState
  <2>3. \A b \in Parts : PartStates'[b] = PartStates[b]
    BY <1>3, <1>5, <2>2 DEF PartsOf
  <2>4. PartStates' = PartStates
    BY <2>3 DEF PartStates
  <2>. QED BY <2>1, <2>4 DEF Objects!memoryVars
<1>. QED BY <1>1, <1>7, <1>8

\* The exchange of nothing, for an object.
LEMMA NoPartExchanged ==
    ASSUME UNCHANGED <<wrap, mem, closure>>, NEW w \in Wrappers
    PROVE  /\ LiveWrappers' = LiveWrappers /\ HeldParts' = HeldParts /\ PartStates' = PartStates
           /\ \E new \in SUBSET Objects!Unused : Objects!Exchange(w, {}, new)
<1>1. LiveWrappers' = LiveWrappers /\ HeldParts' = HeldParts
  BY DEF LiveWrappers, HeldParts, PartsOf
<1>2. PartStates' = PartStates
  BY DEF PartStates, PartState
<1>3. /\ HeldParts' = [HeldParts EXCEPT ![w] = (@ \ {}) \cup {}]
      /\ PartStates' = [b \in Parts |-> IF b \in {} THEN "live" ELSE IF b \in {} THEN "freed" ELSE PartStates[b]]
  BY <1>1, <1>2 DEF HeldParts, PartStates
<1>4. {} \in SUBSET Objects!Unused /\ Objects!Exchange(w, {}, {})
  BY <1>3 DEF Objects!Exchange
<1>. QED BY <1>1, <1>2, <1>4

LEMMA ObjectsNext ==
    ASSUME Inv, Inv', [FfiNext]_vars
    PROVE  [Objects!MemoryNext]_(Objects!memoryVars)
<1>1. ASSUME NEW w \in Wrappers, NEW s \in Sigs, Constructs(w, s)
      PROVE  [Objects!MemoryNext]_(Objects!memoryVars)
  <2>1. Callers' = Callers
    BY <1>1, CallersStay DEF Constructs
  <2>. QED BY <1>1, <2>1, ConstructsHeld
<1>2. ASSUME NEW w \in Wrappers, Frees(w)
      PROVE  [Objects!MemoryNext]_(Objects!memoryVars)
  <2>1. Callers' = Callers
    BY <1>2, CallersStay DEF Frees
  <2>. QED BY <1>2, <2>1, FreesHeld
<1>3. CASE \/ \E s \in Sigs : FreeCif(s)
           \/ \E f \in Funs, n \in 0..NArgs : InvokeThrows(f, n)
           \/ \E l \in Libs : DlSymThrows(l)
           \/ UNCHANGED vars
  <2>1. UNCHANGED <<wrap, mem, closure>> /\ Callers' = Callers
    BY <1>3, CallersStay DEF FreeCif, InvokeThrows, DlSymThrows, vars, wrapVars
  <2>2. LiveWrappers' = LiveWrappers /\ HeldParts' = HeldParts
    BY <2>1 DEF LiveWrappers, HeldParts, PartsOf
  <2>3. PartStates' = PartStates
    BY <2>1 DEF PartStates, PartState
  <2>. QED BY <2>1, <2>2, <2>3 DEF Objects!memoryVars
<1>4. ASSUME NEW w \in Wrappers, Begins(w)
      PROVE  [Objects!MemoryNext]_(Objects!memoryVars)
  <2>1. Usable(w) /\ UNCHANGED <<wrap, mem, closure>> /\ Callers' = <<w>> \o Callers
    BY <1>4, StartFacts, CallersStart DEF Begins, wrapVars
  <2>2. w \in LiveWrappers
    BY <2>1 DEF Usable, LiveWrappers
  <2>3. Objects!Start(w)
    BY <2>1, <2>2, NoPartExchanged DEF Objects!Start
  <2>. QED BY <2>3 DEF Objects!MemoryNext
<1>5. CASE NativeReturn \/ AdapterThrow \/ \E n \in 0..NArgs : AdapterReturn(n)
  <2>1. Callers # <<>> /\ Callers' = Tail(Callers) /\ UNCHANGED <<wrap, mem, closure>>
    BY <1>5, ReturnFacts, CallersReturn DEF wrapVars
  <2>2. LiveWrappers' = LiveWrappers /\ HeldParts' = HeldParts
    BY <2>1 DEF LiveWrappers, HeldParts, PartsOf
  <2>3. PartStates' = PartStates
    BY <2>1 DEF PartStates, PartState
  <2>4. Objects!Finish
    BY <2>1, <2>2, <2>3 DEF Objects!Finish
  <2>. QED BY <2>4 DEF Objects!MemoryNext
<1>. QED BY <1>1, <1>2, <1>3, <1>4, <1>5, StepCases

-----------------------------------------------------------------------------
(* The refinement *)

LEMMA InitHeld ==
    ASSUME FfiInit
    PROVE  InUse /\ Strings!MemoryInit /\ Interfaces!MemoryInit /\ Objects!MemoryInit
<1>1. stack = <<>> /\ DOMAIN stack = {}
  BY DEF FfiInit
<1>2. Callers = <<>> /\ CallerSigs = <<>>
  BY <1>1 DEF Callers, CallerSigs
<1>3. LiveWrappers = {} /\ CachedSigs = {}
  BY DEF FfiInit, LiveWrappers, CachedSigs
<1>4. CachedCifs = [s \in Sigs |-> {}]
  BY DEF FfiInit, CachedCifs
<1>5. HeldParts = [w \in Wrappers |-> {}]
  BY DEF FfiInit, HeldParts
<1>6. \A w \in Wrappers : wrap[w] = "none"
  BY DEF FfiInit
<1>7. PartStates = [b \in Parts |-> "unused"]
  <2>1. \A b \in Parts : PartStates[b] = "unused"
    BY <1>6, InitInv, PartStatesAre, PartIs DEF PartByState
  <2>. QED BY <2>1 DEF PartStates
<1>. QED BY <1>1, <1>2, <1>3, <1>4, <1>5, <1>7
         DEF FfiInit, InUse, Strings!MemoryInit, Interfaces!MemoryInit, Objects!MemoryInit

LEMMA AlwaysInUse == FfiSpec => []InUse
<1>1. FfiInit => InUse
  BY InitHeld
<1>2. Inv /\ InUse /\ [FfiNext]_vars => InUse'
  BY InUseNext
<1>. QED BY <1>1, <1>2, Invariance, PTL DEF FfiSpec

\* Who owns which native memory, and when it is freed, is what NativeMemory
\* promises of each of the three kinds: C strings, call interfaces and what
\* constructors allocate.  Every step of the bundle (construct, invoke, return,
\* call back, free, freeCif) exchanges blocks of the holder it acts for, and a
\* holder gives back all it holds, once, with no call of its own in progress
\* unless it is the one that ends.
THEOREM MemoryIsHeld == FfiSpec => MemoryHeld
<1>1. FfiInit => Strings!MemoryInit /\ Interfaces!MemoryInit /\ Objects!MemoryInit
  BY InitHeld
<1>2. Inv /\ [FfiNext]_vars => [Strings!MemoryNext]_(Strings!memoryVars)
  BY StringsNext
<1>3. Inv /\ InUse /\ [FfiNext]_vars => [Interfaces!MemoryNext]_(Interfaces!memoryVars)
  BY InterfacesNext
<1>4. Inv /\ Inv' /\ [FfiNext]_vars => [Objects!MemoryNext]_(Objects!memoryVars)
  BY ObjectsNext
<1>5. FfiSpec => Strings!MemorySpec
  BY <1>1, <1>2, Invariance, PTL DEF FfiSpec, Strings!MemorySpec
<1>6. FfiSpec => Interfaces!MemorySpec
  BY <1>1, <1>3, Invariance, AlwaysInUse, PTL DEF FfiSpec, Interfaces!MemorySpec
<1>7. FfiSpec => Objects!MemorySpec
  BY <1>1, <1>4, Invariance, PTL DEF FfiSpec, Objects!MemorySpec
<1>. QED BY <1>5, <1>6, <1>7 DEF MemoryHeld

-----------------------------------------------------------------------------
(* The strings that native code returns *)

\* Of a string that f was given before, whether its argument buffers still hold it
\* or a call: if it is live, f lists it.
Seen(f, s, st, cs) == s # 0 => st[s] # "unused" /\ (st[s] = "live" => s \in cs[f])

ArgOwner ==
    /\ \A f \in Funs, p \in Params : Seen(f, avalues[f][p], str, cstr)
    /\ \A i \in DOMAIN stack : stack[i].of \in Funs =>
         \A p \in Params : Seen(stack[i].of, stack[i].args[p], str, cstr)

\* No string is made twice, and of those made before one stays live only in its list.
Kept ==
    \A s \in Strs : str[s] # "unused" =>
      /\ str'[s] # "unused"
      /\ str'[s] = "live" => /\ str[s] = "live"
                            /\ \A w \in Wrappers : s \in cstr[w] => s \in cstr'[w]

LEMMA SeenKept ==
    ASSUME Kept, NEW f \in Wrappers, NEW s \in 0..MaxStr, Seen(f, s, str, cstr)
    PROVE  Seen(f, s, str', cstr')
<1>1. s # 0 => s \in Strs
  BY Typed
<1>. QED BY <1>1 DEF Kept, Seen

LEMMA RelistKept ==
    ASSUME Inv, NEW w \in Wrappers, NEW new \in SUBSET Strs,
           \A s \in new : str[s] = "unused", Relist(w, new)
    PROVE  Kept
<1>1. /\ StrTypes' /\ Listed'
      /\ \A v \in Wrappers : cstr'[v] = IF v = w THEN new ELSE cstr[v]
  BY InvTypes, RelistOwner
<1>2. \A s \in Strs : str'[s] = IF s \in new THEN "live"
                                ELSE IF s \in cstr[w] THEN "freed" ELSE str[s]
  BY InvTypes DEF StrTypes, Listed, Relist, StringsOf, Freed
<1>. QED BY <1>1, <1>2 DEF Kept

LEMMA WriteArgsKept ==
    ASSUME Inv, NEW f \in Funs, NEW n \in 0..NArgs, WriteArgs(f, n)
    PROVE  /\ Kept
           /\ \A g \in Funs, p \in Params : Seen(g, avalues[g][p], str, cstr) => Seen(g, avalues'[g][p], str', cstr')
<1>1. /\ StrTypes' /\ Listed' /\ avalues' \in [Funs -> [Params -> 0..MaxStr]]
      /\ \A v \in Wrappers : cstr[v] \subseteq cstr'[v]
      /\ \A p \in 1..n : avalues'[f][p] \in cstr'[f]
  BY InvTypes, WriteArgsOwner DEF Inv, MemoryTypes
<1>. PICK k \in 0..MaxStr :
        /\ Fresh(k, n)
        /\ str' = [s \in Strs |-> IF s \in (k + 1)..(k + n) THEN "live" ELSE str[s]]
        /\ avalues' = [avalues EXCEPT ![f] =
                         [p \in Params |-> IF p <= n THEN k + p ELSE avalues[f][p]]]
  BY DEF WriteArgs
<1>2. \A s \in (k + 1)..(k + n) : str[s] = "unused"
  <2>1. (k + 1)..(k + n) \in SUBSET Strings!Unused
    BY FreshUnused
  <2>. QED BY <2>1 DEF Strings!Unused
<1>3. Kept
  <2>1. \A s \in Strs : str[s] # "unused" => str'[s] = str[s]
    BY <1>2
  <2>. QED BY <1>1, <2>1 DEF Kept
<1>4. ASSUME NEW g \in Funs, NEW p \in Params, Seen(g, avalues[g][p], str, cstr)
      PROVE  Seen(g, avalues'[g][p], str', cstr')
  <2>1. g \in Wrappers /\ avalues[g][p] \in 0..MaxStr
    BY Typed DEF Inv, MemoryTypes
  <2>2. CASE avalues'[g][p] = avalues[g][p]
    <3>1. Seen(g, avalues[g][p], str', cstr')
      <4>. DEFINE s == avalues[g][p]
      <4>1. s # 0 => s \in Strs /\ str[s] # "unused" /\ (str[s] = "live" => s \in cstr[g])
        BY <1>4, <2>1, Typed DEF Seen
      <4>. HIDE DEF s
      <4>2. s # 0 => str'[s] # "unused" /\ (str'[s] = "live" => s \in cstr'[g])
        BY <1>3, <2>1, <4>1 DEF Kept
      <4>. QED BY <2>2, <4>2 DEF Seen, s
    <3>. QED BY <2>2, <3>1 DEF Seen
  <2>3. CASE avalues'[g][p] # avalues[g][p]
    <3>1. g = f /\ p <= n
      BY <2>3 DEF Inv, MemoryTypes
    <3>2. p \in 1..n
      BY <3>1, Typed
    <3>3. avalues'[g][p] \in cstr'[g]
      BY <1>1, <3>1, <3>2
    <3>4. str'[avalues'[g][p]] = "live"
      BY <1>1, <2>1, <3>3 DEF Listed
    <3>. QED BY <3>3, <3>4 DEF Seen
  <2>. QED BY <2>2, <2>3
<1>. QED BY <1>3, <1>4

\* The steps that change what strings there are.
LEMMA NextKept ==
    ASSUME Inv, [FfiNext]_vars
    PROVE  Kept
<1>1. CASE UNCHANGED <<cstr, str>>
  BY <1>1 DEF Kept
<1>2. ASSUME NEW w \in Wrappers, FreeStrings(w) PROVE Kept
  <2>1. {} \in SUBSET Strs /\ \A s \in {} : str[s] = "unused"
    OBVIOUS
  <2>. QED BY <1>2, <2>1, RelistKept DEF FreeStrings
<1>3. ASSUME NEW w \in Wrappers, Frees(w) PROVE Kept
  BY <1>2, <1>3, Typed DEF Frees, FreeFunction, FreeCallback
<1>4. ASSUME NEW f \in Funs, NEW n \in 0..NArgs, Invoke(f, n) \/ InvokeThrows(f, n) PROVE Kept
  BY <1>4, WriteArgsKept DEF Invoke, InvokeThrows
<1>5. CASE NativeReturn
  <2>1. FreeStrings(Head(stack).of) /\ Head(stack).of \in Wrappers
    BY <1>5, Typed DEF NativeReturn, InNative
  <2>. QED BY <1>2, <2>1
<1>6. ASSUME NEW n \in 0..NArgs, AdapterReturn(n) PROVE Kept
  <2>1. PICK k \in 0..MaxStr : Fresh(k, n) /\ Relist(Head(stack).of, (k + 1)..(k + n))
    BY <1>6 DEF AdapterReturn
  <2>2. Head(stack).of \in Wrappers
    BY <1>6, Typed DEF AdapterReturn
  <2>3. /\ (k + 1)..(k + n) \in SUBSET Strs
        /\ \A s \in (k + 1)..(k + n) : str[s] = "unused"
    BY <2>1, FreshUnused DEF Strings!Unused
  <2>. QED BY <2>1, <2>2, <2>3, RelistKept
<1>7. ASSUME NEW w \in Wrappers, Begins(w) PROVE Kept
  BY <1>1, <1>4, <1>7 DEF Begins, CallBack, strVars
<1>8. ASSUME NEW w \in Wrappers, NEW s \in Sigs, Constructs(w, s) PROVE Kept
  BY <1>1, <1>8 DEF Constructs, NewFunction, NewCallback, strVars
<1>9. CASE \/ \E s \in Sigs : FreeCif(s)
           \/ \E l \in Libs : DlSymThrows(l)
           \/ UNCHANGED vars
           \/ AdapterThrow
  BY <1>1, <1>9 DEF FreeCif, DlSymThrows, vars, AdapterThrow, strVars
<1>. QED BY <1>3, <1>4, <1>5, <1>6, <1>7, <1>8, <1>9, StepCases

\* What the argument buffers hold is f's.
LEMMA BuffersNext ==
    ASSUME Inv, ArgOwner, [FfiNext]_vars
    PROVE  \A f \in Funs, p \in Params : Seen(f, avalues'[f][p], str', cstr')
<1>1. Kept
  BY NextKept
<1>2. CASE avalues' = avalues
  <2>1. ASSUME NEW f \in Funs, NEW p \in Params PROVE Seen(f, avalues[f][p], str', cstr')
    <3>. DEFINE s == avalues[f][p]
    <3>1. f \in Wrappers /\ s \in 0..MaxStr /\ Seen(f, s, str, cstr)
      BY Typed DEF Inv, MemoryTypes, ArgOwner
    <3>. HIDE DEF s
    <3>2. s # 0 => str'[s] # "unused" /\ (str'[s] = "live" => s \in cstr'[f])
      BY <1>1, <3>1, SeenKept DEF Seen
    <3>. QED BY <1>2, <3>2 DEF Seen, s
  <2>. QED BY <1>2, <2>1 DEF Seen
<1>3. ASSUME NEW f \in Funs, NEW n \in 0..NArgs, Invoke(f, n) \/ InvokeThrows(f, n)
      PROVE  \A g \in Funs, p \in Params : Seen(g, avalues'[g][p], str', cstr')
  BY <1>3, WriteArgsKept DEF ArgOwner, Invoke, InvokeThrows
<1>4. CASE \/ \E w \in Wrappers : Begins(w)
           \/ \E f \in Funs, n \in 0..NArgs : InvokeThrows(f, n)
  BY <1>2, <1>3, <1>4 DEF Begins, CallBack, strVars
<1>5. CASE \/ \E w \in Wrappers, s \in Sigs : Constructs(w, s)
           \/ \E w \in Wrappers : Frees(w)
  BY <1>2, <1>5 DEF Constructs, Frees, NewFunction, NewCallback, FreeFunction, FreeCallback, strVars
<1>6. CASE \/ \E s \in Sigs : FreeCif(s)
           \/ \E l \in Libs : DlSymThrows(l)
           \/ UNCHANGED vars
           \/ NativeReturn \/ AdapterThrow \/ \E n \in 0..NArgs : AdapterReturn(n)
  BY <1>2, <1>6 DEF FreeCif, DlSymThrows, vars, NativeReturn, AdapterThrow, AdapterReturn, strVars
<1>. QED BY <1>4, <1>5, <1>6, StepCases

\* The calls that go on were given what they were.
CallSeen(c, st, cs) == c.of \in Funs => \A p \in Params : Seen(c.of, c.args[p], st, cs)

LEMMA CallSeenKept ==
    ASSUME Inv, Kept, NEW c \in Calls, CallSeen(c, str, cstr)
    PROVE  CallSeen(c, str', cstr')
<1>1. SUFFICES ASSUME c.of \in Funs, NEW p \in Params PROVE Seen(c.of, c.args[p], str', cstr')
  BY DEF CallSeen
<1>2. c.of \in Wrappers /\ c.args[p] \in 0..MaxStr /\ Seen(c.of, c.args[p], str, cstr)
  BY <1>1 DEF Calls, CallSeen
<1>. QED BY <1>2, SeenKept DEF Seen

LEMMA ArgOwnerNext ==
    ASSUME Inv, ArgOwner, [FfiNext]_vars
    PROVE  ArgOwner'
<1>1. Kept /\ \A f \in Funs, p \in Params : Seen(f, avalues'[f][p], str', cstr')
  BY NextKept, BuffersNext
<1>2. /\ stack \in Seq(Calls) /\ DOMAIN stack = 1..Len(stack) /\ Len(stack) \in Nat
      /\ \A i \in DOMAIN stack : stack[i] \in Calls /\ CallSeen(stack[i], str', cstr')
  BY <1>1, CallFacts, CallSeenKept, SeqFacts DEF Inv, MemoryTypes, ArgOwner, CallSeen
<1>3. SUFFICES ASSUME NEW i \in DOMAIN stack' PROVE CallSeen(stack'[i], str', cstr')
  BY <1>1 DEF ArgOwner, CallSeen
<1>4. CASE stack' = stack
  BY <1>2, <1>3, <1>4 DEF CallSeen
<1>5. ASSUME NEW c \in Calls, CallSeen(c, str', cstr'), stack' = <<c>> \o stack PROVE CallSeen(stack'[i], str', cstr')
  <2>1. stack'[i] = c \/ \E j \in DOMAIN stack : stack'[i] = stack[j]
    BY <1>2, <1>3, <1>5, ConsFacts
  <2>. QED BY <1>2, <1>5, <2>1
<1>6. ASSUME NEW w \in Wrappers, Begins(w) PROVE CallSeen(stack'[i], str', cstr')
  <2>1. CASE CallBack(w) /\ w \in Cbs
    <3>. DEFINE c == [of |-> w, args |-> NoArgs, given |-> 0, reused |-> FALSE]
    <3>1. c \in Calls /\ c.of = w /\ stack' = <<c>> \o stack
      BY <2>1, Typed DEF Calls, NoArgs, CallBack
    <3>. HIDE DEF c
    <3>2. CallSeen(c, str', cstr')
      BY <2>1, <3>1, Typed DEF CallSeen
    <3>. QED BY <1>5, <3>1, <3>2
  <2>2. ASSUME NEW n \in 0..NArgs, w \in Funs, Invoke(w, n) PROVE CallSeen(stack'[i], str', cstr')
    <3>. DEFINE c == [of |-> w, args |-> avalues'[w], given |-> n, reused |-> FALSE]
    <3>1. WriteArgs(w, n) /\ stack' = <<c>> \o stack
      BY <2>2 DEF Invoke, FfiCall
    <3>2. avalues' \in [Funs -> [Params -> 0..MaxStr]]
      BY <2>2, <3>1, InvTypes, WriteArgsOwner DEF Inv, MemoryTypes
    <3>3. c \in Calls /\ c.of = w /\ c.args = avalues'[w]
      BY <2>2, <3>2, Typed DEF Calls
    <3>. HIDE DEF c
    <3>4. CallSeen(c, str', cstr')
      BY <1>1, <2>2, <3>3 DEF CallSeen, Seen
    <3>. QED BY <1>5, <3>1, <3>3, <3>4
  <2>. QED BY <1>6, <2>1, <2>2 DEF Begins
<1>7. CASE NativeReturn \/ AdapterThrow \/ \E n \in 0..NArgs : AdapterReturn(n)
  <2>1. /\ stack # <<>> /\ DOMAIN stack' = DOMAIN Tail(stack)
        /\ stack'[i].of = Tail(stack)[i].of /\ stack'[i].args = Tail(stack)[i].args
    BY <1>3, <1>7, ReturnFacts
  <2>2. Tail(stack)[i] = stack[i + 1] /\ i + 1 \in DOMAIN stack
    BY <1>2, <1>3, <2>1, TailFacts
  <2>3. CallSeen(stack[i + 1], str', cstr')
    BY <1>2, <2>2
  <2>. QED BY <2>1, <2>2, <2>3 DEF CallSeen
<1>8. CASE \/ \E s \in Sigs : FreeCif(s)
           \/ \E l \in Libs : DlSymThrows(l)
           \/ UNCHANGED vars
           \/ \E w \in Wrappers, s \in Sigs : Constructs(w, s)
           \/ \E w \in Wrappers : Frees(w)
           \/ \E f \in Funs, n \in 0..NArgs : InvokeThrows(f, n)
  BY <1>4, <1>8 DEF FreeCif, DlSymThrows, vars, Constructs, Frees, NewFunction, NewCallback,
                    FreeFunction, FreeCallback, InvokeThrows
<1>. QED BY <1>6, <1>7, <1>8, StepCases

ResultOwner == ArgOwner /\ ResultLive /\ result \in Results

LEMMA NoResultFacts ==
    NoResult \in Results /\ NoResult.string = 0
<1>1. NoArgs \in [Params -> 0..MaxStr]
  BY Typed DEF NoArgs
<1>. QED BY <1>1, Typed DEF NoResult, Results

\* What a function returns that it was called with is freed by then, and what
\* callbacks returned to it is not.
LEMMA NativeReturnResult ==
    ASSUME Inv, ArgOwner, NativeReturn
    PROVE  ResultLive' /\ result' \in Results
<1>. DEFINE f == Head(stack).of
            args == Head(stack).args
<1>1. /\ stack # <<>> /\ f \in Funs /\ FreeStrings(f)
      /\ result' \in {NoResult} \cup {[string |-> s, args |-> args] : s \in Handed}
  BY DEF NativeReturn, InNative
<1>2. /\ f \in Wrappers /\ args \in [Params -> 0..MaxStr]
      /\ \A p \in Params : Seen(f, args[p], str, cstr)
  <2>1. 1 \in DOMAIN stack /\ Head(stack) = stack[1]
    BY <1>1, TailFacts DEF Inv, MemoryTypes
  <2>. QED BY <1>1, <2>1, CallFacts DEF ArgOwner
<1>3. \A s \in Strs : str'[s] = IF s \in cstr[f] THEN "freed" ELSE str[s]
  BY <1>1, <1>2, InvTypes DEF StrTypes, Listed, FreeStrings, Relist, StringsOf, Freed
<1>4. \A p \in Params : args[p] # 0 => str'[args[p]] # "live"
  BY <1>2, <1>3, Typed DEF Seen
<1>5. \A c \in Cbs : \A s \in cstr[c] : s \in Strs /\ str'[s] = "live"
  <2>1. \A c \in Cbs : c \in Wrappers /\ c # f
    BY <1>1, Typed
  <2>. QED BY <1>2, <1>3, <2>1, InvTypes DEF StrTypes, Listed
<1>6. CASE result' = NoResult
  BY <1>6, NoResultFacts DEF ResultLive
<1>7. ASSUME NEW s \in Handed, result' = [string |-> s, args |-> args]
      PROVE  ResultLive' /\ result' \in Results
  <2>1. s # 0 /\ ((\E p \in Params : args[p] = s) \/ \E c \in Cbs : s \in cstr[c])
    BY <1>7 DEF Handed
  <2>. HIDE DEF args
  <2>2. result'.string = s /\ result'.args = args
    BY <1>7
  <2>3. s \in 0..MaxStr
    BY <1>2, <1>5, <2>1, Typed
  <2>4. str'[s] = "live" <=> \A p \in Params : args[p] # s
    BY <1>4, <1>5, <2>1
  <2>5. ResultLive'
    BY <2>2, <2>4 DEF ResultLive
  <2>6. result' \in Results
    BY <1>2, <1>7, <2>3 DEF Results
  <2>. QED BY <2>5, <2>6
<1>. HIDE DEF args
<1>. QED BY <1>1, <1>6, <1>7

LEMMA ResultOwnerNext == Inv /\ ResultOwner /\ [FfiNext]_vars => ResultOwner'
<1>. SUFFICES ASSUME Inv, ResultOwner, [FfiNext]_vars PROVE ResultOwner'
  OBVIOUS
<1>1. ArgOwner'
  BY ArgOwnerNext DEF ResultOwner
<1>2. CASE NativeReturn
  BY <1>1, <1>2, NativeReturnResult DEF ResultOwner
<1>3. CASE result' = NoResult
  BY <1>1, <1>3, NoResultFacts DEF ResultOwner, ResultLive
<1>4. CASE UNCHANGED vars
  BY <1>1, <1>4 DEF ResultOwner, ResultLive, vars, strVars
<1>. QED BY <1>2, <1>3, <1>4 DEF FfiNext

LEMMA AlwaysResultOwner == FfiSpec => []ResultOwner
<1>1. FfiInit => ResultOwner
  <2>. SUFFICES ASSUME FfiInit PROVE ResultOwner
    OBVIOUS
  <2>1. stack = <<>> /\ result = NoResult /\ \A f \in Funs, p \in Params : avalues[f][p] = 0
    BY DEF FfiInit, NoArgs
  <2>. QED BY <2>1, NoResultFacts DEF ResultOwner, ArgOwner, Seen, ResultLive
<1>. QED BY <1>1, ResultOwnerNext, Invariance, PTL DEF FfiSpec

\* Every variable keeps its type, and native code and script alternate on the
\* stack of calls (js_libffi_ffi_call, ffi_closure_js_func_adapter).
THEOREM TypeCorrect == FfiSpec => []TypeOK
<1>1. Inv /\ ResultOwner => TypeOK
  BY DEF Inv, ResultOwner, TypeOK
<1>. QED BY <1>1, Invariance, AlwaysResultOwner, PTL

\* Native code finds the strings it was called with live for as long as it runs,
\* unless its own function is invoked again inside; and the string it returns has
\* been freed when invoke reads it just if it is one of those (invoke, adapter).
THEOREM StringsStayLive == FfiSpec => []StringsLive
<1>1. ArgumentsLive /\ ResultOwner => StringsLive
  BY DEF ResultOwner, StringsLive
<1>. QED BY <1>1, ArgumentsStayLive, AlwaysResultOwner, PTL

=============================================================================
