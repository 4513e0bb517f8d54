-------------------------------- MODULE Ffi --------------------------------
(***************************************************************************)
(* The FFI bundle (src/bundles/quickjs-ffi.js) over the native functions   *)
(* of src/modules/quickjs-ffi.c: who owns which native memory.             *)
(*                                                                         *)
(* A CFunction calls native code and a CCallback is called by it; both are *)
(* wrappers here.  A wrapper refers to the call interface (cif) that       *)
(* prepCif keeps in a cache by signature, owns blocks of memory and, in    *)
(* its CStringAllocator, the C strings made for calls.  Native code may    *)
(* call callbacks while it runs and their script may call native functions *)
(* again, the same ones included: `stack` holds the calls in progress.     *)
(*                                                                         *)
(* The script is free to create, call and free in any order, except that   *)
(* it does not free what native code on the stack is using, does not use   *)
(* a wrapper after free() or freeCif, and frees a callback once: what the  *)
(* program does after that is undefined.                                   *)
(***************************************************************************)
EXTENDS Naturals, Sequences, SequencesExt

CONSTANTS
    Libs,           \* the files functions are looked up in
    Sigs,           \* signatures: the keys of cifCache
    Unparsable,     \* those parseType throws on
    Rejected,       \* those ffi_prep_cif refuses
    NoSig,          \* no signature
    Funs,           \* CFunction objects
    Cbs,            \* CCallback objects
    NArgs,          \* the number of arguments of a signature, all strings
    MaxCif,         \* bound: call interfaces allocated
    MaxStr,         \* bound: C strings allocated
    MaxDepth        \* bound: calls in progress

ASSUME FfiAssumption ==
    /\ Unparsable \subseteq Sigs /\ Rejected \subseteq Sigs /\ NoSig \notin Sigs
    /\ Funs \cap Cbs = {}
    /\ NArgs \in Nat /\ MaxCif \in Nat /\ MaxStr \in Nat /\ MaxDepth \in Nat

Wrappers == Funs \cup Cbs
Cifs     == 1..MaxCif
Strs     == 1..MaxStr
Params   == 1..NArgs

VARIABLES
    dlCache,    \* the files dlOpen has opened, which stay open
    cifCache,   \* the cif cached for each signature, 0 if none
    cif,        \* the memory of each cif: libffi's structure and its types
    wrap,       \* the state of each wrapper object
    sig,        \* the signature whose cif it was given
    wcif,       \* the cif whose address it holds
    mem,        \* the memory its constructor allocated
    closure,    \* the executable closure of a callback
    cstr,       \* the C strings listed in its CStringAllocator
    str,        \* the memory of each C string
    avalues,    \* the string last written in each argument buffer, 0 if none
    stack,      \* calls in progress, the innermost first
    result      \* the string that invoke has just read as the result of a call

cifVars  == <<cifCache, cif>>
wrapVars == <<wrap, sig, wcif, mem, closure>>
strVars  == <<cstr, str, avalues>>
vars == <<dlCache, cifVars, wrapVars, strVars, stack, result>>

\* A native call is given the strings its argument buffers held, of which the
\* invocation wrote the first `given`; `reused` records that another call of
\* the same function has returned since.
Calls == [of : Wrappers, args : [Params -> 0..MaxStr], given : 0..NArgs, reused : BOOLEAN]

NoArgs == [p \in Params |-> 0]

\* A string that newstring reads, with those the call was given; 0 if the result is
\* no string or one that native code allocated.
Results == [string : 0..MaxStr, args : [Params -> 0..MaxStr]]

NoResult == [string |-> 0, args |-> NoArgs]

FfiInit ==
    /\ dlCache = {}
    /\ cifCache = [s \in Sigs |-> 0]
    /\ cif = [k \in Cifs |-> "unused"]
    /\ wrap = [w \in Wrappers |-> "none"]
    /\ sig = [w \in Wrappers |-> NoSig]
    /\ wcif = [w \in Wrappers |-> 0]
    /\ mem = [w \in Wrappers |-> "none"]
    /\ closure = [c \in Cbs |-> "none"]
    /\ cstr = [w \in Wrappers |-> {}]
    /\ str = [s \in Strs |-> "unused"]
    /\ avalues = [f \in Funs |-> NoArgs]
    /\ stack = <<>>
    /\ result = NoResult

-----------------------------------------------------------------------------
(* Who is running *)

InScript == stack # <<>> => Head(stack).of \in Cbs

InNative == stack # <<>> /\ Head(stack).of \in Funs

OnStack(w) == \E i \in DOMAIN stack : stack[i].of = w

Usable(w) == wrap[w] = "live" /\ wcif[w] # 0 /\ cif[wcif[w]] = "live"

-----------------------------------------------------------------------------
(* The allocators *)

Freed(m) == IF m = "live" THEN "freed" ELSE "twice"

\* Mutant: the loop of free() walks the list without emptying it.
NotPopped(list) == list

\* What free() leaves in an allocator's list: it pops every pointer.
Popped(list) == {}

\* Mutant: one CStringAllocator shared by all the wrappers.
StringsOfAll(w) == UNION {cstr[v] : v \in Wrappers}

\* The strings that w's own CStringAllocator has listed.
StringsOf(w) == cstr[w]

\* str and cstr once w's strings are freed and those of `new` are listed.
Relist(w, new) ==
    /\ str' = [s \in Strs |-> IF s \in new THEN "live"
                              ELSE IF s \in StringsOf(w) THEN Freed(str[s]) ELSE str[s]]
    /\ cstr' = [cstr EXCEPT ![w] = Popped(@) \cup new]

\* The strings after k have never been allocated, and there are n of them.
Fresh(k, n) == k + n <= MaxStr /\ \A s \in Strs : str[s] = "unused" <=> s > k

-----------------------------------------------------------------------------
(* Libraries: dlOpen and dlSym *)

\* ffi.dlopen finds the file l; what it opens is put in the cache.
OpenFile(l) == dlCache' = dlCache \cup {l}

\* dlOpen(l) returns the file, which it opens once: dlClose is not exported and
\* nothing calls it.
DlOpen(l) ==
    \/ l \in dlCache /\ UNCHANGED dlCache
    \/ l \notin dlCache /\ OpenFile(l)

\* dlSym throws before anything else is allocated: dlopen or dlsym returns 0, in
\* the second case with the file open, and dlerror says why.
DlSymThrows(l) ==
    /\ InScript
    /\ (l \notin dlCache /\ UNCHANGED dlCache) \/ DlOpen(l)
    /\ UNCHANGED <<cifVars, wrapVars, strVars, stack>>

-----------------------------------------------------------------------------
(* Call interfaces: prepCif and freeCif *)

\* The next block that malloc gives.
NextCif(k) == cif[k] = "unused" /\ \A i \in Cifs : cif[i] = "unused" => k <= i

\* prepCif(s) returns cif k: the one in the cache, or a new one.
PrepCif(s, k) ==
    \/ cifCache[s] = k /\ k # 0 /\ UNCHANGED cifVars
    \/ /\ cifCache[s] = 0
       /\ s \notin Unparsable \cup Rejected
       /\ NextCif(k)
       /\ cif' = [cif EXCEPT ![k] = "live"]
       /\ cifCache' = [cifCache EXCEPT ![s] = k]

\* ffi_prep_cif or ffi_prep_cif_var returns an error for a signature that
\* parseType has accepted.
FfiPrepCifFails(s) == s \in Rejected \ Unparsable

\* prepCif(s) throws.  When libffi refuses the signature everything allocated
\* is freed; when parseType throws, the types already built, if any, are lost.
PrepCifThrows(s) ==
    \E k \in Cifs :
        /\ NextCif(k)
        /\ \/ FfiPrepCifFails(s) /\ cif' = [cif EXCEPT ![k] = "freed"]
           \/ s \in Unparsable /\ cif' = [cif EXCEPT ![k] = "lost"]
           \/ s \in Unparsable /\ cif' = cif
        /\ UNCHANGED cifCache

\* Mutant: freeCif leaves the entry in the cache.
CacheKept(s) == cifCache' = cifCache

\* delete cifCache[index]
Uncache(s) == cifCache' = [cifCache EXCEPT ![s] = 0]

\* freeCif(index): whoever else holds the address is not asked.
FreeCif(s) ==
    /\ InScript
    /\ cifCache[s] # 0
    /\ \A w \in Wrappers : wcif[w] = cifCache[s] => ~OnStack(w)
    /\ cif' = [cif EXCEPT ![cifCache[s]] = "freed"]
    /\ Uncache(s)
    /\ UNCHANGED <<dlCache, wrapVars, strVars, stack>>

-----------------------------------------------------------------------------
(* Construction and free *)

\* new CFunction(l, symbol, ...s), for a symbol that dlSym finds in the file l.
NewFunction(f, l, s) ==
    /\ InScript
    /\ wrap[f] = "none"
    /\ DlOpen(l)
    /\ \/ \E k \in Cifs :
            /\ PrepCif(s, k)
            /\ wrap' = [wrap EXCEPT ![f] = "live"]
            /\ sig' = [sig EXCEPT ![f] = s]
            /\ wcif' = [wcif EXCEPT ![f] = k]
            /\ mem' = [mem EXCEPT ![f] = "live"]
       \/ PrepCifThrows(s) /\ UNCHANGED <<wrap, sig, wcif, mem>>
    /\ UNCHANGED <<closure, strVars, stack>>

\* ffi_prep_closure_loc accepts c's closure, whose user data names its adapter.
ClosurePrepared(c) ==
    /\ wrap' = [wrap EXCEPT ![c] = "live"]
    /\ mem' = [mem EXCEPT ![c] = "live"]
    /\ closure' = [closure EXCEPT ![c] = "live"]

\* ffi_prep_closure_loc refuses it: the constructor frees the memory it has
\* allocated and throws, but the closure is not part of that.
ClosureRefused(c) ==
    /\ wrap' = [wrap EXCEPT ![c] = "failed"]
    /\ mem' = [mem EXCEPT ![c] = "freed"]
    /\ closure' = [closure EXCEPT ![c] = "lost"]

\* The constructor throws with the closure and its address slot allocated.
ClosureLost(c) ==
    /\ wrap' = [wrap EXCEPT ![c] = "failed"]
    /\ mem' = [mem EXCEPT ![c] = "lost"]
    /\ closure' = [closure EXCEPT ![c] = "lost"]

\* new CCallback(fn, ...s): the closure is allocated before prepCif is tried.
NewCallback(c, s) ==
    /\ InScript
    /\ wrap[c] = "none"
    /\ \/ \E k \in Cifs :
            /\ PrepCif(s, k)
            /\ sig' = [sig EXCEPT ![c] = s]
            /\ wcif' = [wcif EXCEPT ![c] = k]
            /\ ClosurePrepared(c) \/ ClosureRefused(c)
       \/ PrepCifThrows(s) /\ ClosureLost(c) /\ UNCHANGED <<sig, wcif>>
    /\ UNCHANGED <<dlCache, strVars, stack>>

\* Mutant: free() frees the memory and forgets the strings.
StringsForgotten(w) == UNCHANGED <<str, cstr>>

\* this.cstr.free()
FreeStrings(w) == Relist(w, {})

\* CFunction.free(), any number of times: its MemoryAllocator's list is empty
\* after the first.
FreeFunction(f) ==
    /\ InScript
    /\ wrap[f] \in {"live", "freed"}
    /\ ~OnStack(f)
    /\ wrap' = [wrap EXCEPT ![f] = "freed"]
    /\ mem' = [mem EXCEPT ![f] = IF wrap[f] = "live" THEN Freed(@) ELSE @]
    /\ FreeStrings(f)
    /\ UNCHANGED <<dlCache, cifVars, sig, wcif, closure, avalues, stack>>

\* ffi_closure_free
FfiClosureFree(c) == closure' = [closure EXCEPT ![c] = Freed(@)]

\* CCallback.free()
FreeCallback(c) ==
    /\ InScript
    /\ wrap[c] = "live"
    /\ ~OnStack(c)
    /\ wrap' = [wrap EXCEPT ![c] = "freed"]
    /\ FfiClosureFree(c)
    /\ mem' = [mem EXCEPT ![c] = Freed(@)]
    /\ FreeStrings(c)
    /\ UNCHANGED <<dlCache, cifVars, sig, wcif, avalues, stack>>

-----------------------------------------------------------------------------
(* Calls into native code *)

\* writeArg for the first n arguments: each makes a string, lists it and puts
\* its address in the argument's buffer.
WriteArgs(f, n) ==
    \E k \in 0..MaxStr :
        /\ Fresh(k, n)
        /\ str' = [s \in Strs |-> IF s \in (k + 1)..(k + n) THEN "live" ELSE str[s]]
        /\ cstr' = [cstr EXCEPT ![f] = @ \cup (k + 1)..(k + n)]
        /\ avalues' = [avalues EXCEPT ![f] =
                         [p \in Params |-> IF p <= n THEN k + p ELSE @[p]]]

\* ffi_call: native code starts with what the argument buffers of f hold.
FfiCall(f, n) ==
    /\ Len(stack) < MaxDepth
    /\ stack' = <<[of |-> f, args |-> avalues'[f], given |-> n, reused |-> FALSE]>> \o stack

\* invoke with n arguments, up to the native function's entry.  The buffers of
\* the arguments that are not given keep what an earlier call left in them.
Invoke(f, n) ==
    /\ InScript
    /\ Usable(f)
    /\ WriteArgs(f, n)
    /\ FfiCall(f, n)
    /\ UNCHANGED <<dlCache, cifVars, wrapVars>>

\* invoke throws at an argument that is of the wrong type, or one too many.
InvokeThrows(f, n) ==
    /\ InScript
    /\ Usable(f)
    /\ WriteArgs(f, n)
    /\ UNCHANGED <<dlCache, cifVars, wrapVars, stack>>

\* The strings that native code has been handed: those it was called with, and
\* those that callbacks have returned and not yet freed.
Handed == ({Head(stack).args[p] : p \in Params} \cup UNION {cstr[c] : c \in Cbs}) \ {0}

\* The native function returns: invoke frees the strings listed, and only then has
\* newstring read the one in the return buffer.
NativeReturn ==
    /\ InNative
    /\ LET f == Head(stack).of IN
         /\ result' \in {NoResult} \cup
                        {[string |-> s, args |-> Head(stack).args] : s \in Handed}
         /\ FreeStrings(f)
         /\ stack' = [i \in DOMAIN Tail(stack) |->
                        [Tail(stack)[i] EXCEPT !.reused = @ \/ Tail(stack)[i].of = f]]
    /\ UNCHANGED <<dlCache, cifVars, wrapVars, avalues>>

-----------------------------------------------------------------------------
(* Calls from native code *)

\* Native code calls the closure of c; ffi_closure_js_func_adapter calls the
\* adapter, which calls the script's function.
CallBack(c) ==
    /\ InNative
    /\ Usable(c)
    /\ Len(stack) < MaxDepth
    /\ stack' = <<[of |-> c, args |-> NoArgs, given |-> 0, reused |-> FALSE]>> \o stack
    /\ UNCHANGED <<dlCache, cifVars, wrapVars, strVars>>

\* The script's function returns: the strings of the call before are freed, and
\* n strings made for native code, which keeps them until the next return.  (A
\* value of the wrong type throws after some of them, to the same effect.)
AdapterReturn(n) ==
    /\ stack # <<>> /\ Head(stack).of \in Cbs
    /\ \E k \in 0..MaxStr : Fresh(k, n) /\ Relist(Head(stack).of, (k + 1)..(k + n))
    /\ stack' = Tail(stack)
    /\ UNCHANGED <<dlCache, cifVars, wrapVars, avalues>>

\* The script's function throws: the error is printed and native code goes on.
AdapterThrow ==
    /\ stack # <<>> /\ Head(stack).of \in Cbs
    /\ stack' = Tail(stack)
    /\ UNCHANGED <<dlCache, cifVars, wrapVars, strVars>>

FfiNext ==
    \/ NativeReturn
    \/ /\ result' = NoResult
       /\ \/ \E l \in Libs : DlSymThrows(l)
          \/ \E s \in Sigs : FreeCif(s)
          \/ \E f \in Funs :
               \/ \E l \in Libs, s \in Sigs : NewFunction(f, l, s)
               \/ FreeFunction(f)
               \/ \E n \in 0..NArgs : Invoke(f, n) \/ InvokeThrows(f, n)
          \/ \E c \in Cbs :
               \/ \E s \in Sigs : NewCallback(c, s)
               \/ FreeCallback(c)
               \/ CallBack(c)
          \/ \E n \in 0..NArgs : AdapterReturn(n)
          \/ AdapterThrow

FfiSpec == FfiInit /\ [][FfiNext]_vars

-----------------------------------------------------------------------------
(* Properties *)

\* The outermost call is one to native code, and each other one is made by code
\* of the other kind.
Alternates(q) ==
    \A i \in DOMAIN q : q[i].of \in Funs <=> (i = Len(q) \/ q[i + 1].of \in Cbs)

MemoryTypes ==
    /\ dlCache \subseteq Libs
    /\ cifCache \in [Sigs -> 0..MaxCif]
    /\ cif \in [Cifs -> {"unused", "live", "freed", "lost"}]
    /\ wrap \in [Wrappers -> {"none", "live", "freed", "failed"}]
    /\ sig \in [Wrappers -> Sigs \cup {NoSig}]
    /\ wcif \in [Wrappers -> 0..MaxCif]
    /\ mem \in [Wrappers -> {"none", "live", "freed", "twice", "lost"}]
    /\ closure \in [Cbs -> {"none", "live", "freed", "twice", "lost"}]
    /\ cstr \in [Wrappers -> SUBSET Strs]
    /\ str \in [Strs -> {"unused", "live", "freed", "twice"}]
    /\ avalues \in [Funs -> [Params -> 0..MaxStr]]
    /\ stack \in Seq(Calls)
    /\ Alternates(stack)

\* Every variable has its type, and native code and script alternate on the
\* stack: the script is suspended while native code runs and the other way
\* round, and the outermost call is one from script to native code.
TypeOK == MemoryTypes /\ result \in Results

\* The address of a call interface that a wrapper holds is good exactly while
\* the cache still maps the wrapper's own index to it, however often the index
\* was freed and prepared again by others (prepCif, freeCif).
CifLiveIffCached ==
    /\ \A w \in Wrappers : wrap[w] \in {"live", "freed"} =>
         (cif[wcif[w]] = "live" <=> cifCache[sig[w]] = wcif[w])
    /\ \A s, t \in Sigs : cifCache[s] = cifCache[t] /\ s # t => cifCache[s] = 0

\* A string that invoke made for native code is live for as long as that code
\* runs, whatever callbacks it makes and whatever they call, unless the same
\* function is called again inside (invoke, adapter).
ArgumentsLive ==
    \A i \in DOMAIN stack : ~stack[i].reused =>
        \A p \in 1..stack[i].given : str[stack[i].args[p]] = "live"

\* The string that invoke reads as a result has not been freed before, just when it
\* is none of those the function was called with: invoke frees what that function
\* was given, and never what callbacks have returned to it (invoke, adapter).
ResultLive ==
    result.string # 0 =>
        (str[result.string] = "live" <=> \A p \in Params : result.args[p] # result.string)

\* Strings are live where native code and invoke read them, but for two that
\* CStringAllocator frees too early: arguments of the outer of two nested calls of
\* one function, and an argument that its function returns.
StringsLive == ArgumentsLive /\ ResultLive

\* No memory is freed twice: not by a second free() of a function, a free()
\* after an invocation that threw, or calls that nest (the allocators' free).
NothingFreedTwice ==
    /\ \A w \in Wrappers : mem[w] # "twice"
    /\ \A c \in Cbs : closure[c] # "twice"
    /\ \A s \in Strs : str[s] # "twice"

\* Once every wrapper is freed and every cif too, nothing is allocated but what
\* constructors that threw have lost: also after invocations that threw and
\* callbacks that did.
NoLeak ==
    (\A w \in Wrappers : wrap[w] # "live") /\ (\A s \in Sigs : cifCache[s] = 0) =>
        /\ \A s \in Strs : str[s] # "live"
        /\ \A k \in Cifs : cif[k] # "live"
        /\ \A w \in Wrappers : mem[w] # "live"
        /\ \A c \in Cbs : closure[c] # "live"

-----------------------------------------------------------------------------
(* The three kinds of memory, as NativeMemory has them *)

\* The wrappers whose calls are in progress, and the signatures of these.
Callers == [i \in DOMAIN stack |-> stack[i].of]
CallerSigs == [i \in DOMAIN stack |-> sig[stack[i].of]]

LiveWrappers == {w \in Wrappers : wrap[w] = "live"}

\* C strings: what a wrapper's CStringAllocator lists is that wrapper's.
Strings == INSTANCE NativeMemory
    WITH Holders <- Wrappers, Blocks <- Strs, open <- LiveWrappers, held <- cstr,
         block <- str, users <- Callers

\* Call interfaces: the one cached for a signature is that signature's.
CachedSigs == {s \in Sigs : cifCache[s] # 0}
CachedCifs == [s \in Sigs |-> {cifCache[s]} \ {0}]

Interfaces == INSTANCE NativeMemory
    WITH Holders <- Sigs, Blocks <- Cifs, open <- CachedSigs, held <- CachedCifs,
         block <- cif, users <- CallerSigs

\* What constructors allocate: the memory of every wrapper and a callback's
\* closure, which are the wrapper's until free().
Parts == Wrappers \X {"memory"} \cup Cbs \X {"closure"}

PartsOf(w) == {b \in Parts : b[1] = w}

PartState(b) == LET state == IF b[2] = "memory" THEN mem[b[1]] ELSE closure[b[1]]
                IN IF state = "none" THEN "unused" ELSE state

HeldParts == [w \in Wrappers |-> IF wrap[w] = "live" THEN PartsOf(w) ELSE {}]
PartStates == [b \in Parts |-> PartState(b)]

Objects == INSTANCE NativeMemory
    WITH Holders <- Wrappers, Blocks <- Parts, open <- LiveWrappers, held <- HeldParts,
         block <- PartStates, users <- Callers

\* All native memory is held as NativeMemory promises.  A block is freed once, by
\* who holds it and with all that it holds, and none is left behind: not by an
\* allocator whose list and whose blocks differ, by calls that nest, by a second
\* free(), or by a freeCif while a call uses the call interface.
MemoryHeld == Strings!MemorySpec /\ Interfaces!MemorySpec /\ Objects!MemorySpec

=============================================================================
