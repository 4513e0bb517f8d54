----------------------------- MODULE TypeLayout -----------------------------
(***************************************************************************)
(* How the FFI bundle passes data of a C type (src/src/bundles/            *)
(* quickjs-ffi.js).  parseType turns a representation, a primitive name or *)
(* a list of representations, into a type of libffi and the offsets of its *)
(* primitive elements.  Values go to native code when invoke writes an     *)
(* argument or the adapter its result, and come from it when the adapter   *)
(* reads an argument or invoke its result.  The memory is the bundle's in  *)
(* invoke, nbytes of it, and native code's in the adapter.                 *)
(*                                                                         *)
(* A byte of memory holds the number of the element whose value it is part *)
(* of, or Junk: what was there before.  Native code is the other side,     *)
(* libffi and the function or the caller behind it: it has each element    *)
(* where a C compiler puts it.                                             *)
(***************************************************************************)
EXTENDS Naturals, Sequences, SequencesExt, FiniteSetsExt

CONSTANTS
    Primitives, \* the keys of primitiveTypes, but for void and the complex ones
    Unknown,    \* other names, and values that are neither string nor list
    Types,      \* the representations scripts pass, and those in their lists
    Depth,      \* how deep the lists of each are nested
    Width,      \* primitiveTypes[p][1], which [2] and [3] read and write
    FfiSize,    \* the size and alignment of the ffi_type primitiveTypes[p][0]
    FfiAlign,
    FfiReturn,  \* how many bytes ffi_call writes to return a primitive
    CSize,      \* sizeof and alignof of the C type
    CAlign

ASSUME LayoutAssumption ==
    \A p \in Primitives : /\ Width[p] \in Nat \ {0} /\ FfiSize[p] \in Nat \ {0}
                          /\ CSize[p] \in Nat \ {0}
                          /\ FfiAlign[p] \in Nat \ {0} /\ CAlign[p] \in Nat \ {0}
                          /\ FfiReturn[p] \in Nat

\* A list holds representations, and not itself.
ASSUME TypesAssumption ==
    /\ Depth \in [Types -> Nat]
    /\ \A t \in Types \ (Primitives \cup Unknown) :
         t \in Seq(Types) /\ \A i \in DOMAIN t : Depth[t[i]] < Depth[t]

\* In C, alignments are powers of two, and a size is a multiple of its alignment.
ASSUME AlignmentAssumption ==
    \A p, q \in Primitives :
        /\ CSize[p] % CAlign[p] = 0
        /\ CAlign[p] <= CAlign[q] => CAlign[q] % CAlign[p] = 0

Junk == 0

VARIABLES
    repr,      \* the representation
    outward,   \* the value goes to native code
    ours,      \* in invoke, not the adapter: the memory is the bundle's
    step,      \* "parse", "write", "native", "read" or "done"; or parseType has
               \* thrown, "throw", or the write function, "refused"
    given,     \* how many elements the script's value has
    ereprs,    \* the primitive elements: ereprs of parseType
    eoffsets,  \* their offsets: eoffsets
    nbytes,    \* nbytes
    cplace,    \* where the C compiler has them, and where it ends
    mem,       \* the value's memory, and the bytes accessed beyond it
    next,      \* the element that the script's side comes to next
    got        \* what has been read of each element: the values of its bytes

vars == <<repr, outward, ours, step, given, ereprs, eoffsets, nbytes, cplace, mem, next, got>>

\* What parseType and the call have settled.
type == <<repr, outward, ours, given, ereprs, eoffsets, nbytes, cplace>>

AlignUp(n, a) == ((n + a - 1) \div a) * a

\* buildTree throws on a name that is no key, on what is neither string nor
\* list, and on an empty list, of which libffi gives no offsets.
Parsable[t \in Types] ==
    /\ t \notin Unknown
    /\ t \notin Primitives => t # <<>> /\ \A i \in DOMAIN t : Parsable[t[i]]

Parsed == {t \in Types : Parsable[t]}

\* elementsRepresentations: the primitives in the order buildTree meets them.
Leaves[t \in Parsed] ==
    IF t \in Primitives THEN <<t>> ELSE FlattenSeq([i \in DOMAIN t |-> Leaves[t[i]]])

-----------------------------------------------------------------------------
(* What libffi and the C compiler make of a type *)

\* Where the members ms of a struct end, which are types of libffi, and the
\* struct without any.
FfiEnds(ms) ==
    LET to[i \in 0..Len(ms)] ==
          IF i = 0 THEN 0 ELSE AlignUp(to[i - 1], ms[i].align) + ms[i].size
    IN to

\* initialize_aggregate lays out a struct and gives its members' offsets.
Aggregate(ms) ==
    LET align == Max({ms[i].align : i \in DOMAIN ms})
    IN [size |-> AlignUp(FfiEnds(ms)[Len(ms)], align), align |-> align,
        offsets |-> [i \in DOMAIN ms |-> AlignUp(FfiEnds(ms)[i - 1], ms[i].align)]]

FfiType[t \in Parsed] ==
    IF t \in Primitives
    THEN [size |-> FfiSize[t], align |-> FfiAlign[t], offsets |-> <<>>]
    ELSE Aggregate([i \in DOMAIN t |-> FfiType[t[i]]])

\* A C compiler's alignment of t.
CAlignOf[t \in Parsed] ==
    IF t \in Primitives THEN CAlign[t] ELSE Max({CAlignOf[t[i]] : i \in DOMAIN t})

\* Where the members ms end that the compiler places one after the other from
\* the address start on.
CEnds(ms, start) ==
    LET to[i \in 0..Len(ms)] == IF i = 0 THEN start ELSE ms[i][to[i - 1]].end
    IN to

\* A struct of these members: the addresses of its elements, and where it ends,
\* when it starts at or after address a.
CStruct(ms, align) ==
    [a \in Nat |->
       LET to == CEnds(ms, AlignUp(a, align))
       IN [at  |-> FlattenSeq([i \in DOMAIN ms |-> ms[i][to[i - 1]].at]),
           end |-> AlignUp(to[Len(ms)], align)]]

CPlace[t \in Parsed] ==
    IF t \in Primitives
    THEN [a \in Nat |-> LET start == AlignUp(a, CAlign[t])
                       IN [at |-> <<start>>, end |-> start + CSize[t]]]
    ELSE CStruct([i \in DOMAIN t |-> CPlace[t[i]]], CAlignOf[t])

\* The bytes of element e in native code's eyes.
CBytes(e) == cplace.at[e]..(cplace.at[e] + CSize[ereprs[e]] - 1)

-----------------------------------------------------------------------------
(* parseType *)

\* Mutant: the offset in the innermost struct.
RelOnly(parent, rel) == rel

\* absOffset of a child.
AbsOffset(parent, rel) == rel + parent

\* ffi_get_struct_offsets: where libffi puts the members of the struct t.
StructOffsets(t) == FfiType[t].offsets

\* walkTree: the offsets of the primitive elements of a type at offset o; of a
\* struct, those of its children, of which libffi has the offsets.
WalkChildren(walks, offsets) ==
    [o \in Nat |-> FlattenSeq([i \in DOMAIN walks |-> walks[i][AbsOffset(o, offsets[i])]])]

Walk[t \in Parsed] ==
    IF t \in Primitives THEN [o \in Nat |-> <<o>>]
    ELSE WalkChildren([i \in DOMAIN t |-> Walk[t[i]]], StructOffsets(t))

\* Mutant: the sum of the elements' widths.
WidthsAdded(es, os) == FoldLeft(LAMBDA n, p : n + Width[p], 0, es)

\* nbytes: where the last element ends.
NBytes(es, os) == Last(os) + Width[Last(es)]

LayoutInit ==
    /\ repr \in Types
    /\ outward \in BOOLEAN /\ ours \in BOOLEAN
    /\ step = "parse" /\ given = 0
    /\ ereprs = <<>> /\ eoffsets = <<>> /\ nbytes = 0 /\ cplace = [at |-> <<>>, end |-> 0]
    /\ mem = <<>> /\ next = 1 /\ got = <<>>

\* The bytes that are the value's: mem.alloc(nbytes) of CFunction, or a C value.
Allocated == 0..((IF ours THEN nbytes ELSE cplace.end) - 1)

\* parseType, and the value that a call brings: if it is the script's, any number
\* of elements.  Of a callback's result, none beyond those of the type are looked at.
ParseType ==
    /\ step = "parse" /\ repr \in Parsed
    /\ ereprs' = Leaves[repr]
    /\ eoffsets' = Walk[repr][0]
    /\ nbytes' = NBytes(ereprs', eoffsets')
    /\ cplace' = CPlace[repr][0]
    /\ given' \in IF outward THEN 0..(Len(ereprs') + IF ours THEN 1 ELSE 0) ELSE {Len(ereprs')}
    /\ mem' = [b \in 0..((IF ours THEN nbytes' ELSE cplace'.end) - 1) |-> Junk]
    /\ step' = IF outward THEN "write" ELSE "native"
    /\ UNCHANGED <<repr, outward, ours, next, got>>

ParseThrows ==
    /\ step = "parse" /\ repr \notin Parsed
    /\ step' = "throw"
    /\ UNCHANGED <<type, mem, next, got>>

-----------------------------------------------------------------------------
(* The two sides of a call *)

\* Where the script's side has element e; the adapter takes a type of one
\* element to be at its start.
ElementAt(e) == IF Len(ereprs) > 1 THEN eoffsets[e] ELSE 0

\* The bytes that its read or write function touches.
Bytes(e) == ElementAt(e)..(ElementAt(e) + Width[ereprs[e]] - 1)

\* What is read at b.
Byte(b) == IF b \in DOMAIN mem THEN mem[b] ELSE Junk

\* How many elements the loop that writes goes over: in invoke arg.length, or one
\* if arg is no list; in the adapter rereprs.length.
Turns == IF ours THEN given ELSE Len(ereprs)

\* There is a value and a place for element next.
Matched == next <= given /\ next <= Len(ereprs)

\* A turn of the loop in invoke, or of the one at the end of the adapter.
WriteElement ==
    /\ step = "write" /\ next <= Turns /\ Matched
    /\ mem' = [b \in DOMAIN mem \cup Bytes(next) |-> IF b \in Bytes(next) THEN next ELSE mem[b]]
    /\ next' = next + 1
    /\ UNCHANGED <<type, step, got>>

\* writeArg has no type for the element, or its value is missing or no number (or
\* string).
WriteThrows ==
    /\ step = "write" /\ next <= Turns
    /\ step' = "refused"
    /\ UNCHANGED <<type, mem, next, got>>

WriteEnds ==
    /\ step = "write" /\ next > Turns
    /\ step' = "native"
    /\ UNCHANGED <<type, mem, next, got>>

\* The bytes that libffi reads of an argument or writes to return a value: all of
\* a struct, with the padding at its end, and of a narrow integer a whole register.
Passed ==
    0..((IF outward \/ repr \notin Primitives THEN FfiType[repr].size ELSE FfiReturn[repr]) - 1)

\* What is accessed once native code has had its turn; in its own memory it is at home.
Accessed == DOMAIN mem \cup IF ours THEN Passed ELSE {}

\* Native code reads the value.
NativeReads ==
    /\ step = "native" /\ outward
    /\ got' = [e \in DOMAIN ereprs |-> {Byte(b) : b \in CBytes(e)}]
    /\ mem' = [b \in Accessed |-> Byte(b)]
    /\ step' = "done"
    /\ UNCHANGED <<type, next>>

\* Native code writes the value.
NativeWrites ==
    /\ step = "native" /\ ~outward
    /\ mem' = [b \in Accessed |->
                 IF \E e \in DOMAIN ereprs : b \in CBytes(e)
                 THEN CHOOSE e \in DOMAIN ereprs : b \in CBytes(e) ELSE Junk]
    /\ step' = "read"
    /\ UNCHANGED <<type, next, got>>

\* readRet, or the loop at the beginning of the adapter.
ReadElement ==
    /\ step = "read"
    /\ got' = Append(got, {Byte(b) : b \in Bytes(next)})
    /\ next' = next + 1
    /\ step' = IF next = Len(ereprs) THEN "done" ELSE "read"
    /\ UNCHANGED <<type, mem>>

LayoutNext ==
    \/ ParseType
    \/ ParseThrows
    \/ WriteElement
    \/ WriteThrows
    \/ WriteEnds
    \/ NativeReads
    \/ NativeWrites
    \/ ReadElement

LayoutSpec == LayoutInit /\ [][LayoutNext]_vars

-----------------------------------------------------------------------------
(* Properties *)

\* The other side gets each element whole, and nothing else in its place: what
\* invoke and the adapter write is where native code looks for it, and what
\* they read is where native code has it (parseType, writeArg, readRet).  Of an
\* argument with too few values, native code gets the rest as it was before.
Received ==
    step = "done" => got = [e \in DOMAIN ereprs |-> {IF e <= given THEN e ELSE Junk}]

\* All elements are within nbytes, and the script's side never leaves the memory,
\* not even with too many values.  Native code does, exactly where nbytes, which ends
\* with the last element, is short of what libffi passes: by the padding at the end
\* of a type, or the rest of the register for a narrow integer that is returned
\* (walkTree, CFunction's constructor).
OnlyNativeBeyond ==
    step \notin {"parse", "throw"} =>
      /\ \A e \in DOMAIN ereprs : CBytes(e) \subseteq 0..(nbytes - 1)
      /\ nbytes <= cplace.end /\ cplace.end - nbytes < CAlignOf[repr]
      /\ DOMAIN mem \ Allocated =
           IF ~ours \/ step \notin {"read", "done"} THEN {}
           ELSE nbytes..((IF ~outward /\ repr \in Primitives THEN FfiReturn[repr]
                          ELSE cplace.end) - 1)

\* An element is as wide in primitiveTypes as the type that libffi is given for
\* it: the elements do not overlap.
ElementsApart ==
    \A e \in DOMAIN eoffsets : e > 1 =>
      eoffsets[e - 1] + Width[ereprs[e - 1]] <= eoffsets[e]

=============================================================================
