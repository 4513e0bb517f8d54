----------------------------- MODULE FfiNatives -----------------------------
(***************************************************************************)
(* The native functions of src/modules/quickjs-ffi.c that give a script    *)
(* raw memory: malloc and its kin, the accessors memread... and            *)
(* memwrite..., and the C strings.                                         *)
(*                                                                         *)
(* Memory is an arena of bytes in which malloc places blocks.  A number of *)
(* the script, however large, becomes a size_t, a pointer or an int64_t    *)
(* modulo WORD, so that a negative one is a large one in C.  Native code   *)
(* that the script calls writes to the blocks as well.                     *)
(*                                                                         *)
(* The script uses blocks that are allocated, tells an accessor the size   *)
(* its block has, keeps to the block where nothing is checked and leaves C *)
(* strings as they are; its offsets, lengths and widths are any numbers.   *)
(* `fault` holds those of the access that left its block, after which the  *)
(* behaviour is undefined.                                                 *)
(***************************************************************************)
EXTENDS Integers, Sequences, FiniteSets, FiniteSetsExt, Functions

CONSTANTS
    BYTE,       \* the number of values of a byte
    BITS,       \* the bits of a word
    MANTISSA,   \* the integers up to here are exact in a double
    FLOAT,      \* and in a float
    Junk,       \* what every byte holds at first
    Top,        \* the last address of the arena
    MaxBlocks,  \* bound: blocks allocated at a time
    MaxStored,  \* bound: values remembered
    MaxCalls,   \* bound: calls that allocate, free or store
    Sizes,      \* numbers the script passes as a size to allocate
    Numbers,    \* as an offset, a length or a width
    Values,     \* as an integer to store
    Reals,      \* as a floating point number to store
    CValues,    \* the integers native code stores
    Texts       \* strings, as the bytes of their UTF-8 encoding

\* b to the power k.
Power(b, k) == LET to[i \in Nat] == IF i = 0 THEN 1 ELSE b * to[i - 1] IN to[k]

WORD == Power(BYTE, 8)      \* values of size_t, uintptr_t and int64_t
Widths == {1, 2, 4, 8}      \* of the integers the accessors know
Addresses == 1..Top
NUL == 0

Abs(n) == IF n < 0 THEN -n ELSE n

\* A byte has a number of bits, and a word no more than BITS; the values to store
\* are in the range of a float, which is here that of an integer of its size.
ASSUME NativesAssumption ==
    /\ BYTE \in Nat \ {0} /\ BYTE % 2 = 0 /\ Junk \in 0..(BYTE - 1) /\ Top \in Nat
    /\ BITS \in Nat /\ WORD <= Power(2, BITS)
    /\ MANTISSA \in Nat \ {0} /\ FLOAT \in Nat \ {0}
    /\ MaxBlocks \in Nat /\ MaxStored \in Nat \ {0} /\ MaxCalls \in Nat
    /\ 2 * (Top + 8) < WORD
    /\ Sizes \cup Numbers \subseteq Int
    /\ Values \cup Reals \cup CValues \subseteq Int
    /\ \A x \in Reals : 4 * Abs(x) < Power(BYTE, 4)
    /\ Texts \subseteq Seq(0..(BYTE - 1))
    /\ \A t \in Texts : 2 * Len(t) < WORD

VARIABLES
    mem,    \* the byte at each address
    block,  \* the size of the block that starts at an address, 0 if none does
    cstr,   \* the blocks that are C strings
    stored, \* values that were stored and are still whole, where they are
    fault,  \* the offset and length of an access outside its block
    calls   \* the number of calls that changed something

vars == <<mem, block, cstr, stored, fault, calls>>

NoFault == <<>>

NativesInit ==
    /\ mem = [a \in Addresses |-> Junk]
    /\ block = [a \in Addresses |-> 0]
    /\ cstr = {}
    /\ stored = {}
    /\ fault = NoFault
    /\ calls = 0

-----------------------------------------------------------------------------
(* Numbers *)

\* JS_ToInt64 and the cast to an unsigned type of its width.
ToSize(n) == n % WORD

\* Mutant: a signed integer is read as an unsigned one.
NoSign(u, m) == u

\* The signed integer that u stands for among m values.
Signed(u, m) == IF 2 * u >= m THEN u - m ELSE u

\* The units of the last place that a mantissa may have.
Ulps == {Power(2, k) : k \in 0..BITS}

\* n rounded to a number whose mantissa is at most m, ties to the even one.
Rounded(n, m) ==
    LET ulp == Min({s \in Ulps : Abs(n) <= m * s})
        q == n \div ulp
        r == n % ulp
        up == 2 * r > ulp \/ (2 * r = ulp /\ q % 2 = 1)
    IN IF up THEN (q + 1) * ulp ELSE q * ulp

\* The bytes of n's lowest w digits, the lowest first.
BytesOf(n, w) == [i \in 0..(w - 1) |-> (n \div Power(BYTE, i)) % BYTE]

\* The unsigned integer of w bytes at a.
Unsigned(a, w) ==
    LET from[i \in 0..w] == IF i = w THEN 0 ELSE mem[a + i] + (BYTE * from[i + 1])
    IN from[0]

\* What memreadint returns for the w bytes at a: the sign is asked for below
\* eight bytes only, and JS_NewInt64 makes a double of what is in none.
IntAt(a, issigned, w) ==
    IF issigned \/ w = 8 THEN Rounded(Signed(Unsigned(a, w), Power(BYTE, w)), MANTISSA)
    ELSE Unsigned(a, w)

\* The bytes of a float or a double: here, of the integer that it is equal to.
FloatBytes(x, w) == BytesOf((IF w = 4 THEN Rounded(x, FLOAT) ELSE x), w)

\* What memreadfloat returns.
FloatAt(a, w) == Signed(Unsigned(a, w), Power(BYTE, w))

\* The bytes before the first NUL: what strlen counts and newstring copies.
UpToNul(t) ==
    LET ends == {i \in DOMAIN t : t[i] = NUL}
    IN IF ends = {} THEN t ELSE SubSeq(t, 1, Min(ends) - 1)

\* The n bytes at a.
TextAt(a, n) == [i \in 1..n |-> mem[a + i - 1]]

-----------------------------------------------------------------------------
(* Blocks *)

Blocks == {b \in Addresses : block[b] > 0}

Extent(a, n) == a..(a + n - 1)

\* The n bytes at a are in block b.
Within(b, a, n) == Extent(a, n) \subseteq Extent(b, block[b])

\* There is room for n bytes at a.
Room(a, n) ==
    /\ Extent(a, n) \subseteq Addresses
    /\ \A b \in Blocks : Extent(a, n) \cap Extent(b, block[b]) = {}

\* What is remembered of values with no byte from a on to a + n.
Spared(a, n) == {r \in stored : Extent(r.at, r.n) \cap Extent(a, n) = {}}

\* What is remembered of values in the first n bytes of b, once they are at a.
Moved(b, a, n) ==
    {[r EXCEPT !.at = a + (r.at - b)] :
        r \in {s \in stored : s.n > 0 /\ Extent(s.at, s.n) \subseteq Extent(b, n)}}

\* mem once the bytes bs, numbered from 0, are written at a.
Written(a, bs) == [b \in Addresses |-> IF b - a \in DOMAIN bs THEN bs[b - a] ELSE mem[b]]

\* Bytes are stored at a, and remembered as what they are.
Store(a, bs, kind, val) ==
    LET n == Cardinality(DOMAIN bs)
        spared == Spared(a, n)
    IN /\ mem' = Written(a, bs)
       /\ \E kept \in kSubset(Min({MaxStored - 1, Cardinality(spared)}), spared) :
            stored' = kept \cup {[at |-> a, n |-> n, kind |-> kind, val |-> val]}

\* One call more.
Counted == fault = NoFault /\ calls < MaxCalls /\ calls' = calls + 1

\* check_args: the number of arguments and the type of each.
CheckArgs(argv, types) ==
    Len(argv) = Len(types) /\ \A i \in DOMAIN types : argv[i] \in types[i]

\* A function throws before it converts or does anything.
Refused(argv, types) == ~CheckArgs(argv, types) /\ UNCHANGED vars

\* malloc(n) returns a block with what its bytes hold, or NULL.
Malloc(n) ==
    /\ Counted
    /\ \/ UNCHANGED block
       \/ /\ Cardinality(Blocks) < MaxBlocks
          /\ \E a \in Addresses : /\ ToSize(n) > 0 /\ Room(a, ToSize(n))
                                  /\ block' = [block EXCEPT ![a] = ToSize(n)]
    /\ UNCHANGED <<mem, cstr, stored, fault>>

\* free(b)
Free(b) ==
    /\ Counted
    /\ b \in Blocks \ cstr
    /\ block' = [block EXCEPT ![b] = 0]
    /\ stored' = Spared(b, block[b])
    /\ UNCHANGED <<mem, cstr, fault>>

\* realloc(b, n): the block moves, or stays and shrinks, or nothing is changed
\* for want of memory.
Realloc(b, n) ==
    LET size == ToSize(n)
        kept == Min({size, block[b]})
    IN
    /\ Counted
    /\ b \in Blocks \ cstr /\ size > 0
    /\ \/ UNCHANGED <<mem, block, stored>>
       \/ /\ size <= block[b]
          /\ block' = [block EXCEPT ![b] = size]
          /\ stored' = Spared(b + size, block[b] - size)
          /\ UNCHANGED mem
       \/ \E a \in Addresses :
            /\ Room(a, size)
            /\ block' = [block EXCEPT ![a] = size, ![b] = 0]
            /\ mem' = Written(a, [i \in 0..(kept - 1) |-> mem[b + i]])
            /\ stored' = Spared(b, block[b]) \cup Moved(b, a, kept)
    /\ UNCHANGED <<cstr, fault>>

\* memset(b, c, n) of the whole block.
Memset(b, c) ==
    /\ Counted
    /\ b \in Blocks \ cstr
    /\ mem' = Written(b, [i \in 0..(block[b] - 1) |-> c % BYTE])
    /\ stored' = Spared(b, block[b])
    /\ UNCHANGED <<block, cstr, fault>>

\* memcpy(d, s, n) of what fits.
Memcpy(d, s) ==
    LET n == Min({block[d], block[s]}) IN
    /\ Counted
    /\ d \in Blocks \ cstr /\ s \in Blocks \ {d}
    /\ mem' = Written(d, [i \in 0..(n - 1) |-> mem[s + i]])
    /\ stored' = Spared(d, n)
    /\ UNCHANGED <<block, cstr, fault>>

-----------------------------------------------------------------------------
(* The accessors *)

\* Mutant: only the offset is compared.
OffsetOnly(buflen, offset, n) == ToSize(offset) > buflen

\* The test of every accessor: a sum of two size_t.  The comparisons with zero
\* beside it are those of unsigned integers.
OutOfBounds(buflen, offset, n) == (ToSize(offset) + ToSize(n)) % WORD > buflen

\* The address that is accessed.
At(b, offset) == ToSize(b + offset)

\* An access of n bytes that the test lets pass leaves the block.
GoesOutside(b, offset, n) ==
    /\ ~OutOfBounds(block[b], offset, n)
    /\ ~Within(b, At(b, offset), ToSize(n))
    /\ fault' = [offset |-> offset, n |-> n]
    /\ UNCHANGED <<mem, block, cstr, stored, calls>>

\* It throws, or accesses its bytes, or leaves the block.
Access(b, offset, n, Effect) ==
    /\ fault = NoFault
    /\ b \in Blocks \ cstr
    /\ \/ OutOfBounds(block[b], offset, n) /\ UNCHANGED vars
       \/ /\ ~OutOfBounds(block[b], offset, n) /\ Within(b, At(b, offset), ToSize(n))
          /\ Effect
          /\ UNCHANGED <<block, cstr, fault>>
       \/ GoesOutside(b, offset, n)

\* memreadint, memreadfloat and memreadstring: what is returned is IntAt,
\* FloatAt or TextAt.
MemRead(b, offset, n) == Access(b, offset, n, UNCHANGED <<mem, stored, calls>>)

\* A width that is none throws once the bounds are checked.
WrongWidth(b, offset, w) ==
    /\ fault = NoFault /\ b \in Blocks
    /\ ToSize(w) \notin Widths
    /\ UNCHANGED vars

\* memwriteint
MemWriteInt(b, offset, w, val) ==
    Access(b, offset, w, Counted /\ Store(At(b, offset), BytesOf(ToSize(val), w), "int", val))

\* memwritefloat
MemWriteFloat(b, offset, w, val) ==
    Access(b, offset, w, Counted /\ Store(At(b, offset), FloatBytes(val, w), "float", val))

\* memwritestring copies what JS_ToCString gives up to the first NUL.
MemWriteString(b, offset, text) ==
    LET t == UpToNul(text)
        bytes == [i \in 0..(Len(t) - 1) |-> t[i + 1]]
    IN Access(b, offset, Len(t), Counted /\ Store(At(b, offset), bytes, "text", text))

-----------------------------------------------------------------------------
(* C strings, and native code *)

\* tocstring gives a C string, which JS_ToCString terminates.
ToCString(text) ==
    /\ Counted
    /\ Cardinality(Blocks) < MaxBlocks
    /\ \E a \in Addresses :
         LET bytes == [i \in 0..Len(text) |-> IF i < Len(text) THEN text[i + 1] ELSE NUL] IN
         /\ Room(a, Len(text) + 1)
         /\ block' = [block EXCEPT ![a] = Len(text) + 1]
         /\ cstr' = cstr \cup {a}
         /\ Store(a, bytes, "cstring", text)
    /\ UNCHANGED fault

\* freecstring
FreeCString(b) ==
    /\ Counted
    /\ b \in cstr
    /\ block' = [block EXCEPT ![b] = 0]
    /\ cstr' = cstr \ {b}
    /\ stored' = Spared(b, block[b])
    /\ UNCHANGED <<mem, fault>>

\* A terminator follows in the block: strlen and newstring may be called.
Terminated(b) == \E a \in Extent(b, block[b]) : mem[a] = NUL

\* newstring(b) and strlen(b) leave everything as it is.
NewString(b) ==
    /\ fault = NoFault
    /\ b \in Blocks /\ Terminated(b)
    /\ UNCHANGED vars

\* fprinthex and printhex only look at the bytes they are told of.
PrintHex(b) ==
    /\ fault = NoFault
    /\ b \in Blocks
    /\ UNCHANGED vars

\* A native function stores an integer of a C type in a block.
NativeStores(a, w, n) ==
    /\ Counted
    /\ \E b \in Blocks \ cstr : Within(b, a, w)
    /\ Store(a, BytesOf(n % WORD, w), "int", n)
    /\ UNCHANGED <<block, cstr, fault>>

ArgTypes == {<<{"number"}>>, <<{"number"}, {"string"}>>, <<{"string", "null"}, {"number"}>>}
ArgLists == {<<>>, <<"number">>, <<"string", "number">>, <<"null", "number">>}

NativesNext ==
    \/ \E argv \in ArgLists, types \in ArgTypes : Refused(argv, types)
    \/ \E n \in Sizes : Malloc(n)
    \/ \E text \in Texts : ToCString(text)
    \/ \E a \in Addresses, w \in Widths, n \in CValues : NativeStores(a, w, n)
    \/ \E b \in Blocks :
         \/ Free(b)
         \/ FreeCString(b)
         \/ NewString(b)
         \/ PrintHex(b)
         \/ \E n \in Sizes : Realloc(b, n)
         \/ \E c \in Values : Memset(b, c)
         \/ \E s \in Blocks : Memcpy(b, s)
         \/ \E offset \in Numbers :
              \/ \E n \in Numbers : MemRead(b, offset, n) \/ WrongWidth(b, offset, n)
              \/ \E w \in Widths, val \in Values : MemWriteInt(b, offset, w, val)
              \/ \E w \in {4, 8}, val \in Reals : MemWriteFloat(b, offset, w, val)
              \/ \E text \in Texts : MemWriteString(b, offset, text)

NativesSpec == NativesInit /\ [][NativesNext]_vars

-----------------------------------------------------------------------------
(* Properties *)

\* n is the same number for the script, as an int64_t and as a size_t.
Representable(n) == n >= 0 /\ 2 * n < WORD

\* The one test in front of an access keeps it in its buffer, whatever the
\* offset, length or width, unless one of them is negative or 2^63 and more: the
\* tests of `< 0` do not see that, and the sum may wrap.  No access that lies in
\* the buffer is refused (memreadint to memwritestring).
BoundsChecked ==
    /\ fault # NoFault => ~(Representable(fault.offset) /\ Representable(fault.n))
    /\ \A b \in Blocks, offset, n \in Numbers :
         Representable(offset) /\ Representable(n) =>
            (OutOfBounds(block[b], offset, n) <=> offset + n > block[b])

\* x is n, or where a mantissa of m does not suffice a number close to it.
Close(x, n, m) == IF Abs(n) <= m THEN x = n ELSE Abs(x - n) * m <= Abs(n)

\* The integer of a C type of w bytes that n becomes.
AsC(n, issigned, w) ==
    LET m == Power(BYTE, w)
    IN  CHOOSE i \in IF issigned THEN -(m \div 2)..((m \div 2) - 1) ELSE 0..(m - 1) : (i - n) % m = 0

\* What a script or native code has stored is what is read back from its place
\* for as long as none of its bytes is overwritten or freed, also after realloc
\* and whatever is stored beside it: an integer as the C type makes it of the
\* number, but that an unsigned one of eight bytes comes back signed; a string
\* up to its first NUL.
ReadsBack ==
    \A r \in stored :
        CASE r.kind = "int" ->
               \A issigned \in BOOLEAN :
                  Close(IntAt(r.at, issigned, r.n), AsC(r.val, issigned \/ r.n = 8, r.n), MANTISSA)
          [] r.kind = "float" ->
               Close(FloatAt(r.at, r.n), r.val, IF r.n = 4 THEN FLOAT ELSE MANTISSA)
          [] OTHER ->
               LET t == UpToNul(TextAt(r.at, r.n)) IN
               /\ t = SubSeq(r.val, 1, Len(t))
               /\ NUL \in Range(r.val) \/ t = r.val

=============================================================================
