---------------------------- MODULE MCTypeLayout ----------------------------
(***************************************************************************)
(* TLC instances of TypeLayout with the sizes of a 64-bit target: lists of *)
(* up to three members, which are primitives or lists of up to two; lists  *)
(* of lists one level deeper; and representations that do not parse.       *)
(***************************************************************************)
EXTENDS TypeLayout, TLC

CONSTANTS schar, sint32, pointer, size_t, nosuch

\* A C integer or pointer is aligned to its size.
MCCSize == schar :> 1 @@ sint32 :> 4 @@ pointer :> 8 @@ size_t :> 8

\* primitiveTypes gives each its C width.
MCWidth == MCCSize

\* ffi_type_size_t is ffi_type_sint32 on a 64-bit target.
MCFfiSize == [MCCSize EXCEPT ![size_t] = 4]

\* ffi_call returns a narrower integer as an ffi_arg.
MCFfiReturn == [p \in DOMAIN MCCSize |-> 8]

UpTo(n, S) == UNION {[1..k -> S] : k \in 0..n}

Flat == UpTo(2, Primitives)

Nested == UpTo(3, Primitives \cup {f \in Flat : f # <<>>})

Deep == {<<t>> : t \in Flat} \cup {<<p, <<f>>, p>> : p \in Primitives, f \in Flat}

Wrong == {nosuch, <<>>, <<schar, nosuch>>, <<schar, <<>>>>, <<nosuch>>, <<<<nosuch>>, schar>>}

MCTypes == Primitives \cup Nested \cup Deep \cup Wrong

MCDepth[t \in MCTypes] ==
    IF t \in Primitives \cup Unknown THEN 0 ELSE 1 + Max({0} \cup {MCDepth[t[i]] : i \in DOMAIN t})

=============================================================================
