---------------------------- MODULE MCFfiNatives ----------------------------
(***************************************************************************)
(* A TLC instance of FfiNatives with bytes of one bit: integers of one to  *)
(* eight bytes have one to eight bits, and a size_t has eight, so that     *)
(* sums wrap within an arena of a block of eight bytes and another byte.   *)
(***************************************************************************)
EXTENDS FfiNatives

\* A script's numbers: what fits, what ends at the block's end or beyond it,
\* the largest that an int64_t has, one it has not and that becomes -8, one of
\* more than a word, and negative ones whose sum with a width wraps.
MCNumbers == {0, 1, 4, 8, 127, 248, 257, -1, -8}

MCSizes == {1, 8, -1}

MCValues == {-1, 5}

MCTexts == {<<1, 1>>, <<1, 0, 1>>}

\* Sanity conditions a reader may add as INVARIANTs to see that the situations
\* the properties are about are reached.
NeverOutside == fault = NoFault
NeverBeside  == Cardinality(stored) < 2

=============================================================================
