------------------------------ MODULE MCToyjsc ------------------------------
(***************************************************************************)
(* TLC instances of Toyjsc: a.js and lib.d/a.js have the same C name, and  *)
(* a-1 has the one that the second of them is then given; a C module; every*)
(* way the files may import each other from a list of import lists with    *)
(* cycles, repetitions and both orders.                                    *)
(***************************************************************************)
EXTENDS Toyjsc

CONSTANTS std, script

fa == <<"a", ".", "j", "s">>
fb == <<"l", "i", "b", ".", "d", "/", "a", ".", "j", "s">>
fc == <<"a", "-", "1">>

MCFiles == {fa, fb, fc}

MCImportLists == {<<>>, <<fa>>, <<fb>>, <<fc>>, <<std, fb>>, <<fb, fc>>, <<fc, fa, std>>}

MCArgs == {<<fa>>, <<fb, fa>>, <<fc, fa>>}

MCDyns == {<<>>, <<fb>>, <<std>>}

MCCNameOptions == {NoName, <<"a">>}

MCScriptNames == {NoName, script}

MCCharacters == Letters \cup Digits \cup {"_", "-", ".", "/"}

MCDecimals == [k \in 1..9 |-> <<ToString(k)>>]

\* One file on the command line and no options.
OneArg == {<<fa>>}
NoDyns == {<<>>}
NoOption == {NoName}

=============================================================================
