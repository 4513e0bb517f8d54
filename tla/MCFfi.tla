------------------------------- MODULE MCFfi -------------------------------
(***************************************************************************)
(* TLC instances of Ffi: functions and callbacks that share one signature, *)
(* a second signature that does not parse or that libffi refuses, and a    *)
(* stack deep enough for a callback to call the same function again.       *)
(***************************************************************************)
EXTENDS Ffi

\* Sanity conditions a reader may add as INVARIANTs to see that the situations
\* the properties are about are reached.
NeverReused == \A i \in DOMAIN stack : ~stack[i].reused
NeverStale == \A i \in DOMAIN stack : \A p \in Params :
                stack[i].args[p] # 0 => str[stack[i].args[p]] # "freed"

=============================================================================
