----------------------------- MODULE MCModules -----------------------------
(***************************************************************************)
(* TLC instance of the two programs that load modules: the compiler, and   *)
(* the runtimes.  In a behaviour only the one that `program` names takes   *)
(* steps, and the other stays in its initial state.                        *)
(*                                                                         *)
(* Two scripts that may import each other, themselves, a bundle, modules   *)
(* in C and nothing.  The bytecode of one bundle has the name it is        *)
(* imported by; that of the other has a path, as both have in the arrays   *)
(* of src/bundles.                                                         *)
(***************************************************************************)
EXTENDS MCToyjsc, ModuleLoading

VARIABLE program    \* "toyjsc" or "runtime"

MCImported == {<<>>, <<"lib">>, <<"main", "jsffi">>, <<"jsffi", "lib">>, <<"lib", "net", "jsmodules">>,
               <<"jsmodules", "std", "jsmodules">>, <<"test", "jsffi", "main">>}

MCBytecodeName == [jsmodules |-> "jsmodules", jsffi |-> "src/bundles/quickjs-ffi.js"]

modulesVars == <<program, vars, loadingVars>>

OneOf(S) == {CHOOSE x \in S : TRUE}

ModulesInit ==
    /\ program \in {"toyjsc", "runtime"}
    /\ ToyjscInit /\ LoadingInit
    /\ program # "toyjsc" =>
         /\ imports \in OneOf([Files -> ImportLists])
         /\ argv \in OneOf(Args) /\ dyn \in OneOf(Dyns)
         /\ cname = NoName /\ scriptName = NoName
    /\ program # "runtime" => runtime = "toyjsruntime" /\ asks = [s \in Scripts |-> <<>>]

ToyjscStep(A)  == program = "toyjsc" /\ A /\ UNCHANGED <<program, loadingVars>>
RuntimeStep(A) == program = "runtime" /\ A /\ UNCHANGED <<program, vars>>

ModulesNext == ToyjscStep(ToyjscNext) \/ RuntimeStep(LoadingNext)

\* The fairness of FairLoadingSpec.
ModulesSpec ==
    /\ ModulesInit /\ [][ModulesNext]_modulesVars
    /\ WF_modulesVars(RuntimeStep(LoadingNext))

-----------------------------------------------------------------------------

\* Every variable has its type: the lists and the names of the compiler, and the
\* context and the modules in progress of the runtimes.
ModulesTypeOK == TypeOK /\ LoadingTypeOK

=============================================================================
