---------------------------- MODULE ModuleLoading ----------------------------
(***************************************************************************)
(* How the main module and its imports get into the context and run: main  *)
(* of the runtime (src/main.c) and of the older one (src/test/main.c), the *)
(* loader of the runtime (src/modules/utils.c) with its table of modules   *)
(* compiled beforehand, and the modules written in C.                      *)
(*                                                                         *)
(* QuickJS asks the loader for each name that no module of the context     *)
(* has.  A module compiled beforehand has the name that the compiler was   *)
(* given (BytecodeName), which need not be the name it is imported by.     *)
(* `context` lists the modules: an instance is an index of it.  `active`   *)
(* holds the instances whose imports are being resolved, and then those    *)
(* that are being evaluated, the innermost first.                          *)
(*                                                                         *)
(* Only the main module is taken to use await at its top level, and what   *)
(* happens while it waits is the subject of Runtime.                       *)
(***************************************************************************)
EXTENDS Naturals, Sequences, SequencesExt

CONSTANTS
    Runtimes,       \* the programs that are run: "toyjsruntime", "testquickjs"
    Scripts,        \* the names of the script files
    MainScript,     \* the file of the command line
    Imported,       \* the lists of names a script may import, in order
    BytecodeName    \* the name in the bytecode of each module of `builtins`

\* The table of utils.c, with what the bundles import.
BuiltinImports == [jsmodules |-> <<"net">>, jsffi |-> <<"ffi">>]
Builtins == DOMAIN BuiltinImports

\* The modules in C that each main adds to the context.
RuntimeModules    == <<"std", "os", "test", "ffi", "net">>
OldRuntimeModules == <<"std", "os", "test">>

Importable == Scripts \cup Builtins \cup ToSet(RuntimeModules)

ASSUME LoadingAssumption ==
    /\ Runtimes \subseteq {"toyjsruntime", "testquickjs"}
    /\ MainScript \in Scripts
    /\ Scripts \cap (Builtins \cup ToSet(RuntimeModules)) = {}
    /\ Imported \subseteq Seq(Importable)
    /\ BytecodeName \in [Builtins -> STRING]
    /\ \A b \in Builtins : BytecodeName[b] \notin Importable \ {b}

VARIABLES
    runtime,    \* the program
    asks,       \* what each script imports
    step,       \* "start", "resolve", "evaluate", or how main goes on
    context,    \* the modules of the context, in the order they entered it
    active,     \* modules in progress, the innermost first
    ran         \* the instances whose code has run, in order

loadingVars == <<runtime, asks, step, context, active, ran>>

Instances == DOMAIN context

\* A module as it enters the context; `imports` are the instances its requests
\* have been resolved to so far, and `by` the name it was asked for.
NewModule(n, by, rs) ==
    [name |-> n, by |-> by, requests |-> rs, imports |-> <<>>, state |-> "new"]

LoadingInit ==
    /\ runtime \in Runtimes
    /\ asks \in [Scripts -> Imported]
    /\ step = "start"
    /\ context = <<>>
    /\ active = <<>>
    /\ ran = <<>>

-----------------------------------------------------------------------------
(* Loading *)

\* A module in C is in the context under its name from the start and imports
\* nothing.
NewCModule(n) == NewModule(n, n, <<>>)

\* JS_ReadObject makes a module of the name that the bytecode has.
ReadBuiltin(b) == NewModule(BytecodeName[b], b, BuiltinImports[b])

\* The file is compiled under the name it was asked for.
ReadScript(s) == NewModule(s, s, asks[s])

\* Mutant: a module is found once its imports are resolved.
FoundLater(n) == {i \in Instances : context[i].name = n /\ i \notin ToSet(active)}

\* js_find_loaded_module
Found(n) == {i \in Instances : context[i].name = n}

\* The module m enters the context, and its own imports are resolved next.
EnterContext(m, below) ==
    /\ context' = Append(below, m)
    /\ active' = <<Len(below) + 1>> \o active

\* eval_buf prints the error and main returns 1.
LoadingFails ==
    /\ step' = "error"
    /\ active' = <<>>
    /\ UNCHANGED <<context, ran>>

\* main up to the evaluation of the file, which is compiled as a module.
Start(modules) ==
    /\ step = "start"
    /\ step' = "resolve"
    /\ EnterContext(ReadScript(MainScript), [i \in DOMAIN modules |-> NewCModule(modules[i])])
    /\ UNCHANGED <<runtime, asks, ran>>

RuntimeStart    == runtime = "toyjsruntime" /\ Start(RuntimeModules)
OldRuntimeStart == runtime = "testquickjs" /\ Start(OldRuntimeModules)

\* eval_file cannot read the file, or it does not compile.
MainFileFails ==
    /\ step = "start"
    /\ LoadingFails
    /\ UNCHANGED <<runtime, asks>>

\* The innermost module's request that is resolved next.
Request == LET m == context[Head(active)] IN m.requests[Len(m.imports) + 1]

\* Mutant: the resolution of a request is not recorded.
NotLinked(i) == context

\* The context once that request is resolved to instance i.
Linked(i) == [context EXCEPT ![Head(active)].imports = Append(@, i)]

\* The request is for a module that is in the context.
ResolveFound ==
    /\ \E i \in Found(Request) : context' = Linked(i)
    /\ UNCHANGED <<step, active, ran>>

\* js_cutome_module_loader, and for the older runtime js_module_loader: the name
\* is in the table, or is that of a file.
ModuleLoader ==
    /\ Found(Request) = {}
    /\ LET new == Linked(Len(context) + 1) IN
         \/ /\ runtime = "toyjsruntime" /\ Request \in Builtins
            /\ EnterContext(ReadBuiltin(Request), new)
         \/ Request \in Scripts /\ EnterContext(ReadScript(Request), new)
    /\ UNCHANGED <<step, ran>>

\* Mutant: an import that is not found is left out.
SkipMissing ==
    /\ context' = [context EXCEPT ![Head(active)].requests = RemoveAt(@, Len(context[Head(active)].imports) + 1)]
    /\ UNCHANGED <<step, active, ran>>

\* There is nothing of that name, or its file does not compile: the loader
\* returns NULL, which fails all that are being resolved.
LoaderFails == LoadingFails

Resolving == step = "resolve" /\ active # <<>>

Requesting == Resolving /\ LET m == context[Head(active)] IN Len(m.imports) < Len(m.requests)

ResolveImport ==
    /\ Requesting
    /\ \/ ResolveFound
       \/ ModuleLoader
       \/ Found(Request) = {} /\ Request \notin Builtins /\ LoaderFails
       \/ Found(Request) = {} /\ runtime = "testquickjs" /\ LoaderFails
    /\ UNCHANGED <<runtime, asks>>

\* All imports of the innermost module are resolved; after those of the main
\* module, which is the first after the modules in C, it is evaluated.
ImportsResolved ==
    /\ Resolving /\ ~Requesting
    /\ IF Len(active) > 1
       THEN active' = Tail(active) /\ UNCHANGED step
       ELSE UNCHANGED active /\ step' = "evaluate"
    /\ UNCHANGED <<runtime, asks, context, ran>>

-----------------------------------------------------------------------------
(* Evaluation: JS_EvalFunction *)

\* js_inner_module_evaluation has not been called for the instance i.
NotVisited(i) == context[i].state = "new" /\ i \notin ToSet(active)

\* Mutant: the imports are evaluated after the module that has them.
NoneBefore(i) == {}

\* The imports of instance i that are evaluated before it.
EvaluatedBefore(i) == {j \in DOMAIN context[i].imports : NotVisited(context[i].imports[j])}

\* The next import of the innermost module is evaluated first.
EvaluateImport ==
    /\ step = "evaluate" /\ active # <<>>
    /\ \E j \in EvaluatedBefore(Head(active)) :
         /\ \A k \in EvaluatedBefore(Head(active)) : j <= k
         /\ active' = <<context[Head(active)].imports[j]>> \o active
    /\ UNCHANGED <<runtime, asks, step, context, ran>>

\* The code of the innermost module runs, or the init function of one in C.
RunModule ==
    /\ step = "evaluate" /\ active # <<>>
    /\ EvaluatedBefore(Head(active)) = {}
    /\ context' = [context EXCEPT ![Head(active)].state = "evaluated"]
    /\ ran' = Append(ran, Head(active))
    /\ active' = Tail(active)
    /\ UNCHANGED <<runtime, asks, step>>

\* A script's code throws: all the modules that wait for it fail.
ScriptThrows ==
    /\ step = "evaluate" /\ active # <<>>
    /\ EvaluatedBefore(Head(active)) = {}
    /\ context[Head(active)].name \in Scripts
    /\ step' = "error"
    /\ active' = <<>>
    /\ ran' = Append(ran, Head(active))
    /\ UNCHANGED <<runtime, asks, context>>

\* The runtime goes on with uv_run.
EnterLoop ==
    /\ runtime = "toyjsruntime"
    /\ step = "evaluate" /\ active = <<>>
    /\ step' = "uv_run"
    /\ UNCHANGED <<runtime, asks, context, active, ran>>

\* The older runtime runs no loop: timers that the script has set are lost.
OldRuntimeEnds ==
    /\ runtime = "testquickjs"
    /\ step = "evaluate" /\ active = <<>>
    /\ step' = "exit"
    /\ UNCHANGED <<runtime, asks, context, active, ran>>

LoadingNext ==
    \/ RuntimeStart \/ OldRuntimeStart \/ MainFileFails
    \/ ResolveImport \/ ImportsResolved
    \/ EvaluateImport \/ RunModule \/ ScriptThrows
    \/ EnterLoop \/ OldRuntimeEnds

LoadingSpec == LoadingInit /\ [][LoadingNext]_loadingVars

\* One thread does all this, without waiting for anything.
FairLoadingSpec == LoadingSpec /\ WF_loadingVars(LoadingNext)

-----------------------------------------------------------------------------
(* Properties *)

\* Every variable has its type, and no instance is in progress twice.
LoadingTypeOK ==
    /\ runtime \in Runtimes /\ asks \in [Scripts -> Imported]
    /\ step \in {"start", "resolve", "evaluate", "uv_run", "exit", "error"}
    /\ \A i \in Instances :
         /\ context[i].name \in Importable \cup {BytecodeName[b] : b \in Builtins}
         /\ context[i].by \in Importable
         /\ context[i].requests \in Seq(Importable)
         /\ context[i].imports \in Seq(Instances)
         /\ context[i].state \in {"new", "evaluated"}
    /\ active \in Seq(Instances) /\ ran \in Seq(Instances)
    /\ IsInjective(active)

\* However modules import each other there is one instance of each, but of a
\* module of the table whose bytecode has another name there is one for every
\* import: its variables, as dlCache and cifCache of the FFI bundle, are not
\* shared by its importers (js_cutome_module_loader).
OneInstance ==
    \A i, j \in Instances :
        i # j /\ context[i].by = context[j].by =>
            context[i].by \in Builtins /\ BytecodeName[context[i].by] # context[i].by

\* The instances that are reached from i by imports, in at most as many steps
\* as there are.
ReachedFrom(i) ==
    LET within[d \in Nat] ==
          IF d = 0 THEN {i}
          ELSE within[d - 1] \cup UNION {ToSet(context[j].imports) : j \in within[d - 1]}
    IN  within[Len(context)]

\* The code of an instance runs at most once, and when it does that of all its
\* imports has run, but for those that import it in turn (eval_buf).
EvaluationOrder ==
    /\ IsInjective(ran)
    /\ \A p \in DOMAIN ran : \A i \in ToSet(context[ran[p]].imports) :
         i \in ToSet(SubSeq(ran, 1, p - 1)) \/ ran[p] \in ReachedFrom(i)

\* No code runs, not that of a module that was found either, unless all that the
\* main module reaches has been found and linked, name by name.
AllOrNothing ==
    ran # <<>> => \A i \in Instances :
        /\ context[i].name \in Scripts => context[i].requests = asks[context[i].name]
        /\ Len(context[i].imports) = Len(context[i].requests)
        /\ \A k \in DOMAIN context[i].imports :
             context[context[i].imports[k]].by = context[i].requests[k]

\* What has begun comes to an end, also when modules import each other or
\* themselves (eval_buf).
LoadingEnds == step = "resolve" ~> (step \in {"uv_run", "exit", "error"})

=============================================================================
