------------------------------- MODULE Toyjsc -------------------------------
(***************************************************************************)
(* The bytecode compiler (src/toyjsc.c): which modules it compiles, in     *)
(* which order and under which C names it writes them.                     *)
(*                                                                         *)
(* Compiling a module resolves its imports first: QuickJS calls the loader *)
(* for every imported name that is not in the context yet, and the loader  *)
(* compiles that module in turn.  `stack` holds the compilations in        *)
(* progress; a module is in `loaded` from the moment its compilation       *)
(* starts, and is written when its imports are resolved.                   *)
(*                                                                         *)
(* The path of a file and a C name are sequences of characters, a C name   *)
(* without the prefix that all have.  Names are shorter than the buffers   *)
(* of the code.                                                            *)
(***************************************************************************)
EXTENDS Naturals, Sequences, SequencesExt

CONSTANTS
    Files,          \* the paths of source files, each imported by its path
    CModules,       \* the names in cmodule_list
    ImportLists,    \* the lists of imports a file may have
    Args,           \* the lists of files the command line may name
    Dyns,           \* the lists of modules its -D options may name
    CNameOptions,   \* what -N may give, NoName if the option is absent
    ScriptNames,    \* what -n may give, NoName if the option is absent
    NoName,         \* no name
    Characters,     \* those of paths and names
    Decimals        \* the numbers 1, 2, ... as %d writes them; as many as are
                    \* listed bound the arrays of the output

Names == Files \cup CModules

Strings == Seq(Characters)

ASSUME ToyjscAssumption ==
    /\ "_" \in Characters
    /\ Files \subseteq Strings
    /\ CModules \cap Strings = {} /\ ScriptNames \cap Strings = {}
    /\ NoName \notin Names /\ ScriptNames \cap Names = {}
    /\ ImportLists \subseteq Seq(Names)
    /\ Args \subseteq Seq(Files) /\ Dyns \subseteq Seq(Names)
    /\ CNameOptions \subseteq Strings \cup {NoName}
    /\ NoName \notin Strings
    /\ Decimals \in Seq(Strings) /\ \A j, k \in DOMAIN Decimals : Decimals[j] = Decimals[k] => j = k

VARIABLES
    imports,        \* the imports of each file, in order
    argv,           \* the files to compile
    dyn,            \* dynamic_module_list
    cname,          \* the value of -N, until the first file has used it
    scriptName,     \* the value of -n
    pos,            \* how many of argv and then of dyn have been started
    loaded,         \* the names of the modules in the context
    stack,          \* compilations in progress, the innermost first
    cnameList,      \* cname_list: what has been written
    initList,       \* init_module_list
    exit            \* "running" or how the process ended

input == <<imports, argv, dyn, scriptName>>
vars == <<input, cname, pos, loaded, stack, cnameList, initList, exit>>

\* The name a module has in the context; a script has none.
ModuleNames == Names \cup ScriptNames \cup {NoName}

Compilations == [file : Files, name : ModuleNames, loadOnly : BOOLEAN, todo : Seq(Names)]

Entries == [cname : Strings, file : Files, name : ModuleNames, loadOnly : BOOLEAN]

ToyjscInit ==
    /\ imports \in [Files -> ImportLists]
    /\ argv \in Args /\ dyn \in Dyns
    /\ cname \in CNameOptions /\ scriptName \in ScriptNames
    /\ pos = 0
    /\ loaded = {}
    /\ stack = <<>>
    /\ cnameList = <<>>
    /\ initList = <<>>
    /\ exit = "running"

-----------------------------------------------------------------------------
(* Names *)

Letters == {"a", "b", "c", "d", "e", "f", "g", "h", "i", "j", "k", "l", "m",
            "n", "o", "p", "q", "r", "s", "t", "u", "v", "w", "x", "y", "z",
            "A", "B", "C", "D", "E", "F", "G", "H", "I", "J", "K", "L", "M",
            "N", "O", "P", "Q", "R", "S", "T", "U", "V", "W", "X", "Y", "Z"}
Digits  == {"0", "1", "2", "3", "4", "5", "6", "7", "8", "9"}

\* The part of a path after its last slash.
BaseName(f) == SubSeq(f, SelectLastInSeq(f, LAMBDA c : c = "/") + 1, Len(f))

\* What is left of it without the last dot and what follows.
Stem(f) ==
    LET base == BaseName(f)
        dot  == SelectLastInSeq(base, LAMBDA c : c = ".")
    IN  IF dot = 0 THEN base ELSE SubSeq(base, 1, dot - 1)

\* get_c_name: other characters become underscores.
GetCName(f) == [i \in DOMAIN Stem(f) |-> IF Stem(f)[i] \in Letters \cup Digits THEN Stem(f)[i] ELSE "_"]

\* The list grows as needed, by half its size and 4.
NamelistAdd(list, e) == Append(list, e)

CNames == {cnameList[i].cname : i \in DOMAIN cnameList}

\* The first suffix that makes a name no entry of cname_list has.
Unique(c) ==
    LET suffixed(k) == Append(c, "_") \o Decimals[k]
        free == {k \in 1..(Len(cnameList) + 1) : suffixed(k) \notin CNames}
    IN  suffixed(CHOOSE k \in free : \A j \in free : k <= j)

\* Mutant: the loader takes the name of the file as it is.
PlainName(f) == GetCName(f)

\* The C name the loader gives a module.
LoaderName(f) == LET c == GetCName(f) IN IF c \in CNames THEN Unique(c) ELSE c

\* Mutant: without -N there is no name.
GivenName(f) == cname

\* The C name of a file of the command line.
MainName(f) == IF cname = NoName THEN GetCName(f) ELSE cname

-----------------------------------------------------------------------------
(* Compilation *)

\* Mutant: the dummy module of a C module is not created in the context.
EnterFiles(n) == IF n \in CModules THEN loaded ELSE loaded \cup {n}

\* JS_Eval of a module enters it in the context before it resolves its imports,
\* and JS_NewCModule enters the dummy of a C module.
Enter(n) == loaded \cup {n}

\* JS_Eval of a file starts.
Compile(f, n, loadOnly, todo, below) ==
    stack' = <<[file |-> f, name |-> n, loadOnly |-> loadOnly, todo |-> todo]>> \o below

Fail ==
    /\ exit' = "error"
    /\ UNCHANGED <<input, cname, pos, loaded, stack, cnameList, initList>>

\* Mutant: a C module is found but not listed.
NotListed(n) == initList

\* Add a C module to the static init module list.
Listed(n) == NamelistAdd(initList, n)

\* jsc_module_loader for the name n, called with `below` on the stack.
Loader(n, below) ==
    \/ /\ n \in CModules
       /\ initList' = Listed(n)
       /\ loaded' = Enter(n)
       /\ stack' = below
       /\ UNCHANGED exit
    \/ /\ n \in Files
       /\ Compile(n, n, TRUE, imports[n], below)
       /\ loaded' = Enter(n)
       /\ UNCHANGED <<initList, exit>>

\* compile_file for the next file of the command line, as a module or a script.
CompileFile ==
    /\ exit = "running" /\ stack = <<>>
    /\ pos < Len(argv)
    /\ pos' = pos + 1
    /\ LET f == argv[pos + 1]
           n == IF scriptName = NoName THEN f ELSE scriptName
       IN  \/ Compile(f, n, FALSE, imports[f], <<>>) /\ loaded' = Enter(n)
           \/ Compile(f, NoName, FALSE, <<>>, <<>>) /\ UNCHANGED loaded
    /\ UNCHANGED <<input, cname, cnameList, initList, exit>>

\* main calls the loader for the next -D option, loaded before or not.
LoadDynamic ==
    /\ exit = "running" /\ stack = <<>>
    /\ Len(argv) <= pos /\ pos < Len(argv) + Len(dyn)
    /\ pos' = pos + 1
    /\ Loader(dyn[pos + 1 - Len(argv)], <<>>)
    /\ UNCHANGED <<input, cname, cnameList>>

\* What is left of a stack whose innermost compilation has one import less.
Resolved == <<[Head(stack) EXCEPT !.todo = Tail(@)]>> \o Tail(stack)

\* js_resolve_module takes the next import of the innermost module.
Resolve ==
    /\ exit = "running" /\ stack # <<>>
    /\ Head(stack).todo # <<>>
    /\ LET n == Head(Head(stack).todo) IN
         \/ n \in loaded /\ stack' = Resolved /\ UNCHANGED <<loaded, initList, exit>>
         \/ n \notin loaded /\ Loader(n, Resolved)
    /\ UNCHANGED <<input, cname, pos, cnameList>>

\* A file cannot be read or does not compile: the exception ends the
\* compilations in progress, and main exits.
CompileError ==
    /\ exit = "running" /\ stack # <<>>
    /\ Fail

\* output_object_code for the innermost compilation.
OutputObjectCode ==
    /\ exit = "running" /\ stack # <<>>
    /\ Head(stack).todo = <<>>
    /\ Len(cnameList) < Len(Decimals)
    /\ LET c == Head(stack) IN
         /\ cnameList' = NamelistAdd(cnameList,
              [cname |-> IF c.loadOnly THEN LoaderName(c.file) ELSE MainName(c.file),
               file |-> c.file, name |-> c.name, loadOnly |-> c.loadOnly])
         /\ cname' = IF c.loadOnly THEN cname ELSE NoName
    /\ stack' = Tail(stack)
    /\ UNCHANGED <<input, pos, loaded, initList, exit>>

\* main writes the rest of the file and returns.
Finish ==
    /\ exit = "running" /\ stack = <<>>
    /\ pos = Len(argv) + Len(dyn)
    /\ exit' = "ok"
    /\ UNCHANGED <<input, cname, pos, loaded, stack, cnameList, initList>>

ToyjscNext ==
    \/ CompileFile
    \/ LoadDynamic
    \/ Resolve
    \/ CompileError
    \/ OutputObjectCode
    \/ Finish

ToyjscSpec == ToyjscInit /\ [][ToyjscNext]_vars

-----------------------------------------------------------------------------
(* Properties *)

\* Every variable has its type, what -N and -n give included.
TypeOK ==
    /\ imports \in [Files -> Seq(Names)] /\ argv \in Seq(Files) /\ dyn \in Seq(Names)
    /\ cname \in CNameOptions \cup {NoName} /\ scriptName \in ScriptNames
    /\ pos \in 0..(Len(argv) + Len(dyn))
    /\ loaded \subseteq ModuleNames \ {NoName}
    /\ stack \in Seq(Compilations)
    /\ cnameList \in Seq(Entries)
    /\ initList \in Seq(CModules)
    /\ exit \in {"running", "ok", "error"}

\* The C name the loader writes a module under is one that nothing written
\* before has: two modules of the same base name can be linked (get_c_name,
\* find_unique_cname).
LoadedNamesUnique ==
    \A i, j \in DOMAIN cnameList :
        i < j /\ cnameList[j].loadOnly => cnameList[i].cname # cnameList[j].cname

\* No two arrays of the output have the same C name (output_object_code, and
\* what the comment in find_unique_cname says of the names it looks for).
AllNamesUnique ==
    \A i, j \in DOMAIN cnameList :
        i < j => cnameList[i].cname # cnameList[j].cname

\* However modules import each other, the loader compiles each once, and adds
\* each C module once, unless a -D option names it; and no module is compiled
\* inside its own compilation, so that import cycles end (jsc_module_loader).
LoadedOnce ==
    /\ \A i, j \in DOMAIN cnameList :
         i < j /\ cnameList[j].loadOnly /\ cnameList[i].name = cnameList[j].name
           => cnameList[j].name \in ToSet(dyn)
    /\ \A i, j \in DOMAIN initList :
         i < j /\ initList[i] = initList[j] => initList[i] \in ToSet(dyn)
    /\ \A i, j \in DOMAIN stack : i # j => stack[i].name # stack[j].name

\* Sets of names that hold the imports of their members.
Closed(S) == \A f \in S \cap Files : ToSet(imports[f]) \subseteq S

\* What a module reaches by imports.
Reach(f) == {n \in Names : \A S \in SUBSET Names : ToSet(imports[f]) \subseteq S /\ Closed(S) => n \in S}

\* When a file of the command line has been written as a module, so has every
\* module it reaches, through cycles too, or it is in init_module_list: the
\* program that evaluates the arrays in order finds each import.
ReachableWritten ==
    \A p \in DOMAIN cnameList :
        ~cnameList[p].loadOnly /\ cnameList[p].name # NoName =>
            \A n \in Reach(cnameList[p].file) :
                \/ n \in ToSet(initList)
                \/ \E q \in 1..p : cnameList[q].name = n

=============================================================================
