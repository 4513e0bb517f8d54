# A verification of toyjsruntime

`toyjsruntime` is a small JavaScript runtime: QuickJS for the language, libuv
for the event loop, libcurl for `fetch`, libffi for calls into shared
libraries. This directory holds TLA+ models of it, the TLC configurations that
check them and TLAPS proofs about them. Paths below are relative to the
repository's root.

## 1. Inventory

| Component | Files | State it keeps | Operations |
|---|---|---|---|
| Event loop | `src/main.c` | the three handles of `main`, QuickJS's job queue, the main module's promise | `eval_buf`/`js_std_await`, `check_cb`, `idle_cb`, `prepare_cb`, `uv_run`, the cleanup |
| Timers | `src/modules/global.c` | one `uv_timer_t` and one context per `setTimeout` | `js_os_setTimeout`, `js_os_setTimeout_cb` |
| Network requests | `src/modules/net.c` | one `uv_idle_t`, one context, one promise capability per `fetch` | `js_fetch_new`, `js_fetch` (`old_fetch`), `idle_fetch_cb` |
| FFI bundle | `src/bundles/quickjs-ffi.js` | `dlCache`, `cifCache`, the `CFunction` and `CCallback` objects and the native memory they own | `prepCif`, `freeCif`, construct/`invoke`/`free`, `adapter` |
| FFI C layer | `src/modules/quickjs-ffi.c` | none of its own; native memory | `malloc` and its kin, `memreadint` ... `memwritestring`, C strings, libdl, libffi, the closure trampoline |
| toyjsc | `src/toyjsc.c` | the name lists of C names, C modules and modules to initialise | option parsing, `compile_file`, `jsc_module_loader`, output |
| Builtin module loader | `src/modules/utils.c`, `eval_buf` and `main` of `src/main.c` | a constant table; the context's modules | `js_cutome_module_loader`, loading and evaluating the main module |
| Old runtime | `src/test/main.c` | the same, without a loop | its `main` |
| Test module | `src/modules/test.c` | none | `fib`, `callback` |
| Horse race server | `learn/libuv/interactive_horse_race/` | the table of clients with each one's slot, the players, the game's question and clocks | `onconnection`, `read_cb`, `disconnect`, `client_shutdown_cb`, `close_cb`, `write_cb`, `onclient_msg`, `question_handler`, `track_handler`, the questions |
| Echo server | `learn/libuv/07_tcp_echo_server.c` | connections, the requests and buffers of each | `onconnection`, `read_cb`, `write_cb`, `shutdown_cb`, `close_cb` |
| Horse race on threads | `learn/libuv/08_horse_race.c` | a horse's position and async handle, the places | `add_horse`, `race_cb` on a pool thread, `progress_cb`, `finished_race_cb` |
| File readers | `learn/libuv/03_fs_readsync.c` to `06_fs_allasync.c` | requests, buffers, a descriptor | open, read, print, close |
| Other exercises | `learn/` | -- | -- |
| Third party, generated | `deps/`, `src/bundles/*.c` | -- | -- |

**How they interact.** `main` evaluates the main module first, running
promise jobs with `js_std_await`; only when the module's promise is settled
does it enter `uv_run`. From then on the script runs in callbacks: a timer
calls the function given to `setTimeout`; a fetch's idle handle makes a
*blocking* transfer and settles a promise; the check handle runs the pending
jobs. `setTimeout` and `fetch` can be called from any script code and add
handles to the loop while it runs. An idle handle of `main`'s own keeps the
loop from blocking, and from ending, until a check callback finds no job left.
The FFI bundle runs inside script code; native code it calls may call back
into the script through libffi closures, re-entering the bundle. Before all
this QuickJS asks the loader for each name that the main module's imports reach
and the context does not have; two bundles are compiled into the program by
`toyjsc` beforehand and keep the name they were compiled under.

**What is hard.** There is one thread, so what interleaves is the order of
callbacks, jobs, expiries and the script's calls: when a job runs relative to
the end of the loop, which clock reading a timer is due against, whether a
callback can be run on a handle whose context is freed, what happens to tasks
when the module hangs, a job throws or a timer's function throws. In the FFI
the hard parts are re-entrance and the lifetime of native memory shared between
wrapper objects, and sums of numbers of the script that wrap in a `size_t`. With
modules it is import cycles and a failure in the middle. The servers answer
clients that may end at any moment with writes under way, and the horses run on
threads whose sends may be joined or come when a handle is about to be closed. `PROJECT.json` lists every hazard at its line, with the
properties that catch it, or why none does.

**What makes each part correct.** Event loop: tasks are delivered once, in
order, before an orderly end; reactions run; the process ends. Timers and
requests: no callback reaches freed memory, and nothing leaks that has a
`free`. FFI: memory passed to native code outlives the call; nothing is freed
twice; caches and memory agree; the parts of a struct are where a C compiler
has them. toyjsc: each module is compiled once, after what it imports and under
a name of its own. Module loading: one instance of each module, nothing runs
before all is linked, each module once and after what it imports. Interactive
race: the table of clients has no gaps and holds the open connections, tracks
are those of the game, questions keep coming and their answers are right. Echo
server: every chunk is answered before the connection is closed, and nothing
is left of it. Horse race: the places are the order of arrival, no thread uses a
closed handle. File readers: what is opened is closed.

## 2. Modules

| Module | Models | Kind |
|---|---|---|
| `HostTasks` | what a script is promised about its timers and requests | abstract specification |
| `Runtime` | `main.c`, `global.c`, `net.c` with QuickJS's jobs and libuv's phases | detailed |
| `DataLemmas` | facts about sequences, finite sets, functions that recurse over numbers or trees, and division that the proofs share | lemmas |
| `RuntimeProofs` | theorems about `Runtime` | proofs |
| `Ffi` | `quickjs-ffi.js` over `quickjs-ffi.c`: who owns which native memory | detailed |
| `NativeMemory` | what those who hold memory that is not garbage-collected are promised of it | abstract specification |
| `FfiProofs` | theorems about `Ffi`, and that it implements `NativeMemory` | proofs |
| `FfiNatives` | `quickjs-ffi.c`: allocation, the accessors of raw memory, C strings | detailed |
| `FfiNativesProofs` | the bounds checks and the values read back, for every word size | proofs |
| `TypeLayout` | `parseType` and the reads and writes of elements, against libffi's and a C compiler's layout | detailed |
| `TypeLayoutProofs` | the two layouts are the same for every type, and values arrive | proofs |
| `Toyjsc` | `toyjsc.c`: modules loaded, compiled, named and written | detailed |
| `ModuleLoading` | `utils.c` and the two `main`s: modules loaded, linked and evaluated | detailed |
| `ModuleLoadingProofs` | theorems about `Toyjsc`, `ModuleLoading` and the two in one specification (`MCModules`) | proofs |
| `RaceServer` | the interactive race's `tcp_server.c` and game handlers | detailed |
| `RaceServerProofs` | theorems about `RaceServer` | proofs |
| `Questions` | `questions.c` and how `onclient_msg` judges an answer | detailed |
| `EchoServer` | `07_tcp_echo_server.c` | detailed |
| `HorseRace` | `08_horse_race.c` with libuv's thread pool and async handles | detailed |
| `FileReads` | `03_fs_readsync.c` to `06_fs_allasync.c` | detailed |
| `ExercisesProofs` | theorems about `HorseRace`, `EchoServer`, `FileReads` and `Questions`, and about the five exercises in one specification (`MCExercises`) | proofs |
| `MCRuntime`, `MCFfi`, `MCFfiNatives`, `MCTypeLayout`, `MCToyjsc`, `MCModules`, `MCRaceServer`, `MCExercises` | the TLC instances | instances |

`Runtime`, `Ffi` and `ModuleLoading` share a process, but not at the same time
or only through the script: the evaluation in which `ModuleLoading` ends is the
`eval` phase in which `Runtime` begins, and the bundle is called by script code,
which `Runtime` lets do anything it can. `FfiNatives` and `TypeLayout` look inside what
`Ffi` holds as a block: the accesses to its bytes, and the places of the parts
of one value in it. The compiler and the exercises are programs of their own.
Programs that share nothing are checked in one run, in which a variable
`program` chooses the one that takes steps, so that the states add up.

### Runtime

State and code:

- `phase` is where `main` is: `eval` (inside `JS_EvalFunction`), `await`
  (inside `js_std_await`), then the phases of `uv_run`: `timers`, `idle`
  (with the poll that follows), `check`; `exited` with `exit` saying how.
- `js` is the job or callback whose script code is on the stack. While it is
  not `JSIdle` the script may call `setTimeout`, `fetch`, `old_fetch`, `then`,
  `queueMicrotask`, or settle the promise the main module awaits
  (`ScriptCalls`), any number of times, and then return or throw.
- `mod` is the main module's promise: running, awaiting, about to resume, about
  to be settled by a job (an async module's completion takes one), settled.
- `jobs` is QuickJS's queue; each job records what kind of code queued it.
- `timer`, `rem`, `tmem`: each `uv_timer_t`, its due time *less the loop's
  cached clock*, and the memory allocated for it. `UpdateTime` is a reading of
  the clock: it finds that `0..MaxLag` units have passed.
- `fetch`, `react`, `fmem`: each request, the reaction attached to its
  promise, and its memory.
- `mainIdle`, `idleQ`, `batch`: `main`'s idle handle, libuv's queue of the
  requests' idle handles, and the local queue `uv__run_idle` moves them to.

One action is one callback's work up to where the script has control:
`IdleFetch` is the whole of `idle_fetch_cb`, `CheckDone` the end of `check_cb`
with the clock reading `uv_run` makes before the timers. libuv is modelled as
of 1.45 and later (timers run before the first iteration and at the end of
each), with `uv_idle_start` inserting at the head of its queue, as its source
does. `main`'s own idle callback does nothing, so its place in the queue is
left out and only whether it is started is kept. A transfer's outcome is
abstracted to "settled". `setTimeout` of something that is not a function
throws before any state changes and is left out, as are `ping`, `gc` and
QuickJS's `std` and `os` modules, and what `LOG_DEBUG` does in a build with `DEBUG`:
there the C string of each callback's result (`global.c:29`) is never freed.

### HostTasks

The abstract promise: a task is registered by the script and delivered at most
once, never before the main module is evaluated; timers oldest first,
requests newest first; the process closes in good order only when nothing is
registered; an error may abort it. `Runtime!HostSpec` instantiates it with the
mapping `Stage`, `TimerTask`, `FetchTask`.

### Ffi

The state is native memory and who holds its address, and the handles of shared
libraries:

- `dlCache`: the libraries that `dlOpen` has opened, each once; they are never
  closed, as `dlClose` is not exported.
- `cifCache` and `cif`: the cache of `prepCif` by signature, and each call
  interface with the types it is made of. `cif` and the other memories are
  never reused in the model, so that a stale address stays recognisable; a
  second `free` is the value `"twice"`, and what a constructor that throws can
  no longer reach is `"lost"`.
- `wrap`, `sig`, `wcif`, `mem`, `closure`: each `CFunction` and `CCallback`, the
  signature it was built for, the address of the interface it holds, its own
  blocks and its closure.
- `cstr`, `str`, `avalues`: the list of each `CStringAllocator`, the strings,
  and what each argument buffer of a function holds.
- `stack`: the calls in progress, the innermost first; a call of a function has
  native code running in it, a call of a callback has script.
- `result`: the string that `readRet` has just read, with the arguments of the call
  it comes from. Native code may return any string that it was handed, an
  argument or what a callback returned to it, or none of them.

`NewFunction`, `NewCallback`, `FreeFunction`, `FreeCallback` and `FreeCif` are
the bundle's methods with `prepCif` inside; `Invoke`, `NativeReturn` are
`invoke` before and after `ffi_call`; `CallBack`, `AdapterReturn` and
`AdapterThrow` are `ffi_closure_js_func_adapter` and the bundle's `adapter`
before and after the script's function; `InvokeThrows` is an argument of the
wrong type. The script may do all of this in any order and to any depth except
what leaves the program undefined whatever the bundle does: it does not free
what native code on the stack is using, does not use a wrapper after `free()`
or `freeCif`, and frees a callback once. All arguments are strings, the only
ones that own memory.

### NativeMemory

The abstract promise: a block is allocated for a holder, who holds it alone until
it gives back all it holds at once, each block one time (`Exchange`). That is when
the holder is closed, which no call in progress outlives (`Close`), or when a call
that runs for it ends (`Finish`); a failed allocation may lose what it made (`Fail`),
but nothing that anybody holds. `Ffi!MemoryHeld` instantiates it three times:

| | holders | blocks | open | held |
|---|---|---|---|---|
| `Strings` | wrappers | C strings | live wrappers | the list of the `CStringAllocator` |
| `Interfaces` | signatures | call interfaces | signatures in the cache | what the cache maps them to |
| `Objects` | wrappers | their memory, callbacks' closures | live wrappers | their parts, until `free()` |

The calls in progress are those of `stack`, for interfaces by their signatures.
There is no state "freed twice" in `NativeMemory`: a step of `Ffi` that frees what is
free already, or what another holder has, or what a call in progress needs (but for
the return of an inner call of the same function, which `Finish` admits), maps to no
step of it.

### TypeLayout

`repr` is a type as the script writes it, a primitive's name or a list of such
types: one of `Types`, whose `Depth` is less for what a list holds than for the list.
`ereprs`, `eoffsets` and `nbytes` are what `parseType` makes of it. A byte of
`mem` holds the number of the element whose value it is part of. In one
direction (`outward`) the script's side writes the elements one by one
(`writeArg`, the end of `adapter`) and native code reads them where a C compiler has
them (`CPlace`); in the other native code writes and the script's side reads
(`readRet`, the beginning of `adapter`). In `invoke` the memory is the bundle's
(`ours`), `nbytes` that `CFunction`'s constructor allocates, and in `adapter`
native code's, a whole C value. `given` is how many elements the script's value has:
`invoke` goes over those, and throws at one too many, so that of a short list native code
gets the rest as it was before; `adapter` goes over those of the type, and throws at one
that is missing. `ffi_call` reads and writes more of the bundle's memory than
the elements (`Passed`): a struct with the padding at its end, and of an integer
that is returned a whole register (`FfiReturn`). `mem` then has these bytes too
(`Accessed`), also where nothing was allocated for them. `FfiType` is libffi's layout, external
to `src/`, and `CPlace` is written another way on purpose: `parseType` adds
offsets that libffi gives relative to each struct, the compiler places elements
at absolute addresses. Both are functions on types that are defined by recursion, as
`buildTree` and `walkTree` are; those that depend on where a type starts have a
function of the start as their value.

### Toyjsc

`stack` holds the compilations in progress: QuickJS resolves a module's imports
before `compile_file` or the loader writes it, and calls the loader for each
name not in the context (`loaded`). `CompileFile` starts the next file of the
command line, as a module or a script, `LoadDynamic` the next `-D` option;
`Resolve` takes the next import of the innermost module; `OutputObjectCode`
chooses the C name and appends to `cname_list`; `CompileError` may end any
compilation. A C name is a sequence, the result of `get_c_name` followed by the
suffixes `find_unique_cname` appended; `get_c_name` is computed from the
characters of the file's name, so that `a_1.js` and the second `a.js` do
collide, and names with a directory, a dot or a suffix. `Characters` are those of
names and `Decimals` the numerals that `find_unique_cname` tries, as texts:
all that is assumed of the numerals is that they are distinct. The program never
runs out of them; `OutputObjectCode` is bounded by how many there are.

### FfiNatives

`mem` is an arena of bytes and `block` the blocks in it. An accessor is an
action that computes `offset + bytewidth` modulo the word size, compares it with
the size the script gave, and then reads or writes; `fault` keeps the offset
and length of an access that left its block. `stored` remembers what was
written where, so that a later read can be compared with it: a write drops the
values it touches and keeps any of the others (`MaxStored` bounds how many), and
`realloc` takes those along that are in what it copies. Integers are
encoded and decoded modulo their width, in two's complement; floating point is
abstracted to the integers that a format represents exactly. Powers are a
recursive function (`Power`), and `BITS` bounds the units a mantissa may have in
the last place.

### ModuleLoading

`context` is QuickJS's list of modules: the name, the name it was asked for by,
its requests, and the instances they have been resolved to so far. `active` is
the stack of the recursion, first of `js_resolve_module` and then of
`js_inner_module_evaluation`. `ResolveImport` takes the next request: a module
of that name is in the context, or the loader makes one from the table of
bundles or from a file, or everything fails. `EvaluateImport`, `RunModule` and
`ScriptThrows` evaluate, imports first; `EnterLoop` is where `Runtime` goes on.
What QuickJS does with the modules is external, modelled from how
`eval_buf` and the loader use it.

### RaceServer

An action is one libuv callback with all it calls: `OnConnection` and `Refuse`
are `onconnection` on a table with room and on a full one, `ReadEof` is
`read_cb` with `disconnect`, then `ShutdownDone` and `Closed`; `OnMessage`,
`QuestionHandler` and `TrackHandler` are the game's. `clients`, `num_clients`
and each client's `slot` are the table, `track` and `horse` what a player
copied from it. What `malloc` left in a field that nothing sets is a choice:
`ids` starts at any of `FirstIds`, and using an unset pointer may leave the
program `"undefined"`. `writing` holds the clients to whom a message is under way:
`Written` is `write_cb`, and a handle is shut down while some may be pending.

### Questions, EchoServer, HorseRace, FileReads

`Questions` fills the two tables entry by entry as the initialisers do, with
the numbers and numerals themselves, and judges a piece of input as
`strncasecmp` over the shorter length does, the case of every letter aside
(`Lower`). In `EchoServer` an action is a
callback; a client's bytes are read in chunks of any size, and `heap` counts the
allocations of each connection by their kind. A `Response` is the constant
`server resp:`, one unit of the model, and the chunk as a C string: `alloc_cb` clears
nothing, so that a chunk without a NUL, whether it fills its buffer or not, leaves
`strlen` to read on (`junk`, or `"undefined"`), and one with a NUL is cut there. In `HorseRace` a horse's
thread, libuv's list of finished work, the pending flags of the async handles
and the order of a scan over them are separate, so that a send can fall between
any two steps of the loop; a horse's speed is left open. In `FileReads` one
action goes from one libuv operation to the next; `descs` are the process's
open descriptors, including those the loop itself has.

## 3. Runs

| Run | Bounds | Question |
|---|---|---|
| `runtime_safety` | 2 timers, 2 fetches, 2 script jobs, delay 3, lag 1, throwing jobs and callbacks; 309k states | memory, leaks, refinement of `HostTasks` |
| `runtime_live` | 3 timers, 2 fetches, 1 job, delay 3, lag 1, no throw, fair; 257k states | timer order against the cached clock; which jobs can be lost; termination; reactions run |
| `runtime_lost_jobs` | 1 timer, no fetch, 1 job | a divergence |
| `ffi` | 2 functions, 1 callback, 1 library, 3 signatures of one string of which one does not parse and one is refused, 2 interfaces, 4 strings, 4 calls deep | strings are live where native code and `readRet` read them, cache and memory agree, no leak, refinement of `NativeMemory`; 497k states |
| `natives` | bytes of one bit, words of eight, 2 blocks in an arena of 9 bytes, 4 calls, 9 numbers as offset, length and width | an accessor stays in its block; what was stored is read back; 372k states |
| `layout` | lists of up to 3 members that are primitives or lists of up to 2, some one level deeper, wrong types; sizes 1, 4 and 8, a register of 8; both directions, in the bundle's memory and native code's, any number of values up to one too many; 413k states | each element arrives whole; what is accessed beyond the memory is what libffi passes more than the elements |
| `layout_sizes` | the same with `size_t` for the pointer | a divergence |
| `modules` | the compiler: 3 files with colliding names, a C module, 7 import lists for each file, `-N`, `-n`, `-D`; the two runtimes: 2 scripts with 7 import lists each, one bundle named as it is imported and one not, fair; 463k states | names, cycles, order of the output; instances, order of evaluation, all or nothing, an end |
| `toyjsc_names` | one file on the command line, no options | a divergence |
| `exercises` | the interactive race: 3 connections for 2 slots, `TIME_TO_ANSWER` 3, `DELAY` 1; the questions: 1 of arithmetic, 14 of conversion, 11 pieces of input; the echo server: 1 client, 3 bytes, a buffer of 2; 3 horses on 3 threads with 2 moves; the file readers: files of 0 to 6 bytes, 5 descriptors of the loop; fair; 265k states | the table, tracks, horses, questions and answers; answers and memory of the echo server; places, handles and moves; what is released |
| `race_tracks`, `race_players` | 3 connections, 2 slots | two divergences |

**Why the bounds are enough.** `Runtime`: two fetches show the queue order and
the batch (one handle being run while another waits, one added after an older
one ran); two or three timers show equal, distinct and overdue due times (the
delay is larger than the lag of an iteration, and two clock readings in one
iteration can make a timer overdue); two jobs show a queue with a job behind
the one that throws, an await and a microtask. `Ffi`: four calls deep is a
function, a callback, a function and a callback inside it, so that the same
function and the same callback are each on the stack twice; four strings are an
outer call, a callback's result, an inner one and its result; three wrappers
share one signature, and both kinds of constructor can fail both ways.
`FfiNatives`: with bytes of one bit the widths 1, 2, 4 and 8 are all there and
the word wraps within reach of the arena; two blocks show a value spoilt by its
neighbour, or by the next block at the same place; the numbers are inside, at
the end and outside of a block, the largest below half a word, one above half a word
and a negative one whose sums wrap to the inside, one above a whole word and -1. `TypeLayout`: three members of three sizes show padding before, between
and after, and two levels show an offset that is a sum of two relative ones.
`Toyjsc`: the first two files have one base name and the third the name the
second is then given; the lists have self-imports, cycles of two and of three,
repetitions and both orders. `ModuleLoading`: the lists of the two scripts have
self-imports, a cycle, a repeated import, a bundle reached twice by either
kind of name, and a module (`net`, `test`) only one runtime has. `EchoServer`:
three bytes in a buffer of two are one, two or three chunks, one of them full,
and there is one client because connections share only the `server` status;
section 4 proves what is proved for any number; a chunk may hold a NUL or not and
be followed by junk. `HorseRace`: three horses show
two that finish between two scans while a third runs, two moves a send that is
joined with the one before. `FileReads`: a file of five bytes is as long as the
number of its descriptor. `Questions`: fourteen conversions reach the first
numerals whose two bases differ (10 and 12). `RaceServer`: the program has two slots
(`MAX_CLIENTS`); with a third connection a client can leave the first slot, the
second be moved, and a new one come, before and during a race; the two
constants of time, millions in the code, only have to tell one iteration from
the last. For every other value of the constants see section 4.

**Deadlock** is checked in the `Runtime` runs: `Exited` and `AwaitSpin` are the
explicit stuttering of an ended and of a hung process. It is not in the others,
where a behaviour really ends: the bounds on strings, interfaces and calls are
used up, the compiler has exited, the main module has run or failed, the value is
delivered, a `CHECK` has ended the server, the race is over, the file printed.

**Fairness.** `FairSpec` is weak fairness of `Progress`, the steps the
process takes by itself (every step but the script's calls): a single thread
that is never descheduled for good, script code that returns (a script that
loops for ever is not the runtime's failure), and a `curl_easy_perform` that
returns. The last is an assumption: no timeout is set (`net.c:156`), so a
server that never answers would block the thread. `FairRaceSpec` is weak
fairness of the two idle handlers and of nothing else: libuv runs each active
idle handle in every iteration of the loop, and the handlers are never
stopped; clients owe nothing. `FairEchoSpec` is weak fairness of those
callbacks of a connection that wait for nothing the client has to do first
(`EchoCallback`): what has arrived is read, and a shutdown without pending writes is
completed. `write_cb` is not among them: libuv calls it when the client takes what was
written, which no client has to do. `EndedIsClosed` is therefore about clients
that take it again and again (`[]<>(writes[c] = <<>>)`). One that ends its side and
never reads keeps the write, the shutdown request and the handle for ever. `FairHorseSpec` is weak fairness
of the main thread and of each horse's thread: both are threads of one process
that the system schedules, and the loop looks at each pending handle.
`FairLoadingSpec` is weak fairness of the one thread that loads and evaluates.

**Divergences.** Each is a run that must be violated.

- `NoLostJobs`: `main.c:243` says the loop is run "to process any pending jobs
  (promises, etc)", but the code that did so is commented out. Jobs are run in
  `check_cb` only, and `uv_run` ends after a timers phase: a reaction or
  microtask queued by the last timer callback never runs, and the process
  reports success. `OnlyTimerJobsLost`, checked and proved, says that this is
  the only way to lose a job as long as none throws.
- `AllNamesUnique`: only the loader looks for a name nobody has
  (`toyjsc.c:263`); `compile_file` takes `get_c_name`'s result as it is
  (`toyjsc.c:312`), so `main.js` importing `lib/main.js` yields two arrays of
  one name. `LoadedNamesUnique` is what does hold.
- `TracksFilled`: a player keeps the track of the slot it first had
  (`interactive_horse_race.c:52`) while `disconnect` moves clients, so a race
  may begin with two players on one track. `TrackNotBelowSlot` is what holds.
- `PlayersFreed`: `close_cb` (`tcp_server.c:14`) frees the handle's own data
  field, which nothing sets, for the client's, which holds the player.
- `ElementsApart`: on a 64-bit target `ffi_type_size_t` is `ffi_type_sint32`
  (`quickjs-ffi.c:79`) while a `size_t` is written and read as eight bytes, so
  the next member of a struct lies inside it.

One more disagreement has no run of its own. The comment `07_tcp_echo_server.c:123`
says "Write same data back to client since we are an *echo* server and thus can reuse
the buffer used to read". The code below it writes other data from another buffer:
`server resp:`, then the chunk up to its first NUL, or, if it has none, the chunk and
whatever the uncleared buffer and the heap hold up to the next NUL. `Answered`
says what a client does get.

Some properties carry an exception that is the code's and worth knowing.
`StringsLive` holds "unless the same function is called again inside": the
inner call's return empties the allocator both share, and the outer native code
is left with freed strings. It also excepts a function that returns one of its
arguments: `invoke` frees them (`quickjs-ffi.js:378`) before `readRet` makes a string of
the result (line 383). The script `example/ffi/ffi-test.js` does neither.
`OnlyNativeBeyond` says where the bundle's buffers (`quickjs-ffi.js:351`, 352) are too
short for what `ffi_call` passes, and that nothing else leaves them. `HorselessCameLater` bounds a case in which
`track_handler` reads a horse never set: a client that came when the race was
on. The read itself leaves the server `"undefined"`, as does the speed of such a
player when it answers (`interactive_horse_race.c:93`). `OnlyKnownLeaks` and `NoLeak` name what the code never frees. `BoundsChecked`
excepts offsets and lengths that are negative or 2^63 and more, whose sum may wrap
past the check (`quickjs-ffi.c:281`). `OneInstance` excepts a bundle whose bytecode has another
name than it is imported by, and both arrays of `src/bundles` have: each import
makes an instance of its own. `Released` says of each file reader what it
closes and what it cleans up: `04_fs_readasync.c:20` closes the descriptor whose
number is the count of bytes it read. `MovesNotLost` ends with the handle: a horse
that has arrived may have been drawn last before its last move.

Every property has a mutant (`PROJECT.json`): a change of one definition that a
plausible slip in the code would make, under which the run finds the property
violated.

## 4. Proofs

**Runtime.** `RuntimeProofs` proves, for all values of the constants
(`RuntimeAssumption`: naturals, a positive delay), `TypeCorrect`, `MemorySafe`,
`ExitsQuietly`, `LeaksAreKnown`, `LossIsBounded`, `TimersInOrder`,
`FetchesInOrder` and `Implements` (`Spec => HostSpec`).

All rest on one inductive invariant, `Inv`, proved in theorem `Invariance`.
None of the properties is inductive alone, and each conjunct says what is
missing:

- `Types`: the typing part of `TypeOK`, without the bounds on `rem`;
- `Control`: which frames and which states of the module go with which phase
  (a timer's frame only in the timers phase with its timer running, no frame
  in the idle phase, the module fulfilled once the loop runs);
- `ModuleJobs`: the jobs that resume or settle the module agree with `mod`,
  and are not in the queue once the module is settled;
- `Clock`: between clock readings an active timer is due no further than
  `Delay` away and overdue by at most one `MaxLag` per reading since the last
  timers phase, and due times are in the order of the timers' numbers: this is
  what makes timers fire in order;
- `Handles`: one of the two queues is always empty, each descends, and
  together they hold exactly the pending fetches, each once: this is what makes
  fetches settle newest first and no handle run twice;
- `Memory`: what is allocated for each timer and fetch, by its state;
- `Leftover`: while no job throws, the jobs in the queue outside the check
  phase, once `mainIdle` has been stopped, were made by timers (the heart of
  `OnlyTimerJobsLost`);
- `QuietExit` itself.

`FetchesSettleNewestFirst` and `QuietExit` are not properties of a run of their own:
`HostSpec`, which is, says the same of the mapped state.

`Implements` then shows the initial states map to initial states and every
action to the abstract step named in its proof or to a stutter.

**Ffi.** `FfiProofs` proves `TypeCorrect`, `CifsCached`, `StringsStayLive`,
`FreedOnce`, `NothingLeaks` and `MemoryIsHeld` from `FfiAssumption` (disjoint sets of objects;
the bounds are naturals, so that the depth of the stack, the number of
arguments, of strings and of wrappers is arbitrary). The inductive invariant
says who owns each block:

- `CifOwner`: a cached interface is live and cached once, one that is not
  cached is not live, and the interface a wrapper holds was prepared for the
  wrapper's own signature; this is what excludes that a cache entry, deleted
  and made again, is taken for the old one;
- `MemOwner`: the wrapper's state determines that of its memory and closure;
- `StrOwner`: a string is live exactly while one allocator lists it, and only
  live wrappers list any; no double free and no leak follow;
- `CallOwner`: the strings given to a call not `reused` are listed by its
  function, which is live. The step that needs it is `NativeReturn`, which
  frees a function's list and must mark every other call of that function.

`StringsStayLive` needs one fact more, about the strings that a call comes back with:
the strings in a function's argument buffers and those its calls were given are listed by
that function or freed (`ArgOwner`), and never listed by a callback. `invoke` frees
what its function lists: an argument is freed before it is read as a result, and
what a callback has returned, listed by the callback, is not.

`MemoryIsHeld` proves `MemoryHeld`: `Ffi` implements `NativeMemory` for each of the three
kinds of memory (`StringsNext`, `InterfacesNext`, `ObjectsNext`). A constructor
that succeeds opens a holder with what it made, or fails with what is lost; `prepCif`
that finds its index cached is a stutter for interfaces; `invoke` and the
closure's adapter start a call with the strings they make, and the returns finish
it with the list freed; `free()` and `freeCif` close. `freeCif` is the
step that needs more than `Inv`: the guard is on wrappers that have the cached
address, and the promise is about calls with that signature. `InUse`, that the
interface of each call in progress is live, closes the gap: with `CifOwner`,
a call with the signature then has the address that is cached, so that the guard
covers it. `AlwaysInUse` proves it as an invariant of its own.

`NothingFreedTwice`, which `FreedOnce` proves, is not a property of the run:
`MemoryHeld`, which is, excludes more.

**FfiNatives.** `AccessesBounded` proves `BoundsChecked` from `NativesAssumption`:
for any size of a byte, any arena less than half of a word long and any integers
of the script, of which `JS_ToInt64` keeps the remainder by 2^64. The property says
what the test is worth: an access that left its block had an offset or a length that is
negative or 2^63 and more (not `Representable`), and among the other numbers the test
refuses exactly what leaves the block. The fact it rests on is about sums modulo the
word: of two numbers below half of it the sum does not wrap, so that the comparison
with the size is the comparison of the numbers themselves.

`ValuesReadBack` proves `ReadsBack` for any even number of values of a byte, any
precision of a float and a double, and any numbers and texts whose floats are in the
range of a float. The invariant is `BoundsInv /\ StoredInv`: every value remembered
was formed by one of the actions that store (`Formed`), its bytes are in memory
(`Whole`) and lie in a block (`Housed`), and blocks lie in the arena (`BlocksFit`).
`Housed` is what the property lacks to be inductive: `malloc`, `tocstring`
and a `realloc` that moves choose room outside of all blocks, and only as every
value is inside of one are its bytes not written over. That the bytes give the
value back (`BytesValue`, `AsCValue`) is arithmetic: the digits of a number to the
base of a byte sum up to its remainder by the numbers of the width, which
divides the word, so that it does not matter that the number was made a word before
it was cut; and there is one integer of the C type with that remainder.
`RoundedClose` is about the smallest unit with which a mantissa suffices: half of it
does not, so that the error is at most the number over the mantissa. Every float
within the range therefore stays within it when rounded.

**TypeLayout.** `EachReceived` and `BeyondIsNative` prove `Received` and
`OnlyNativeBeyond` for any primitives and any types, however many members and however deep. They
assume `SizesAgree`: the table of primitives gives each the size that libffi and C give
it, and libffi C's alignment. It is a hypothesis of the theorems, not an assumption of
the module, because the code does not meet it for `size_t` on a 64-bit target
(`layout_sizes`) nor for `longdouble`; `OverlapNeedsSizes` says that elements
overlap only where it fails. From C come `AlignmentAssumption`, that a size is a
multiple of its alignment and a smaller alignment divides a larger, and from
scripts `TypesAssumption`, that a list does not hold itself.

Most of it is one induction over the depth of a type (`AllLaidOut`). `LaidOut` says
of a type that libffi and the compiler give it the same alignment and the same
size and that, started at a multiple of the alignment, `walkTree`'s offsets for its
elements are the compiler's addresses; that those are in order and apart (`Laid`);
and that rounding up the end of the last of them gives the type's size. The step
(`StructLaidOut`) needs arithmetic of multiples: a multiple of the struct's
alignment is one of each member's, so that rounding up in the struct and rounding up
in memory differ by where the struct starts (`AlignUpOfMultiple`), and rounding up twice is
rounding up once to the larger (`AlignUpTwice`), so that `nbytes`, the end of the last
element, lacks only padding however many structs end with it. The recursive
functions have one value each because the depth decreases (`TreeRecursion`). On
this rests the invariant of the steps, `LayoutIInv`: the elements that were written
hold their bytes, as each byte belongs to one element only, and what was read is
those elements. `BeyondIsNative` adds that an element's bytes are within `nbytes`, and that
libffi's size of a type is where the compiler has it end, so that of the bundle's memory
native code has touched what is allocated and what lies between `nbytes` and that end,
or the end of the register, and nothing else.

**RaceServer.** `RaceServerProofs` proves `TypeCorrect`, `TableContiguous`,
`TracksInRange`, `LateComersHorseless` and `WritesEndFirst` for any number of
slots and of connections from `RaceAssumption`. The invariant is the
conjunction of the properties with `IdsAndHorses`: the identity of an open
connection is below the next one given out, so that a newcomer's is above all
others, and a client that has not connected has no horse; and with the states of
a handle in which it may have messages under way.

**Toyjsc.** `ModuleLoadingProofs` proves `TypeCorrect`, `NamesUnique`, `CompiledOnce` and
`ReachedIsWritten` from `ToyjscAssumption` for any files, characters, import
graphs and options. `NamesUnique` rests on a count: more numerals are tried than names
are written, so that one of the candidates is free (`UniqueIsFree`). The
others need an invariant about the recursion, `Modules`: what a compilation in
progress imports is loaded or still to be resolved, and only the outermost may be
a file of the command line (`StackOK`); no name is on the stack twice (`Distinct`); whatever is loaded is listed, written or in progress
(`Accounted`), and what is written has its imports loaded (`WrittenOK`). When a
file of the command line is written the stack is otherwise empty, so that what
is loaded is written or listed, which makes the written names a closed set:
`Reach`, the least closed set, is inside it.

**ModuleLoading.** `InstancesShared` and `LinkedBeforeRun` are proved for any
scripts, import graphs and names in the bytecode, cycles included. The invariant
says that of the names that can be asked for each is in the context once
(`UniqueNames`), that only a bundle has another name than it was asked for
(`Named`), that what is resolved is resolved to an instance that was asked for by
that name (`Links`), that a module with unresolved imports is on the stack while
resolving (`InProgress`), and that therefore none is when evaluation begins
(`Complete`).

`EvaluatedInOrder` needs more, since "an import has run, or imports the module in
turn" is not inductive: an import may be passed over because it is on the stack,
and that it reaches the importer follows only from the stack's shape. `Evaluation`
says that the modules in progress are distinct and have not run, and that each is
imported by the one that waits for it (`Actives`, `Evaluating`), that what is
evaluated has run once (`Ran`), and that from each import that had not run a `Chain` of
imports leads back (`Ordered`). A chain is no longer than there are instances, as
distinct elements of a finite set are no more than its cardinality
(`DistinctLength`), and so `ReachedFrom`, which takes that many steps, finds its end.

**EchoServer.** `NothingLeft` proves `ConnectionFreed` for any number of clients,
any bytes and any size of the buffer. The invariant counts: of each kind of block
a connection has as many as its state and its pending writes account for.
`ChunksAnswered` proves `Answered`: what a client has said is the chunks that were
read, joined, and what has arrived (`Read`), and the responses, written and
waiting, are those to the chunks, one by one: each begins with the prefix, and what
follows is the chunk up to its first NUL, or the whole chunk and more (`ResponseFacts`,
`Responded`).

**HorseRace.** `PlacesRight`, `HandlesOpen`, `MovesKept` and `HorseTyped` are proved
for any number of horses, threads and moves. The invariant follows the order of
arrival: the horses whose place was printed, those the loop has taken and those
libuv has listed are, one list after the other, `arrivals`; a horse is in it
exactly when its thread is done, and its handle is closed only after that; and an
undrawn move has a send pending, or the thread is between the move and the send.

**FileReads.** `FilesReleased` proves `Released` for any size of the buffer and any
number of descriptors in use. The invariant (`Descriptors`) says which descriptor
is the file's at each step and that every request that was started is one the
program cleans up.

**Questions.** `AnswersRead` proves `AnswersRight` for tables of any even size and
factors and terms of any size: `sprintf` followed by reading the numeral is the
identity for each base (`NumeralValue`), from which the answers follow by
arithmetic. `LinesJudged` proves `LineJudged` for lines of any length and letters of any
case. The property does not name `Lower`: two characters are alike if they are
equal or one letter in both cases (`Alike`), and a line counts if it has
the answer's length at least and is like it character by character. No answer holds the
end of a line, so that over the shorter of the two lengths a line that ends before
the answer does differs from it.

**Together.** `ExercisesApart` and `ProgramsApart` prove that a behaviour of the
specifications `MCExercises` and `MCModules`, in which one of several programs takes
the steps, is a behaviour of each program's own specification. What is proved of a
program therefore holds in the runs; `ExercisesTyped` and `ModulesTyped` are proved
that way.

**Data.** `DataLemmas` holds what these proofs share. The library's induction theorems take an
operator as a parameter and cannot be used here, so induction is by
sets: a set of naturals that is not empty has a least element (`LeastNatural`),
from which `Recursion` shows that a function defined by recursion over a rank exists
and satisfies its definition, and `TreeRecursion` the same of a function whose value
for a tree is made of those for its children. The digits of a number, the value of a numeral, the
powers of a number and `FlattenSeq` (`FlattenFacts`) are instances of it. Of division
it has that quotient and remainder are unique and that dividing by a product is dividing
by its factors in turn.

**Only model-checked.** Liveness (`Termination`, `ReactionRuns`, `QuestionsGoOn`,
`EndedIsClosed`, `RaceEnds`, `LoadingEnds`): under fairness it is out of the
prover's reach. Every other property of a passing run has its theorem.

## 5. Not modelled, and the plan

What is left is garbage collection of a `CCallback` that native code still holds
(`quickjs-ffi.c:590`), which needs a model of what the script keeps.

Left out for good: generated bytecode (`src/bundles/quickjs-ffi.c` and
`jsmodule.c`, about 3900 lines of data, half of the C in the repository);
`dlclose` of the C layer, which the bundle never calls, the text that `printhex`
lays out and the list of constants; `fib` and the sample bundle `jsmodule.js`;
the interactive race's drawing, speeds and positions and `luv_server_destroy`,
which nothing calls; the exercises `01`, `02`, `event_order.c`, `libuv.c` and `test.c`,
which print what libuv says of the machine or run a loop in which nothing
happens; `gtk.c` and `sytax.c`; the build-system and C language exercises; the
examples, whose every step the model's script can take; `stb_ds`, third-party and
included by nothing that is built; build files. The reasons are in `PROJECT.json`,
component by component.
