------------------------------ MODULE FileReads ------------------------------
(***************************************************************************)
(* The four programs that print a file (src/learn/libuv/03_fs_readsync.c,  *)
(* 04_fs_readasync.c, 05_fs_readasync_context.c, 06_fs_allasync.c): each   *)
(* opens it, reads at most a buffer, prints that as a string and closes    *)
(* the file.  They differ in which of these wait for a callback, in their  *)
(* buffers and in what they pass to close and clean up.                    *)
(*                                                                         *)
(* An action goes from one operation of libuv to the next.  The program    *)
(* has stopped when step is "done" or, after a CHECK failed, "exit"; step  *)
(* is "undefined" once libuv has used what the program has not set.        *)
(***************************************************************************)
EXTENDS Naturals, FiniteSets, FiniteSetsExt

CONSTANTS
    BUF_SIZE,       \* bytes that are read
    LoopDescs       \* the descriptors 0..LoopDescs - 1 are the loop's and stdio

ASSUME FilesAssumption == BUF_SIZE \in Nat \ {0} /\ LoopDescs \in Nat

Programs == {"03", "04", "05", "06"}

VARIABLES
    exercise,   \* the program that runs
    length,     \* the bytes of the file that fit the buffer
    step,       \* what it is about to do: "open", "read", "close"; or how it ended
    descs,      \* the open descriptors of the process
    fd,         \* open_req.result
    nread,      \* read_req.result
    shown,      \* what was printed
    started,    \* the requests that libuv was given and may hold memory for
    blocks        \* the blocks from malloc

fileVars == <<exercise, length, step, descs, fd, nread, shown, started, blocks>>

\* What is allocated before the file is opened: the contexts of 05 and 06.
FirstBlocks ==
    CASE exercise = "05" -> {"open_req", "read_req", "context"}
      [] exercise = "06" -> {"open_req", "context"}
      [] OTHER           -> {}

FilesInit ==
    /\ exercise \in Programs
    /\ length \in 0..BUF_SIZE
    /\ step = "open"
    /\ descs = 0..(LoopDescs - 1)
    /\ fd = 0 /\ nread = 0
    /\ shown = "nothing"
    /\ started = {}
    /\ blocks = FirstBlocks

\* The operation fails: CHECK.
FileExit ==
    /\ step \in {"open", "read", "close"}
    /\ step' = "exit"
    /\ UNCHANGED <<exercise, length, descs, fd, nread, shown, started, blocks>>

-----------------------------------------------------------------------------
(* Opening: the program p goes on with one of the steps `next` and has allocated
   the blocks `new`. *)

Opened(p, next, new) ==
    /\ exercise = p /\ step = "open"
    /\ fd' = Min((0..LoopDescs) \ descs)
    /\ descs' = descs \cup {fd'}
    /\ started' = {"open_req"}
    /\ blocks' = blocks \cup new
    /\ step' \in next
    /\ UNCHANGED <<exercise, length, nread, shown>>

\* main of 03: libuv is told of two buffers and given one, so that it may use a
\* second one that nothing has set.
SyncOpen == Opened("03", {"read", "undefined"}, {})

\* main of 04
AsyncOpen == Opened("04", {"read"}, {})

\* init of 05
ContextOpen == Opened("05", {"read"}, {"buffer"})

\* open_cb of 06
AllAsyncOpen == Opened("06", {"read"}, {"buffer", "read_req"})

-----------------------------------------------------------------------------
(* Reading and closing *)

\* What is printed of a full buffer that a NUL follows, as in 03 and 06.
Terminated == {"file"}

\* What is printed of a buffer that nothing has set and fewer bytes were read to.
JunkAfter == {"file", "junk"}

\* The bytes are read, and printed as one of `text`.
ReadOf(p, text) ==
    /\ exercise = p /\ step = "read"
    /\ nread' = length
    /\ shown' \in text
    /\ UNCHANGED <<exercise, length, fd>>

\* The requests given to uv_fs_req_cleanup.
Cleaned == {"open_req", "read_req", "close_req"}

\* main of 03, whose buffer was set to zeros.
SyncRead ==
    /\ ReadOf("03", Terminated)
    /\ descs' = descs \ {fd}
    /\ started' = started \ Cleaned
    /\ step' = "done"
    /\ UNCHANGED blocks

\* read_cb of 04 closes the descriptor that has the number of the bytes that
\* were read.  It cleans up a request that nothing has set; its buffer was set
\* to zeros, without one after it.
AsyncRead ==
    /\ ReadOf("04", IF length < BUF_SIZE THEN {"file"} ELSE {"beyond"})
    /\ descs' = descs \ {length}
    /\ started' = started \ Cleaned
    /\ step' \in {"done", "undefined"}
    /\ UNCHANGED blocks

\* Mutant: read_cb of 05 closes what that of 04 does.
ResultClosed == length

\* context->open_req->result
ContextFile == fd

\* read_cb of 05: nothing has set the buffer or the request that is cleaned up.
ContextRead ==
    /\ ReadOf("05", {"beyond"} \cup IF length < BUF_SIZE THEN JunkAfter ELSE {})
    /\ descs' = descs \ {ContextFile}
    /\ started' = started \ Cleaned
    /\ blocks' = blocks \ {"context"}
    /\ step' \in {"done", "undefined"}

\* read_cb of 06 frees the buffer and waits for the file to be closed.
AllAsyncRead ==
    /\ ReadOf("06", Terminated \cup IF length < BUF_SIZE THEN JunkAfter ELSE {})
    /\ started' = started \cup {"read_req", "close_req"}
    /\ blocks' = (blocks \ {"buffer"}) \cup {"close_req"}
    /\ step' = "close"
    /\ UNCHANGED descs

\* close_cb of 06
AllAsyncClose ==
    /\ exercise = "06" /\ step = "close"
    /\ descs' = descs \ {fd}
    /\ started' = started \ Cleaned
    /\ blocks' = blocks \ {"context"}
    /\ step' = "done"
    /\ UNCHANGED <<exercise, length, fd, nread, shown>>

FilesNext ==
    \/ FileExit
    \/ SyncOpen \/ SyncRead
    \/ AsyncOpen \/ AsyncRead
    \/ ContextOpen \/ ContextRead
    \/ AllAsyncOpen \/ AllAsyncRead \/ AllAsyncClose

FilesSpec == FilesInit /\ [][FilesNext]_fileVars

-----------------------------------------------------------------------------
(* Properties *)

\* A program that ends has cleaned up each request that libuv was given and has
\* freed its context, as the comments of 03, 05 and 06 promise, and it has closed
\* its file and nothing else; but 04 has only if the file has as many bytes as
\* its descriptor counts, and otherwise closed the descriptor of that number
\* (read_cb, close_cb).  The requests from malloc are left allocated.
Released ==
    step = "done" =>
      /\ started = {} /\ "context" \notin blocks
      /\ descs = IF exercise # "04" \/ nread = fd THEN 0..(LoopDescs - 1)
                 ELSE (0..LoopDescs) \ {nread}

=============================================================================
