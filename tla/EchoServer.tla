----------------------------- MODULE EchoServer -----------------------------
(***************************************************************************)
(* The TCP echo server (src/learn/libuv/07_tcp_echo_server.c).             *)
(*                                                                         *)
(* One thread runs libuv's loop and an action is one callback.  A client   *)
(* sends bytes, which the server reads in chunks of any size up to that of *)
(* a buffer, ends its side of the connection or resets it.  Writes are     *)
(* completed in the order they were made, when the client takes them, and  *)
(* uv_shutdown waits for them.                                             *)
(*                                                                         *)
(* The server has stopped when its status is "quit", as a client asked, or *)
(* "exit", when a CHECK failed.  It is "undefined" once strlen has read    *)
(* beyond a buffer: what malloc gave is not initialized, and if a chunk    *)
(* has no NUL then nothing says that one follows it in the buffer.         *)
(***************************************************************************)
EXTENDS Naturals, Sequences, SequencesExt

CONSTANTS
    Peers,      \* clients
    Bytes,      \* what they send: strings of one character, and NUL
    NUL,
    MaxSaid,    \* bound: bytes a client sends
    BufSize,    \* the size alloc_cb is asked for
    MaxJunk     \* bound: bytes that strlen counts after those that were read

ASSUME EchoAssumption ==
    /\ NUL \in Bytes /\ {"Q", "U", "I", "T"} \subseteq Bytes
    /\ MaxSaid \in Nat /\ BufSize \in Nat \ {0} /\ MaxJunk \in Nat

\* Allocations of a connection.
Kinds == {"client", "buffer", "write", "response", "shutdown"}

VARIABLES
    server,     \* "up", "quit", "exit" or "undefined"
    peer,       \* the state of a connection's handle
    said,       \* the bytes a client has sent
    arrived,    \* those of them that were not read yet
    ended,      \* a client has ended its side, or reset the connection
    chunks,     \* the chunks that were read
    writes,     \* the responses that libuv has yet to write
    replies,    \* those that were written
    heap        \* what is allocated for a connection, and how often

echoVars == <<server, peer, said, arrived, ended, chunks, writes, replies, heap>>

EchoInit ==
    /\ server = "up"
    /\ peer = [c \in Peers |-> "none"]
    /\ said = [c \in Peers |-> <<>>]
    /\ arrived = [c \in Peers |-> <<>>]
    /\ ended = [c \in Peers |-> "no"]
    /\ chunks = [c \in Peers |-> <<>>]
    /\ writes = [c \in Peers |-> <<>>]
    /\ replies = [c \in Peers |-> <<>>]
    /\ heap = [c \in Peers |-> [k \in Kinds |-> 0]]

-----------------------------------------------------------------------------
(* The clients *)

PeerConnects(c) ==
    /\ server = "up" /\ peer[c] = "none"
    /\ peer' = [peer EXCEPT ![c] = "backlog"]
    /\ UNCHANGED <<server, said, arrived, ended, chunks, writes, replies, heap>>

PeerSends(c, b) ==
    /\ server = "up" /\ peer[c] \in {"backlog", "open"} /\ ended[c] = "no"
    /\ Len(said[c]) < MaxSaid
    /\ said' = [said EXCEPT ![c] = Append(@, b)]
    /\ arrived' = [arrived EXCEPT ![c] = Append(@, b)]
    /\ UNCHANGED <<server, peer, ended, chunks, writes, replies, heap>>

PeerEnds(c) ==
    /\ server = "up" /\ peer[c] \in {"backlog", "open"} /\ ended[c] = "no"
    /\ ended' = [ended EXCEPT ![c] = "eof"]
    /\ UNCHANGED <<server, peer, said, arrived, chunks, writes, replies, heap>>

PeerResets(c) ==
    /\ server = "up" /\ peer[c] \in {"open", "shutdown"} /\ ended[c] # "reset"
    /\ ended' = [ended EXCEPT ![c] = "reset"]
    /\ UNCHANGED <<server, peer, said, arrived, chunks, writes, replies, heap>>

-----------------------------------------------------------------------------
(* The callbacks *)

\* Those of the allocations ks are one more, those of ms one less.
Allocate(c, ks, ms) ==
    heap' = [heap EXCEPT ![c] = [k \in Kinds |-> IF k \in ks THEN @[k] + 1
                                                 ELSE IF k \in ms THEN @[k] - 1 ELSE @[k]]]

\* CHECK fails: a connection was not accepted, or a read or a write failed.
EchoExit(c) ==
    /\ server = "up"
    /\ \/ peer[c] = "backlog"
       \/ ended[c] = "reset" /\ (peer[c] = "open" \/ writes[c] # <<>>)
    /\ server' = "exit"
    /\ UNCHANGED <<peer, said, arrived, ended, chunks, writes, replies, heap>>

\* onconnection
Accept(c) ==
    /\ server = "up" /\ peer[c] = "backlog"
    /\ peer' = [peer EXCEPT ![c] = "open"]
    /\ Allocate(c, {"client"}, {})
    /\ UNCHANGED <<server, said, arrived, ended, chunks, writes, replies>>

Quit == <<"Q", "U", "I", "T">>

\* strncmp compares as many of the four bytes as were read.
QuitAsked(chunk) == IsPrefix(chunk, Quit) \/ IsPrefix(Quit, chunk)

\* The bytes of chunk before its first NUL, and if it has none those that follow
\* it in the buffer up to the next NUL: what strlen(buf->base) counts.
AsString(chunk, junk) ==
    IF NUL \in ToSet(chunk) THEN SubSeq(chunk, 1, SelectInSeq(chunk, LAMBDA b : b = NUL) - 1)
    ELSE chunk \o junk

\* resp
Response(chunk, junk) == <<"server resp:">> \o AsString(chunk, junk)

\* Mutant: the buffer stays when the response is made of it.
BufferKept == {}

\* free(buf->base)
BufferFreed == {"buffer"}

\* read_cb for a chunk of n bytes.  alloc_cb gives it a buffer, which is freed
\* here, so that neither call shows by itself.
ReadChunk(c, n, junk) ==
    LET chunk == SubSeq(arrived[c], 1, n) IN
    /\ server = "up" /\ peer[c] = "open" /\ ended[c] # "reset"
    /\ n \in 1..Len(arrived[c]) /\ n <= BufSize
    /\ arrived' = [arrived EXCEPT ![c] = SubSeq(@, n + 1, Len(@))]
    /\ chunks' = [chunks EXCEPT ![c] = Append(@, chunk)]
    /\ IF QuitAsked(chunk)
       THEN server' = "quit" /\ UNCHANGED <<writes, heap>>
       ELSE /\ server' \in IF NUL \in ToSet(chunk) THEN {"up"} ELSE {"up", "undefined"}
            /\ writes' = [writes EXCEPT ![c] = Append(@, Response(chunk, junk))]
            /\ Allocate(c, {"write", "response"} \cup ({"buffer"} \ BufferFreed), {})
    /\ UNCHANGED <<peer, said, ended, replies>>

\* Mutant: the handle is closed at once.
CloseAtOnce == "closing"

\* uv_shutdown, which waits for the writes.
AfterEof == "shutdown"

\* read_cb at the end of the client's stream.
EndOfStream(c) ==
    /\ server = "up" /\ peer[c] = "open" /\ ended[c] = "eof" /\ arrived[c] = <<>>
    /\ peer' = [peer EXCEPT ![c] = AfterEof]
    /\ Allocate(c, {"shutdown"}, {})
    /\ UNCHANGED <<server, said, arrived, ended, chunks, writes, replies>>

\* What write_cb frees.
WriteFreed == {"write", "response"}

\* write_cb
ResponseWritten(c) ==
    /\ server = "up" /\ writes[c] # <<>> /\ ended[c] # "reset" /\ peer[c] # "freed"
    /\ replies' = [replies EXCEPT ![c] = Append(@, Head(writes[c]))]
    /\ writes' = [writes EXCEPT ![c] = Tail(@)]
    /\ Allocate(c, {}, WriteFreed)
    /\ UNCHANGED <<server, peer, said, arrived, ended, chunks>>

\* Mutant: the handle is not closed after the shutdown.
ShutdownOnly == "halted"

\* uv_close
AfterShutdown == "closing"

\* shutdown_cb closes the handle, whether uv_shutdown succeeded or not.
StreamShutdown(c) ==
    /\ server = "up" /\ peer[c] = "shutdown" /\ writes[c] = <<>>
    /\ peer' = [peer EXCEPT ![c] = AfterShutdown]
    /\ Allocate(c, {}, {"shutdown"})
    /\ UNCHANGED <<server, said, arrived, ended, chunks, writes, replies>>

\* close_cb
StreamClosed(c) ==
    /\ server = "up" /\ peer[c] = "closing"
    /\ peer' = [peer EXCEPT ![c] = "freed"]
    /\ Allocate(c, {}, {"client"})
    /\ UNCHANGED <<server, said, arrived, ended, chunks, writes, replies>>

\* The callbacks that wait for nothing the client has to do first.
EchoCallback(c) ==
    \/ EchoExit(c)
    \/ Accept(c)
    \/ \E n \in 1..MaxSaid, j \in 0..MaxJunk : ReadChunk(c, n, [i \in 1..j |-> "junk"])
    \/ EndOfStream(c)
    \/ StreamShutdown(c)
    \/ StreamClosed(c)

EchoNext ==
    \E c \in Peers :
      \/ PeerConnects(c)
      \/ \E b \in Bytes : PeerSends(c, b)
      \/ PeerEnds(c)
      \/ PeerResets(c)
      \/ EchoCallback(c)
      \/ ResponseWritten(c)

EchoSpec == EchoInit /\ [][EchoNext]_echoVars

\* libuv calls back for each connection that is ready.  A write is not, until
\* the client takes what was written, which no client has to do.
FairEchoSpec == EchoSpec /\ \A c \in Peers : WF_echoVars(EchoCallback(c))

-----------------------------------------------------------------------------
(* Properties *)

\* Every variable has its type, and nothing is freed that was not allocated.
EchoTypeOK ==
    /\ server \in {"up", "quit", "exit", "undefined"}
    /\ \A c \in Peers :
         /\ peer[c] \in {"none", "backlog", "open", "shutdown", "closing", "freed"}
         /\ \A b \in ToSet(said[c]) \cup ToSet(arrived[c]) : b \in Bytes
         /\ ended[c] \in {"no", "eof", "reset"}
         /\ \A k \in Kinds : heap[c][k] \in Nat

\* A response is the prefix and then the chunk, up to its first NUL if it has
\* one; if it has none anything may follow.
Echoes(response, chunk) ==
    /\ response # <<>> /\ Head(response) = "server resp:"
    /\ LET body == Tail(response) IN
       IF NUL \in ToSet(chunk) THEN NUL \notin ToSet(body) /\ IsPrefix(Append(body, NUL), chunk)
       ELSE IsPrefix(chunk, body)

\* A client gets one response for each chunk the server has read of it, in the
\* order of the chunks, each with what the chunk says; and a handle is closed
\* only when all of them are written and everything the client has sent was read
\* (read_cb, write_cb, shutdown_cb).
Answered ==
    \A c \in Peers :
      LET rs == replies[c] \o writes[c] IN
      /\ server = "up" => Len(rs) = Len(chunks[c])
      /\ \A i \in DOMAIN rs : Echoes(rs[i], chunks[c][i])
      /\ peer[c] \in {"closing", "freed"} /\ ended[c] = "eof" =>
           writes[c] = <<>> /\ FlattenSeq(chunks[c]) = said[c]

\* When a handle is closed nothing that was allocated for its connection is left
\* (the frees of read_cb, write_cb, shutdown_cb and close_cb).
ConnectionFreed ==
    \A c \in Peers : peer[c] = "freed" => \A k \in Kinds : heap[c][k] = 0

\* A client that ends its side and takes what is written to it is closed, unless
\* the server stops (read_cb, shutdown_cb, close_cb).  One that ends its side and
\* takes nothing keeps the write, the shutdown and the handle for ever.
EndedIsClosed ==
    \A c \in Peers :
        []<>(writes[c] = <<>>) =>
            (peer[c] = "open" /\ ended[c] = "eof" ~> peer[c] = "freed" \/ server # "up")

=============================================================================
