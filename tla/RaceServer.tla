----------------------------- MODULE RaceServer -----------------------------
(***************************************************************************)
(* The interactive horse race (src/learn/libuv/interactive_horse_race):    *)
(* the TCP server's table of clients and the game that plays with them.    *)
(*                                                                         *)
(* One thread runs libuv's loop; an action is one callback from beginning  *)
(* to end, with the handlers of the game it calls.  libuv calls them phase *)
(* by phase, the model lets any that is pending come next.                 *)
(*                                                                         *)
(* CHECK ends the process when an operation of libuv fails: status is then *)
(* "exit".  It is "undefined" once the program has used what malloc left   *)
(* in a field: update_player the horse and onclient_msg the speed of a     *)
(* player who came too late for a horse, close_cb the data field of the    *)
(* handle, which is not the client's, disconnect the server of a client    *)
(* that could not be accepted.                                             *)
(*                                                                         *)
(* How fast the horses are is left out, and what is sent, also that the    *)
(* buffer uv_write is given is on the stack of the caller; `writing` is to *)
(* whom.                                                                   *)
(***************************************************************************)
EXTENDS Naturals, FiniteSets

CONSTANTS
    Clients,        \* the connections that are ever made
    Nobody,         \* no client
    FirstIds,       \* what server->ids may be at first: nothing sets it
    MAX_CLIENTS,    \* slots, and tracks
    TIME_TO_ANSWER, \* idle iterations a question stays
    DELAY           \* idle iterations between two moves of the horses

ASSUME RaceAssumption ==
    /\ Nobody \notin Clients /\ FirstIds \subseteq Nat
    /\ MAX_CLIENTS \in Nat \ {0} /\ TIME_TO_ANSWER \in Nat \ {0} /\ DELAY \in Nat \ {0}

Slots  == 0..(MAX_CLIENTS - 1)
NoSlot == MAX_CLIENTS

VARIABLES
    status,         \* "up", "exit" or "undefined"
    accepting,      \* libuv watches the listening socket
    conn,           \* the state of each client's handle
    clients,        \* server->clients
    num_clients,    \* server->num_clients
    ids,            \* server->ids
    id, slot,       \* client->id and client->slot
    writing,        \* the clients that a write is pending for
    track,          \* player->track
    players,        \* the players that have been allocated and not freed
    horse,          \* player->horse has been set
    in_progress,    \* game->in_progress
    question_asked, \* game->question_asked
    time_to_answer, \* game->time_to_answer
    delay           \* game->delay

serverVars == <<accepting, conn, clients, num_clients, ids, id, slot>>
playerVars == <<players, track, horse>>
gameVars   == <<in_progress, question_asked, time_to_answer, delay>>
vars == <<status, serverVars, writing, playerVars, gameVars>>

RaceInit ==
    /\ status = "up"
    /\ accepting = TRUE
    /\ conn = [c \in Clients |-> "none"]
    /\ clients = [s \in Slots |-> Nobody]
    /\ num_clients = 0
    /\ ids \in FirstIds
    /\ id = [c \in Clients |-> 0]
    /\ slot = [c \in Clients |-> NoSlot]
    /\ writing = {}
    /\ track = [c \in Clients |-> NoSlot]
    /\ players = {}
    /\ horse = [c \in Clients |-> FALSE]
    /\ in_progress = FALSE
    /\ question_asked = FALSE
    /\ time_to_answer = 0
    /\ delay = DELAY

\* The clients of the table.
Playing == {clients[s] : s \in {t \in Slots : t < num_clients}}

-----------------------------------------------------------------------------
(* Messages *)

\* luv_server_send for each of S, after what they have been sent before.
Send(S) == writing' = writing \cup S

\* luv_server_broadcast goes to the clients of the table as it is by then.
Broadcast == Send(Playing')

\* onclient_msg_processed: the response.
Respond(c) == Send({c})

\* write_cb after the last pending write to c.
WriteDone(c) ==
    /\ status = "up" /\ conn[c] \in {"open", "shutdown"}
    /\ c \in writing
    /\ writing' = writing \ {c}
    /\ UNCHANGED <<status, serverVars, playerVars, gameVars>>

-----------------------------------------------------------------------------
(* The server *)

\* Mutant: one client too many is accepted.
FullOneLater == num_clients > MAX_CLIENTS

\* The table takes no more clients.
Full == num_clients = MAX_CLIENTS

\* Mutant: the game is told of the client before its slot is set.
EarlyTrack(c) == slot[c]

\* The track of a new player: client->slot.
NewTrack(c) == num_clients

\* onconnection when the table is full: the connection is not accepted, and
\* libuv stops watching the socket until it is, which nothing does.
Refuse(c) ==
    /\ status = "up" /\ accepting /\ conn[c] = "none"
    /\ Full
    /\ accepting' = FALSE
    /\ conn' = [conn EXCEPT ![c] = "refused"]
    /\ UNCHANGED <<status, clients, num_clients, ids, id, slot, writing, playerVars, gameVars>>

\* uv_accept fails: disconnect is called for a client of which nothing is set.
AcceptFails(c) ==
    /\ status = "up" /\ accepting /\ conn[c] = "none"
    /\ ~Full
    /\ status' = "undefined"
    /\ UNCHANGED <<serverVars, writing, playerVars, gameVars>>

\* onclient_connected: a player for the client, who is welcomed twice.
OnClientConnected(c) ==
    /\ players' = players \cup {c}
    /\ track' = [track EXCEPT ![c] = NewTrack(c)]
    /\ Broadcast

\* onconnection
OnConnection(c) ==
    /\ status = "up" /\ accepting /\ conn[c] = "none"
    /\ ~Full
    /\ conn' = [conn EXCEPT ![c] = "open"]
    /\ clients' = [clients EXCEPT ![num_clients] = c]
    /\ slot' = [slot EXCEPT ![c] = num_clients]
    /\ id' = [id EXCEPT ![c] = ids]
    /\ ids' = ids + 1
    /\ num_clients' = num_clients + 1
    /\ OnClientConnected(c)
    /\ UNCHANGED <<status, accepting, horse, gameVars>>

\* Mutant: the client that is moved keeps its old slot.
SlotKept(c, s) == slot

\* The slots once c has moved to slot s.
SlotMoved(c, s) == [slot EXCEPT ![c] = s]

\* onclient_disconnected
OnClientDisconnected(c) == Broadcast

\* disconnect: the last client takes the slot of the one that quits, whose own
\* entry at the end of the table is left there.
Disconnect(c) ==
    LET last == num_clients - 1 IN
    /\ IF slot[c] < last
       THEN /\ clients' = [clients EXCEPT ![slot[c]] = clients[last]]
            /\ slot' = SlotMoved(clients[last], slot[c])
       ELSE UNCHANGED <<clients, slot>>
    /\ num_clients' = last
    /\ OnClientDisconnected(c)
    /\ conn' = [conn EXCEPT ![c] = "shutdown"]

\* read_cb at the end of the client's stream.
ReadEof(c) ==
    /\ status = "up" /\ conn[c] = "open"
    /\ Disconnect(c)
    /\ UNCHANGED <<status, accepting, ids, id, playerVars, gameVars>>

\* libuv reports an error to onconnection, or does not initialize the handle; or
\* a read or a write of a connection that the peer has reset fails.
CheckFails(c) ==
    /\ status = "up"
    /\ conn[c] \in {"open", "shutdown"} \/ (conn[c] = "none" /\ accepting)
    /\ status' = "exit"
    /\ UNCHANGED <<serverVars, writing, playerVars, gameVars>>

\* client_shutdown_cb, which libuv calls after all pending writes to the client,
\* closes the handle.
ShutdownDone(c) ==
    /\ status = "up" /\ conn[c] = "shutdown"
    /\ c \notin writing
    /\ conn' = [conn EXCEPT ![c] = "closing"]
    /\ UNCHANGED <<status, accepting, clients, num_clients, ids, id, slot, writing, playerVars, gameVars>>

\* close_cb frees the client, and before it what the handle's data field holds,
\* which nothing has set: nothing is freed, or the heap is broken.
Closed(c) ==
    /\ status = "up" /\ conn[c] = "closing"
    /\ conn' = [conn EXCEPT ![c] = "freed"]
    /\ status' \in {"up", "undefined"}
    /\ UNCHANGED <<accepting, clients, num_clients, ids, id, slot, writing, playerVars, gameVars>>

-----------------------------------------------------------------------------
(* The game *)

\* onclient_msg: during the race an answer is right or wrong; a right one counts
\* also when another has been given to the same question.  The speed that goes up
\* or down is set only in a player that has a horse.
OnClientMsg(c) ==
    /\ status' \in IF in_progress /\ ~horse[c] THEN {"up", "undefined"} ELSE {"up"}
    /\ question_asked' \in IF in_progress THEN {question_asked, FALSE} ELSE {question_asked}
    /\ Respond(c)

\* read_cb for what a client has sent.
OnMessage(c) ==
    /\ status = "up" /\ conn[c] = "open"
    /\ OnClientMsg(c)
    /\ UNCHANGED <<serverVars, playerVars, in_progress, time_to_answer, delay>>

\* Mutant: the handler looks at the time and leaves it.
TimeKept == time_to_answer

\* --game->time_to_answer
TimeLeft == time_to_answer - 1

\* Mutant: only the client in the last slot is given a horse.
LastOnly == {clients[num_clients - 1]}

\* track_init gives a horse to each client of the table.
Starters == Playing

\* add_player for each of them.
AddPlayers == [c \in Clients |-> c \in Starters \/ horse[c]]

\* question_handler starts the race when the table is full, and asks the next
\* question when the last one was answered or its time is up.
QuestionHandler ==
    /\ status = "up"
    /\ in_progress \/ num_clients = MAX_CLIENTS
    /\ in_progress' = TRUE
    /\ IF in_progress
       THEN UNCHANGED <<horse, delay>>
       ELSE /\ horse' = AddPlayers
            /\ delay' = DELAY
    /\ IF question_asked /\ TimeLeft > 0
       THEN time_to_answer' = TimeLeft /\ UNCHANGED question_asked
       ELSE time_to_answer' = TIME_TO_ANSWER /\ question_asked' = TRUE
    /\ UNCHANGED <<status, serverVars, players, track>>
    /\ IF in_progress /\ question_asked /\ TimeLeft > 0 THEN UNCHANGED writing ELSE Broadcast

\* track_handler moves the horses; the speed decides whether the horse is
\* looked at, and is not set either in a player that has none.
TrackHandler ==
    /\ status = "up"
    /\ in_progress
    /\ delay' = IF delay - 1 > 0 THEN delay - 1 ELSE DELAY
    /\ \/ UNCHANGED status
       \/ /\ delay - 1 = 0
          /\ \E c \in Playing : ~horse[c]
          /\ status' = "undefined"
    /\ UNCHANGED <<serverVars, writing, playerVars, in_progress, question_asked, time_to_answer>>

RaceNext ==
    \/ \E c \in Clients :
         \/ WriteDone(c)
         \/ Refuse(c)
         \/ AcceptFails(c)
         \/ OnConnection(c)
         \/ ReadEof(c)
         \/ CheckFails(c)
         \/ ShutdownDone(c)
         \/ Closed(c)
         \/ OnMessage(c)
    \/ QuestionHandler
    \/ TrackHandler

RaceSpec == RaceInit /\ [][RaceNext]_vars

\* libuv runs the active idle handles in every iteration of the loop.
FairRaceSpec == RaceSpec /\ WF_vars(QuestionHandler) /\ WF_vars(TrackHandler)

-----------------------------------------------------------------------------
(* Properties *)

\* Every variable has its type.
TypeOK ==
    /\ status \in {"up", "exit", "undefined"}
    /\ accepting \in BOOLEAN
    /\ conn \in [Clients -> {"none", "refused", "open", "shutdown", "closing", "freed"}]
    /\ clients \in [Slots -> Clients \cup {Nobody}]
    /\ num_clients \in 0..MAX_CLIENTS
    /\ ids \in Nat
    /\ id \in [Clients -> Nat]
    /\ slot \in [Clients -> 0..MAX_CLIENTS]
    /\ writing \subseteq Clients
    /\ track \in [Clients -> 0..MAX_CLIENTS]
    /\ players \subseteq Clients
    /\ horse \in [Clients -> BOOLEAN]
    /\ in_progress \in BOOLEAN /\ question_asked \in BOOLEAN
    /\ time_to_answer \in 0..TIME_TO_ANSWER
    /\ delay \in 1..DELAY

\* The table holds exactly the open connections, each in its slot, without a
\* gap: no broadcast reaches a client that is being freed and none misses one
\* that is open (disconnect, onconnection).
Contiguous ==
    /\ \A s \in Slots : s < num_clients =>
         clients[s] # Nobody /\ conn[clients[s]] = "open" /\ slot[clients[s]] = s
    /\ \A c \in Clients : conn[c] = "open" =>
         slot[c] < num_clients /\ clients[slot[c]] = c

\* Whoever is sent something is connected and stays so until it is written: no
\* handle is closed with writes pending, whose write_cb would then end the
\* process, and none is written to after that (disconnect, luv_server_send).
WrittenBeforeClosed == \A c \in writing : conn[c] \in {"open", "shutdown"}

\* A client that is moved only moves down, so that its track, which is a copy
\* of the first slot it had, is not below its slot and is a track of the game.
TrackNotBelowSlot ==
    \A c \in Clients : conn[c] = "open" => slot[c] <= track[c] /\ track[c] < MAX_CLIENTS

\* In a race each player has a horse, or came after all those that have.
HorselessCameLater ==
    \A c, d \in Playing : in_progress /\ horse[d] /\ ~horse[c] => id[d] < id[c]

\* When the race begins all tracks are filled.
TracksFilled ==
    [][~in_progress /\ in_progress' => {track[c] : c \in Playing} = Slots]_vars

\* A client that is freed leaves no player behind.
PlayersFreed == \A c \in players : conn[c] # "freed"

\* A race asks one question after another: one that nobody answers is replaced
\* when its time is up (question_handler).
QuestionsGoOn ==
    <>[](in_progress /\ status = "up")
      => []<><<question_asked' /\ time_to_answer' = TIME_TO_ANSWER>>_<<question_asked, time_to_answer>>

=============================================================================
