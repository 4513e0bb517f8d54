-------------------------- MODULE RaceServerProofs --------------------------
(***************************************************************************)
(* Proofs about RaceServer, for any number of slots and of connections.    *)
(*                                                                         *)
(* That the table has no gaps, and that every open connection has the slot *)
(* that has it, is inductive together with the types: disconnect needs it  *)
(* to know that the client it moves is the one in the last slot.  From it  *)
(* follows to whom broadcasts go; the other properties rest on that and on *)
(* IdsAndHorses.                                                           *)
(***************************************************************************)
EXTENDS RaceServer, TLAPS

\* The ids of open connections have been given out, and no connection has a
\* horse before it is made.
IdsAndHorses ==
    \A c \in Clients : /\ conn[c] = "open" => id[c] < ids
                       /\ conn[c] = "none" => ~horse[c]

IInv ==
    /\ TypeOK
    /\ Contiguous
    /\ WrittenBeforeClosed
    /\ TrackNotBelowSlot
    /\ HorselessCameLater
    /\ IdsAndHorses

-----------------------------------------------------------------------------
(* The clients of the table *)

Open == {c \in Clients : conn[c] = "open"}

SlotTypes ==
    /\ num_clients \in 0..MAX_CLIENTS
    /\ clients \in [Slots -> Clients \cup {Nobody}]
    /\ slot \in [Clients -> 0..MAX_CLIENTS]

\* The table's clients are the open connections.
LEMMA PlayingIsOpen ==
  SlotTypes /\ Contiguous => Playing = Open
<1> SUFFICES ASSUME SlotTypes, Contiguous PROVE Playing = Open
  OBVIOUS
<1>1. ASSUME NEW c \in Playing
      PROVE  c \in Clients /\ conn[c] = "open"
  <2>1. PICK s \in Slots : s < num_clients /\ c = clients[s]
    BY <1>1 DEF Playing
  <2>2. clients[s] # Nobody /\ conn[clients[s]] = "open"
    BY <2>1 DEF Contiguous
  <2>3. clients[s] \in Clients
    BY <2>1, <2>2 DEF SlotTypes
  <2> QED
    BY <2>1, <2>2, <2>3
<1>2. ASSUME NEW c \in Clients, conn[c] = "open"
      PROVE  c \in Playing
  <2>1. slot[c] < num_clients /\ clients[slot[c]] = c
    BY <1>2 DEF Contiguous
  <2>2. slot[c] \in Slots
    BY <2>1, RaceAssumption DEF SlotTypes, Slots
  <2> QED
    BY <2>1, <2>2 DEF Playing
<1> QED
  BY <1>1, <1>2 DEF Open

\* The same of the next state.
LEMMA PlayingIsOpenNext == SlotTypes' /\ Contiguous' => (Playing = Open)'
BY PlayingIsOpen, PTL

-----------------------------------------------------------------------------
(* The invariant *)

LEMMA InitIInv == RaceInit => IInv
<1> SUFFICES ASSUME RaceInit PROVE IInv
  OBVIOUS
<1> USE RaceAssumption DEF RaceInit
<1>1. TypeOK
  <2>1. /\ clients \in [Slots -> Clients \cup {Nobody}]
        /\ id \in [Clients -> Nat]
        /\ slot \in [Clients -> 0..MAX_CLIENTS]
        /\ track \in [Clients -> 0..MAX_CLIENTS]
        /\ horse \in [Clients -> BOOLEAN]
    BY DEF NoSlot
  <2>2. num_clients \in 0..MAX_CLIENTS /\ ids \in Nat
    OBVIOUS
  <2>3. time_to_answer \in 0..TIME_TO_ANSWER /\ delay \in 1..DELAY
    OBVIOUS
  <2>4. conn \in [Clients -> {"none", "refused", "open", "shutdown", "closing", "freed"}]
    OBVIOUS
  <2> QED
    BY <2>1, <2>2, <2>3, <2>4 DEF TypeOK
<1>2. Contiguous
  BY DEF Contiguous, Slots
<1>3. TrackNotBelowSlot
  BY DEF TrackNotBelowSlot
<1>4. HorselessCameLater
  BY DEF HorselessCameLater
<1>5. IdsAndHorses /\ WrittenBeforeClosed
  BY DEF IdsAndHorses, WrittenBeforeClosed
<1> QED
  BY <1>1, <1>2, <1>3, <1>4, <1>5 DEF IInv

\* A connection that is accepted is put behind the last client.
LEMMA OnConnectionIInv ==
  ASSUME IInv, NEW c \in Clients, OnConnection(c)
  PROVE  IInv'
<1> USE RaceAssumption DEF OnConnection, OnClientConnected, Full, NewTrack, playerVars, gameVars
<1>1. TypeOK /\ num_clients \in Slots
  BY DEF IInv, TypeOK, Slots
<1>2. SlotTypes'
  BY <1>1 DEF TypeOK, Slots, SlotTypes
<1>3. Contiguous'
  <2>1. clients'[num_clients] = c /\ conn'[c] = "open" /\ slot'[c] = num_clients
    BY <1>1 DEF TypeOK
  <2>2. ASSUME NEW s \in Slots, s < num_clients
        PROVE  clients'[s] # Nobody /\ conn'[clients'[s]] = "open" /\ slot'[clients'[s]] = s
    <3>1. clients'[s] = clients[s] /\ clients[s] \in Clients /\ clients[s] # c
      BY <1>1, <2>2 DEF IInv, Contiguous, TypeOK, Slots
    <3> QED
      BY <1>1, <2>2, <3>1 DEF IInv, Contiguous, TypeOK
  <2>3. ASSUME NEW d \in Clients, d # c, conn[d] = "open"
        PROVE  slot'[d] < num_clients' /\ clients'[slot'[d]] = d
    BY <1>1, <2>3 DEF IInv, Contiguous, TypeOK, Slots
  <2>4. \A s \in Slots : s < num_clients' => s < num_clients \/ s = num_clients
    BY <1>1 DEF TypeOK, Slots
  <2>5. \A d \in Clients : conn'[d] = "open" => d = c \/ conn[d] = "open"
    BY <1>1 DEF TypeOK
  <2>6. slot'[c] < num_clients' /\ c # Nobody
    BY <1>1, <2>1 DEF TypeOK
  <2> QED
    BY <2>1, <2>2, <2>3, <2>4, <2>5, <2>6 DEF Contiguous
<1>4. TrackNotBelowSlot'
  BY <1>1 DEF IInv, TrackNotBelowSlot, TypeOK, Slots
<1>5. IdsAndHorses'
  BY <1>1 DEF IInv, IdsAndHorses, TypeOK
<1>6. HorselessCameLater'
  <2>1. Playing' = Playing \cup {c}
    <3>1. Playing' = {d \in Clients : conn'[d] = "open"}
      BY <1>2, <1>3, PlayingIsOpenNext DEF Open
    <3>2. Playing = {d \in Clients : conn[d] = "open"}
      BY <1>1, PlayingIsOpen DEF Open, IInv, TypeOK, SlotTypes
    <3> QED
      BY <1>1, <3>1, <3>2 DEF TypeOK
  <2>2. \A d \in Playing : d \in Clients /\ d # c /\ conn[d] = "open"
    BY <1>1, PlayingIsOpen DEF Open, IInv, TypeOK, SlotTypes
  <2>3. ~horse'[c] /\ id'[c] = ids
    BY <1>1 DEF IInv, IdsAndHorses, TypeOK
  <2>4. \A d \in Playing : id'[d] = id[d] /\ id[d] < ids /\ horse'[d] = horse[d]
    BY <1>1, <2>2 DEF IInv, IdsAndHorses, TypeOK
  <2> QED
    BY <2>1, <2>2, <2>3, <2>4 DEF IInv, HorselessCameLater
<1>7. WrittenBeforeClosed'
  BY <1>1, <1>2, <1>3, PlayingIsOpenNext DEF IInv, TypeOK, WrittenBeforeClosed, Open, Broadcast, Send
<1>8. writing' \subseteq Clients
  BY <1>1, <1>2, <1>3, PlayingIsOpenNext DEF TypeOK, Open, Broadcast, Send
<1>9. TypeOK'
  BY <1>1, <1>8 DEF TypeOK, Slots
<1> QED
  BY <1>3, <1>4, <1>5, <1>6, <1>7, <1>9 DEF IInv

\* The last client takes the slot of the one that leaves.
LEMMA ReadEofIInv ==
  ASSUME IInv, NEW c \in Clients, ReadEof(c)
  PROVE  IInv'
<1> USE RaceAssumption DEF ReadEof, Disconnect, OnClientDisconnected, SlotMoved, playerVars, gameVars
<1> DEFINE last == num_clients - 1
           d == clients[last]
<1>1. TypeOK /\ Contiguous /\ last \in Slots /\ slot[c] \in 0..last
  BY DEF IInv, TypeOK, Contiguous, Slots
<1>2. d \in Clients /\ conn[d] = "open" /\ slot[d] = last
  BY <1>1 DEF TypeOK, Contiguous, Slots
<1>3. /\ num_clients' = last
      /\ conn' = [conn EXCEPT ![c] = "shutdown"]
  BY <1>1
<1>4. /\ slot[c] < last => /\ clients' = [clients EXCEPT ![slot[c]] = d]
                           /\ slot' = [slot EXCEPT ![d] = slot[c]]
      /\ ~(slot[c] < last) => slot[c] = last /\ clients' = clients /\ slot' = slot
  <2>1. CASE slot[c] < last
    BY <2>1
  <2>2. CASE ~(slot[c] < last)
    <3>1. slot[c] = last
      BY <1>1, <2>2 DEF TypeOK
    <3> QED
      BY <2>2, <3>1
  <2> QED
    BY <2>1, <2>2
<1> HIDE DEF ReadEof, Disconnect, OnClientDisconnected, SlotMoved, last, d
<1>5. UNCHANGED <<status, accepting, ids, id, players, track, horse, in_progress,
                  question_asked, time_to_answer, delay>>
  BY DEF ReadEof
<1>6. SlotTypes'
  <2>1. last \in 0..MAX_CLIENTS /\ slot[c] \in Slots
    BY <1>1 DEF TypeOK, Slots
  <2>2. clients' \in [Slots -> Clients \cup {Nobody}] /\ slot' \in [Clients -> 0..MAX_CLIENTS]
    BY <1>1, <1>2, <1>4, <2>1 DEF TypeOK
  <2> QED
    BY <1>3, <2>1, <2>2 DEF SlotTypes
<1>7. Contiguous'
  <2>1. clients[slot[c]] = c
    BY <1>1 DEF Contiguous, ReadEof
  <2>2. ASSUME NEW s \in Slots, s < last, s # slot[c]
        PROVE  /\ clients'[s] = clients[s] /\ clients[s] \in Clients
               /\ clients[s] # c /\ clients[s] # d
    <3>1. clients'[s] = clients[s]
      BY <1>1, <1>4, <2>2 DEF TypeOK, Slots
    <3>2. clients[s] \in Clients /\ slot[clients[s]] = s
      BY <1>1, <1>3, <2>2 DEF TypeOK, Contiguous, Slots, last
    <3> QED
      BY <1>1, <1>2, <2>2, <3>1, <3>2 DEF Slots
  <2>3. ASSUME NEW s \in Slots, s < num_clients'
        PROVE  clients'[s] # Nobody /\ conn'[clients'[s]] = "open" /\ slot'[clients'[s]] = s
    <3>1. CASE s # slot[c]
      <4>1. /\ clients'[s] = clients[s] /\ clients[s] \in Clients
            /\ clients[s] # c /\ clients[s] # d
        BY <1>3, <2>2, <2>3, <3>1
      <4>2. conn[clients[s]] = "open" /\ slot[clients[s]] = s
        BY <1>1, <1>3, <2>3 DEF TypeOK, Contiguous, Slots, last
      <4> QED
        BY <1>1, <1>3, <1>4, <4>1, <4>2 DEF TypeOK
    <3>2. CASE s = slot[c]
      <4>1. slot[c] < last /\ d # c
        BY <1>2, <1>3, <2>3, <3>2 DEF Slots
      <4>2. clients'[s] = d
        BY <1>1, <1>4, <2>3, <3>2, <4>1 DEF TypeOK
      <4> QED
        BY <1>1, <1>2, <1>3, <1>4, <3>2, <4>1, <4>2 DEF TypeOK
    <3> QED
      BY <3>1, <3>2
  <2>4. ASSUME NEW e \in Clients, conn'[e] = "open"
        PROVE  slot'[e] < num_clients' /\ clients'[slot'[e]] = e
    <3>1. e # c /\ conn[e] = "open"
      BY <1>1, <1>3, <2>4 DEF TypeOK
    <3>2. slot[e] < num_clients /\ slot[e] \in Slots /\ clients[slot[e]] = e
      BY <1>1, <3>1 DEF Contiguous, TypeOK, Slots
    <3>3. slot[e] # slot[c] /\ (slot[e] = last => e = d)
      BY <2>1, <3>1, <3>2 DEF d
    <3>4. CASE e = d
      <4>1. slot[c] < last
        BY <1>1, <1>2, <3>3, <3>4 DEF Slots
      <4> QED
        BY <1>1, <1>2, <1>3, <1>4, <3>4, <4>1 DEF TypeOK, Slots
    <3>5. CASE e # d
      <4>1. slot'[e] = slot[e] /\ slot[e] < last
        <5>1. slot'[e] = slot[e]
          BY <1>1, <1>4, <3>5 DEF TypeOK
        <5>2. slot[e] # last
          BY <3>3, <3>5
        <5>3. slot[e] \in Nat /\ num_clients \in Nat /\ slot[e] < num_clients
          BY <1>1, <3>2 DEF TypeOK
        <5> QED
          BY <5>1, <5>2, <5>3 DEF last
      <4>2. clients'[slot[e]] = clients[slot[e]]
        BY <1>1, <1>4, <3>2, <3>3 DEF TypeOK
      <4> QED
        BY <1>3, <3>2, <4>1, <4>2
    <3> QED
      BY <3>4, <3>5
  <2> QED
    BY <2>3, <2>4 DEF Contiguous
<1>8. TrackNotBelowSlot'
  <2>1. ASSUME NEW e \in Clients, conn'[e] = "open"
        PROVE  slot'[e] <= track[e] /\ track[e] < MAX_CLIENTS
    <3>1. conn[e] = "open" /\ slot[e] <= track[e] /\ track[e] < MAX_CLIENTS
      BY <1>1, <1>3, <2>1 DEF IInv, TrackNotBelowSlot, TypeOK
    <3>2. slot'[e] = slot[e] \/ slot'[e] <= slot[e]
      BY <1>1, <1>2, <1>4 DEF TypeOK, Slots
    <3>3. slot[e] \in Nat /\ slot'[e] \in Nat /\ track[e] \in Nat
      BY <1>1, <1>6 DEF TypeOK, SlotTypes
    <3> QED
      BY <3>1, <3>2, <3>3
  <2> QED
    BY <1>5, <2>1 DEF TrackNotBelowSlot
<1>9. Playing' \subseteq Playing
  <2>1. Playing' = {e \in Clients : conn'[e] = "open"}
    BY <1>6, <1>7, PlayingIsOpenNext DEF Open
  <2>2. Playing = {e \in Clients : conn[e] = "open"}
    BY <1>1, PlayingIsOpen DEF Open, TypeOK, SlotTypes
  <2> QED
    BY <1>1, <1>3, <2>1, <2>2 DEF TypeOK
<1>10. HorselessCameLater'
  BY <1>5, <1>9 DEF IInv, HorselessCameLater
<1>11. IdsAndHorses'
  BY <1>1, <1>3, <1>5 DEF IInv, IdsAndHorses, TypeOK
<1>12. writing' = writing \cup {e \in Clients : conn'[e] = "open"}
  BY <1>6, <1>7, PlayingIsOpenNext DEF Open, ReadEof, Disconnect, OnClientDisconnected, Broadcast, Send
<1>13. WrittenBeforeClosed'
  BY <1>1, <1>3, <1>12 DEF IInv, TypeOK, WrittenBeforeClosed
<1>14. TypeOK'
  <2>1. conn' \in [Clients -> {"none", "refused", "open", "shutdown", "closing", "freed"}]
    BY <1>1, <1>3 DEF TypeOK
  <2> QED
    BY <1>1, <1>5, <1>6, <1>12, <2>1 DEF TypeOK, SlotTypes
<1> QED
  BY <1>7, <1>8, <1>10, <1>11, <1>13, <1>14 DEF IInv

\* The steps of a connection that is not open.
LEMMA HandleStepIInv ==
  ASSUME IInv, NEW c \in Clients, Refuse(c) \/ ShutdownDone(c) \/ Closed(c)
  PROVE  IInv'
<1> DEFINE st == conn'[c]
<1>1. /\ conn' = [conn EXCEPT ![c] = st] /\ st \in {"refused", "closing", "freed"}
      /\ conn[c] # "open"
      /\ status' \in {"up", "undefined"} /\ accepting' \in BOOLEAN
      /\ UNCHANGED <<clients, num_clients, ids, id, slot, writing, playerVars, gameVars>>
  BY DEF Refuse, ShutdownDone, Closed, IInv, TypeOK
<1> HIDE DEF st
<1>2. TypeOK'
  BY <1>1 DEF IInv, TypeOK, playerVars, gameVars
<1>3. \A d \in Clients : (conn'[d] = "open" <=> conn[d] = "open") /\ (conn'[d] = "none" => conn[d] = "none")
  BY <1>1 DEF IInv, TypeOK
<1>4. Contiguous'
  <2>1. \A s \in Slots : clients[s] # Nobody => clients[s] \in Clients
    BY DEF IInv, TypeOK
  <2> QED
    BY <1>1, <1>3, <2>1 DEF IInv, Contiguous
<1>5. TrackNotBelowSlot' /\ IdsAndHorses'
  BY <1>1, <1>3 DEF IInv, TrackNotBelowSlot, IdsAndHorses, playerVars
<1>6. HorselessCameLater'
  BY <1>1 DEF IInv, HorselessCameLater, Playing, playerVars, gameVars
<1>7. WrittenBeforeClosed'
  <2>1. c \notin writing
    BY DEF Refuse, ShutdownDone, Closed, IInv, WrittenBeforeClosed
  <2> QED
    BY <1>1, <2>1 DEF IInv, TypeOK, WrittenBeforeClosed
<1> QED
  BY <1>2, <1>4, <1>5, <1>6, <1>7 DEF IInv

\* The steps for a client that change neither the table nor a handle.
OtherStep(c) == OnMessage(c) \/ CheckFails(c) \/ WriteDone(c) \/ AcceptFails(c)

\* The handlers of the game leave the table alone.
LEMMA GameStepIInv ==
  ASSUME IInv,
         (\E c \in Clients : OtherStep(c)) \/ QuestionHandler \/ TrackHandler
  PROVE  IInv'
<1> USE RaceAssumption
<1>1. /\ UNCHANGED <<serverVars, players, track>>
      /\ status' \in {"up", "exit", "undefined"}
  BY DEF IInv, TypeOK, OtherStep, OnMessage, OnClientMsg, CheckFails, WriteDone, AcceptFails, QuestionHandler, TrackHandler, playerVars
<1>2. /\ horse' \in [Clients -> BOOLEAN] /\ in_progress' \in BOOLEAN
      /\ question_asked' \in BOOLEAN /\ time_to_answer' \in 0..TIME_TO_ANSWER
      /\ delay' \in 1..DELAY
  <2>1. ASSUME NEW c \in Clients, OtherStep(c)
        PROVE  <1>2!:
    BY <2>1 DEF IInv, TypeOK, OtherStep, OnMessage, OnClientMsg, CheckFails, WriteDone, AcceptFails,
                playerVars, gameVars
  <2>2. ASSUME QuestionHandler
        PROVE  <1>2!:
    <3>1. time_to_answer' \in 0..TIME_TO_ANSWER /\ question_asked' \in BOOLEAN
      <4>1. CASE question_asked /\ TimeLeft > 0
        <5>1. time_to_answer' = time_to_answer - 1 /\ question_asked' = question_asked
          BY <2>2, <4>1 DEF QuestionHandler, TimeLeft
        <5>2. time_to_answer \in 0..TIME_TO_ANSWER /\ time_to_answer - 1 > 0
          BY <4>1 DEF IInv, TypeOK, TimeLeft
        <5> QED
          BY <5>1, <5>2, <4>1
      <4>2. CASE ~(question_asked /\ TimeLeft > 0)
        <5>1. time_to_answer' = TIME_TO_ANSWER /\ question_asked' = TRUE
          BY <2>2, <4>2 DEF QuestionHandler
        <5> QED
          BY <5>1
      <4> QED
        BY <4>1, <4>2
    <3>2. horse' \in [Clients -> BOOLEAN]
      <4>1. CASE in_progress
        BY <2>2, <4>1 DEF IInv, TypeOK, QuestionHandler
      <4>2. CASE ~in_progress
        BY <2>2, <4>2 DEF IInv, TypeOK, QuestionHandler, AddPlayers
      <4> QED
        BY <4>1, <4>2
    <3>3. delay' \in 1..DELAY /\ in_progress' \in BOOLEAN
      BY <2>2 DEF IInv, TypeOK, QuestionHandler
    <3> QED
      BY <3>1, <3>2, <3>3
  <2>3. ASSUME TrackHandler
        PROVE  <1>2!:
    BY <2>3 DEF IInv, TypeOK, TrackHandler, playerVars
  <2> QED
    BY <2>1, <2>2, <2>3
<1>3. Contiguous' /\ TrackNotBelowSlot'
  BY <1>1 DEF IInv, Contiguous, TrackNotBelowSlot, serverVars
<1>4. Playing' = Playing /\ Playing = {c \in Clients : conn[c] = "open"}
  BY <1>1, PlayingIsOpen DEF Open, IInv, TypeOK, SlotTypes, Playing, serverVars
<1>5. \A c \in writing' : c \in writing \/ (c \in Clients /\ conn[c] = "open")
  BY <1>4 DEF OtherStep, OnMessage, OnClientMsg, CheckFails, WriteDone, AcceptFails, QuestionHandler,
              TrackHandler, Respond, Broadcast, Send
<1>6. TypeOK' /\ WrittenBeforeClosed'
  BY <1>1, <1>2, <1>5 DEF IInv, TypeOK, WrittenBeforeClosed, serverVars
<1>7. \/ UNCHANGED <<horse, in_progress>>
      \/ horse' = [c \in Clients |-> c \in Playing \/ horse[c]]
  BY DEF OtherStep, OnMessage, OnClientMsg, CheckFails, WriteDone, AcceptFails, QuestionHandler, TrackHandler, AddPlayers, Starters, playerVars, gameVars
<1>8. IdsAndHorses'
  BY <1>1, <1>4, <1>7 DEF IInv, TypeOK, IdsAndHorses, serverVars
<1>9. HorselessCameLater'
  <2>1. CASE UNCHANGED <<horse, in_progress>>
    BY <1>1, <1>4, <2>1 DEF IInv, HorselessCameLater, serverVars
  <2>2. CASE horse' = [c \in Clients |-> c \in Playing \/ horse[c]]
    <3>1. \A c \in Playing : horse'[c]
      BY <1>4, <2>2
    <3> QED
      BY <1>4, <3>1 DEF HorselessCameLater
  <2> QED
    BY <1>7, <2>1, <2>2
<1> QED
  BY <1>6, <1>3, <1>8, <1>9 DEF IInv

\* Every step preserves the invariant.
THEOREM Inductive == RaceSpec => []IInv
<1>1. IInv /\ [RaceNext]_vars => IInv'
  <2> SUFFICES ASSUME IInv, [RaceNext]_vars PROVE IInv'
    OBVIOUS
  <2>1. CASE UNCHANGED vars
    BY <2>1 DEF vars, serverVars, playerVars, gameVars, IInv, TypeOK, Contiguous,
                WrittenBeforeClosed, TrackNotBelowSlot, HorselessCameLater, IdsAndHorses, Playing
  <2>2. ASSUME NEW c \in Clients, OnConnection(c) PROVE IInv'
    BY <2>2, OnConnectionIInv
  <2>3. ASSUME NEW c \in Clients, ReadEof(c) PROVE IInv'
    BY <2>3, ReadEofIInv
  <2>4. ASSUME NEW c \in Clients, Refuse(c) \/ ShutdownDone(c) \/ Closed(c) PROVE IInv'
    BY <2>4, HandleStepIInv
  <2>5. CASE (\E c \in Clients : OtherStep(c)) \/ QuestionHandler \/ TrackHandler
    BY <2>5, GameStepIInv
  <2> QED
    BY <2>1, <2>2, <2>3, <2>4, <2>5 DEF RaceNext, OtherStep
<1> QED
  BY <1>1, InitIInv, PTL DEF RaceSpec

-----------------------------------------------------------------------------
(* The properties *)

\* Every variable keeps its type.
THEOREM TypeCorrect == RaceSpec => []TypeOK
  BY Inductive, PTL DEF IInv

\* The table holds exactly the open connections, each in its slot
\* (onconnection, disconnect).
THEOREM TableContiguous == RaceSpec => []Contiguous
  BY Inductive, PTL DEF IInv

\* No handle is closed with a message pending, nor written to afterwards
\* (disconnect, luv_server_broadcast).
THEOREM WritesEndFirst == RaceSpec => []WrittenBeforeClosed
  BY Inductive, PTL DEF IInv

\* A player's track is a track of the game, not below its client's slot.
THEOREM TracksInRange == RaceSpec => []TrackNotBelowSlot
  BY Inductive, PTL DEF IInv

\* In a race only those that came after all others have no horse.
THEOREM LateComersHorseless == RaceSpec => []HorselessCameLater
  BY Inductive, PTL DEF IInv

=============================================================================
