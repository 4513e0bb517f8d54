---------------------------- MODULE MCRaceServer ----------------------------
(***************************************************************************)
(* TLC instances of RaceServer: the program's two slots and one connection *)
(* more, so that clients are refused, moved to another slot and join a     *)
(* race late; a question stays for longer than the horses wait.            *)
(***************************************************************************)
EXTENDS RaceServer

\* Sanity conditions a reader may add as INVARIANTs to see that the situations
\* the properties are about are reached.
NeverMoved == \A c \in Clients : conn[c] = "open" => track[c] = slot[c]
NeverLate  == \A c \in Playing : in_progress => horse[c]

=============================================================================
