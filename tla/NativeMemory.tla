---------------------------- MODULE NativeMemory ----------------------------
(***************************************************************************)
(* What those who hold memory that no garbage collector sees are promised  *)
(* about it, while calls to native code nest.                              *)
(*                                                                         *)
(* A block is allocated for a holder and from then on is that holder's     *)
(* alone.  Holders give back all they hold at once, each block one time:   *)
(* when they are closed, which no call in progress outlives, or when a     *)
(* call that runs for them finishes.  A block that nobody holds is not     *)
(* allocated, unless a failed allocation lost it.                          *)
(***************************************************************************)
EXTENDS Naturals, Sequences

CONSTANTS
    Holders,    \* those who may hold memory
    Blocks      \* what can be allocated, each once

VARIABLES
    open,       \* the holders that may be given memory
    held,       \* the blocks of each
    block,      \* each block: "unused", "live", "freed" or "lost"
    users       \* the holders for which calls are in progress, the innermost first

memoryVars == <<open, held, block, users>>

MemoryInit ==
    /\ open = {}
    /\ held = [h \in Holders |-> {}]
    /\ block = [b \in Blocks |-> "unused"]
    /\ users = <<>>

Unused == {b \in Blocks : block[b] = "unused"}

\* The blocks `back` of h are freed, and those of `new` become h's.
Exchange(h, back, new) ==
    /\ held' = [held EXCEPT ![h] = (@ \ back) \cup new]
    /\ block' = [b \in Blocks |-> IF b \in new THEN "live"
                                  ELSE IF b \in back THEN "freed" ELSE block[b]]

Open(h) ==
    /\ h \notin open
    /\ open' = open \cup {h}
    /\ UNCHANGED users
    /\ \E new \in SUBSET Unused : Exchange(h, {}, new)

Take(h) ==
    /\ h \in open
    /\ UNCHANGED <<open, users>>
    /\ \E new \in SUBSET Unused : Exchange(h, {}, new)

Close(h) ==
    /\ h \in open
    /\ \A i \in DOMAIN users : users[i] # h
    /\ open' = open \ {h}
    /\ UNCHANGED users
    /\ Exchange(h, held[h], {})

\* What a failed allocation leaves is nobody's.
Fail ==
    /\ UNCHANGED <<open, held, users>>
    /\ block' \in [Blocks -> {"unused", "live", "freed", "lost"}]
    /\ \A b \in Blocks : block'[b] # block[b] => block[b] = "unused" /\ block'[b] \in {"freed", "lost"}

\* A call for h begins, with blocks made for it.
Start(h) ==
    /\ h \in open
    /\ users' = <<h>> \o users
    /\ UNCHANGED open
    /\ \E new \in SUBSET Unused : Exchange(h, {}, new)

\* The innermost call ends.  If that frees anything then all that its holder
\* has, which goes for outer calls of the same holder, too.
Finish ==
    /\ users # <<>>
    /\ users' = Tail(users)
    /\ UNCHANGED open
    /\ \/ UNCHANGED <<held, block>>
       \/ \E new \in SUBSET Unused : Exchange(Head(users), held[Head(users)], new)

MemoryNext ==
    \/ \E h \in Holders : Open(h) \/ Take(h) \/ Close(h) \/ Start(h)
    \/ Fail
    \/ Finish

MemorySpec == MemoryInit /\ [][MemoryNext]_memoryVars

=============================================================================
