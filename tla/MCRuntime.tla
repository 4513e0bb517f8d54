------------------------------ MODULE MCRuntime ------------------------------
(***************************************************************************)
(* TLC instances of Runtime.  Delay and MaxLag are in units of the         *)
(* runtime's fixed 1000 ms; what matters is that two timers can be due at  *)
(* the same reading, at different readings, and overdue.                   *)
(***************************************************************************)
EXTENDS Runtime

\* Sanity conditions a reader may add as INVARIANTs to see the model reach
\* the situations the properties are about.
NeverTwoFetchesAtOnce == Len(batch) < 2
NeverBlocksWithJobs ==
    ~(phase = "idle" /\ batch = <<>> /\ jobs # <<>> /\ \E n \in 1..Delay : BlocksFor(n))

=============================================================================
