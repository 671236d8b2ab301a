----------------------------- MODULE MCScheduler -----------------------------
(* Small instances of Scheduler for TLC. *)
EXTENDS Scheduler, TLC

CONSTANTS w1, w2,       \* worker threads
          c1,           \* a client thread
          s1, s2,       \* sources
          a, b, d, u    \* sinks

\* What each thread produces and configures.
Client1Produces  == [t \in Threads |-> IF t = c1 THEN {s1} ELSE {}]
WorkersPassOn    == [t \in Threads |-> IF t = c1 THEN {s1}
                                       ELSE IF t \in Workers THEN {s2} ELSE {}]
UISubscribes     == [t \in Threads |-> IF t = UI THEN Sinks ELSE {}]
EverybodySubscribes == [t \in Threads |-> Sinks]

\* Sink d is the one that listens to the second source.
DOnSecond == [k \in Sinks |-> IF k = d THEN s2 ELSE s1]

One         == [s \in Sources |-> <<1>>]
TwoInOrder  == [s \in Sources |-> <<1, 2>>]
Twice       == [s \in Sources |-> <<1, 1>>]

WorkersAlike == Permutations(Workers)
=============================================================================
