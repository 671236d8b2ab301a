---------------------------- MODULE MCSourceTable ----------------------------
(* Small instances of SourceTable for TLC. *)
EXTENDS SourceTable

CONSTANTS t1, t2, t3

\* Two threads register, all three look up; the ids arrive out of order.
TwoRegister == [t \in Threads |->
                  IF t = t1 THEN {5, 1} ELSE IF t = t2 THEN {3} ELSE {}]
=============================================================================
