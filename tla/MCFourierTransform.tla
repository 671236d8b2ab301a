-------------------------- MODULE MCFourierTransform --------------------------
(* Small instances of FourierTransform for TLC. *)
EXTENDS FourierTransform

CONSTANTS w1, w2    \* workers of the scheduler
=============================================================================
