----------------------------- MODULE MCLiveAudio -----------------------------
(* Small instances of LiveAudio for TLC. *)
EXTENDS LiveAudio

\* Latencies are reported wrong by more than a packet lasts, either way.
LateOrEarly == {-300, 300}
=============================================================================
