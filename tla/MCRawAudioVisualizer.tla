------------------------- MODULE MCRawAudioVisualizer -------------------------
(* Small instances of RawAudioVisualizer for TLC. *)
EXTENDS RawAudioVisualizer

EarlyOrLate == {-1, 2}
Lowest      == -9
=============================================================================
