--------------------------- MODULE MCVisualization ---------------------------
(* Small instances of Visualization for TLC. *)
EXTENDS Visualization

CONSTANTS v1, v2    \* visualizers
=============================================================================
