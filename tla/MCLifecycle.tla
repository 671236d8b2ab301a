------------------------------ MODULE MCLifecycle ------------------------------
(* Small instances of Lifecycle for TLC. *)
EXTENDS Lifecycle

AllOrders == {o \in [1 .. 4 -> Modules] : {o[i] : i \in 1 .. 4} = Modules}

\* FourierTransform asks for the size of LiveAudio's packets.
AudioFirst ==
  {o \in AllOrders : \E i, j \in 1 .. 4 :
     i < j /\ o[i] = "LiveAudio" /\ o[j] = "FourierTransform"}

\* The orders in which the joins of the destructors suffice.
JoinedFirst ==
  {o \in AllOrders : \A i, j \in 1 .. 4 :
     \/ <<o[i], o[j]>> \notin {<<"LiveAudio", "Core">>,
                              <<"LiveAudio", "Visualization">>,
                              <<"Core", "FourierTransform">>}
     \/ i < j}
=============================================================================
