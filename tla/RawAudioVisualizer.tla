-------------------------- MODULE RawAudioVisualizer --------------------------
(***************************************************************************)
(* The visualizer of live audio (liveaudio_pulse/src/                      *)
(* RawAudioVisualizer.cpp).  For each packet the audio thread calls Show,  *)
(* which adds to the statistics, writes the samples into a ring buffer and *)
(* asks for a render callback; that is Draw, on the rendering thread,      *)
(* which copies the ring and takes the statistics.  Ring and statistics    *)
(* have a spin lock each.                                                  *)
(*                                                                         *)
(* A sample is its position in the stream, 0 is the silence the ring       *)
(* starts with.  The window is what Visualization promises: the last query *)
(* is rendered once, later.                                                *)
(***************************************************************************)
EXTENDS Integers, Sequences, FiniteSetsExt

CONSTANTS BufferSize,   \* kVisualizationBufferSize: 512
          PacketSizes,  \* samples of a packet, the same for all packets
          Latencies,    \* latencies of packets
          NoMin, NoMax, \* of no latency: 99999999 and -99999999
          MaxPackets    \* bounds the packets

ASSUME VisualizerAssumption ==
  /\ BufferSize \in Nat \ {0} /\ PacketSizes \subseteq Nat \ {0}
  /\ MaxPackets \in Nat
  /\ NoMin \in Int /\ NoMax \in Int
  /\ Latencies \subseteq {x \in Int : NoMax < x /\ x < NoMin}

VARIABLES
  stereo_samples,    \* of PacketSizes
  audio,             \* where the audio thread is
  shown,             \* samples of all packets up to the current one
  written,           \* samples written into the ring so far
  buffer, buffer_position, buffer_mutex,
  statistics,        \* min, max and sum of latencies, buffers, samples
  statistics_mutex,
  queried,           \* a render callback is asked for
  gtk,               \* where the rendering thread is
  image,             \* Draw's copy of the ring, so far
  drawn,             \* the last sample of the last picture drawn
  latencies,         \* those counted since the statistics were taken
  taken              \* samples in all statistics taken

ringVars  == <<written, buffer, buffer_position, buffer_mutex>>
statVars  == <<statistics, statistics_mutex, latencies, taken>>
audioVars == <<audio, shown>>
drawVars  == <<gtk, image, drawn>>
vars == <<stereo_samples, audioVars, ringVars, statVars, queried, drawVars>>

Cleared ==
  [min |-> NoMin, max |-> NoMax, sum |-> 0, buffers |-> 0, samples |-> 0]

Init ==
  /\ stereo_samples \in PacketSizes
  /\ audio = "idle" /\ shown = 0
  /\ written = 0
  /\ buffer = [i \in 0 .. BufferSize - 1 |-> 0] /\ buffer_position = 0
  /\ buffer_mutex = "free"
  /\ statistics = Cleared /\ statistics_mutex = "free"
  /\ queried = FALSE
  /\ gtk = "idle" /\ image = <<>> /\ drawn = 0
  /\ latencies = <<>> /\ taken = 0

-----------------------------------------------------------------------------
(* The audio thread.                                                       *)

BugQueriesFirst == <<"idle", "query", "count", "sum", "lock", "write">>
ShowSteps       == <<"idle", "count", "sum", "lock", "write", "query">>

\* The audio thread goes from this step of Show to the next one.
Audio(l) ==
  /\ audio = l
  /\ \E i \in DOMAIN ShowSteps :
       /\ ShowSteps[i] = l
       /\ audio' = ShowSteps[(i % Len(ShowSteps)) + 1]
  /\ UNCHANGED <<stereo_samples, drawVars>>

Show ==
  /\ Audio("idle")
  /\ shown < MaxPackets * stereo_samples
  /\ shown' = shown + stereo_samples
  /\ UNCHANGED <<ringVars, statVars, queried>>

BugNoLock      == TRUE
StatisticsFree == statistics_mutex = "free"

UpdateStatistics_Latency ==
  /\ Audio("count")
  /\ StatisticsFree
  /\ statistics_mutex' = "audio"
  /\ \E latency \in Latencies :
       /\ statistics' = [statistics EXCEPT
            !.buffers = @ + 1, !.sum = @ + latency,
            !.min = Min({@, latency}), !.max = Max({@, latency})]
       /\ latencies' = Append(latencies, latency)
  /\ UNCHANGED <<shown, ringVars, taken, queried>>

UpdateStatistics_Samples ==
  /\ Audio("sum")
  /\ statistics' = [statistics EXCEPT !.samples = @ + stereo_samples]
  /\ statistics_mutex' = "free"
  /\ UNCHANGED <<shown, ringVars, latencies, taken, queried>>

BufferFree == buffer_mutex = "free"

UpdateBuffer_Lock ==
  /\ Audio("lock")
  /\ BufferFree
  /\ buffer_mutex' = "audio"
  /\ UNCHANGED <<shown, written, buffer, buffer_position, statVars, queried>>

BugOffByOne(position) == IF position > BufferSize THEN 0 ELSE position
Wrapped(position)     == IF position >= BufferSize THEN 0 ELSE position

UpdateBuffer_Sample ==
  /\ buffer' = [buffer EXCEPT ![buffer_position] = written + 1]
  /\ buffer_position' = Wrapped(buffer_position + 1)
  /\ written' = written + 1
  /\ IF written + 1 = shown
       THEN Audio("write") /\ buffer_mutex' = "free"
       ELSE /\ audio = "write"
            /\ UNCHANGED <<stereo_samples, drawVars, audio, buffer_mutex>>
  /\ UNCHANGED <<shown, statVars, queried>>

QueryRender ==
  /\ Audio("query")
  /\ queried' = TRUE
  /\ UNCHANGED <<shown, ringVars, statVars>>

-----------------------------------------------------------------------------
(* The rendering thread.                                                   *)

BugClearsFirst == <<"idle", "latency", "samples", "lock", "copy", "draw">>
DrawSteps      == <<"idle", "lock", "copy", "latency", "samples", "draw">>

Gtk(l) ==
  /\ gtk = l
  /\ \E i \in DOMAIN DrawSteps :
       /\ DrawSteps[i] = l
       /\ gtk' = DrawSteps[(i % Len(DrawSteps)) + 1]
  /\ UNCHANGED <<stereo_samples, audioVars, written, buffer, buffer_position>>

OnDraw ==
  /\ Gtk("idle")
  /\ queried
  /\ queried' = FALSE
  /\ UNCHANGED <<buffer_mutex, statVars, image, drawn>>

Draw_Lock ==
  /\ Gtk("lock")
  /\ BufferFree
  /\ buffer_mutex' = "gtk"
  /\ image' = <<>>
  /\ UNCHANGED <<statVars, queried, drawn>>

\* The ring is read from its oldest sample on.
Draw_Sample ==
  /\ image' = Append(image, buffer[(buffer_position + Len(image)) % BufferSize])
  /\ IF Len(image') = BufferSize
       THEN Gtk("copy") /\ buffer_mutex' = "free"
       ELSE /\ gtk = "copy"
            /\ UNCHANGED <<stereo_samples, audioVars, ringVars, gtk>>
  /\ UNCHANGED <<statVars, queried, drawn>>

ClearStatistics_Latency ==
  /\ Gtk("latency")
  /\ StatisticsFree
  /\ statistics_mutex' = "gtk"
  /\ statistics' = [Cleared EXCEPT !.samples = statistics.samples]
  /\ latencies' = <<>>
  /\ UNCHANGED <<buffer_mutex, taken, queried, image, drawn>>

ClearStatistics_Samples ==
  /\ Gtk("samples")
  /\ taken' = taken + statistics.samples
  /\ statistics' = [statistics EXCEPT !.samples = 0]
  /\ statistics_mutex' = "free"
  /\ UNCHANGED <<buffer_mutex, latencies, queried, image, drawn>>

Draw ==
  /\ Gtk("draw")
  /\ drawn' = image[BufferSize]
  /\ UNCHANGED <<buffer_mutex, statVars, queried, image>>

-----------------------------------------------------------------------------

Update == \/ UpdateStatistics_Latency \/ UpdateStatistics_Samples
          \/ UpdateBuffer_Lock \/ UpdateBuffer_Sample \/ QueryRender

Render == \/ OnDraw \/ Draw_Lock \/ Draw_Sample \/ ClearStatistics_Latency
          \/ ClearStatistics_Samples \/ Draw

Next == Show \/ Update \/ Render

Spec == Init /\ [][Next]_vars

\* Both threads go on; a spin lock that is free again and again is had, and the
\* query is rendered (Visualization!QueriesRendered).
FairSpec == Spec /\ SF_vars(Update) /\ SF_vars(Render)

-----------------------------------------------------------------------------
(* Properties.                                                             *)

Positions == 0 .. MaxPackets * stereo_samples

\* The variables stay in their ranges: among them, the position in the ring.
TypeOK ==
  /\ stereo_samples \in PacketSizes
  /\ audio \in {ShowSteps[i] : i \in DOMAIN ShowSteps}
  /\ gtk \in {DrawSteps[i] : i \in DOMAIN DrawSteps}
  /\ shown \in Positions /\ written \in Positions /\ drawn \in Positions
  /\ taken \in Positions
  /\ buffer \in [0 .. BufferSize - 1 -> Positions]
  /\ buffer_position \in 0 .. BufferSize - 1
  /\ buffer_mutex \in {"free", "audio", "gtk"}
  /\ statistics_mutex \in {"free", "audio", "gtk"}
  /\ statistics \in [min : Int, max : Int, sum : Int,
                     buffers : Nat, samples : Nat]
  /\ queried \in BOOLEAN
  /\ image \in Seq(Positions) /\ Len(image) <= BufferSize
  /\ latencies \in Seq(Latencies)

Newest(n) == [i \in 1 .. BufferSize |-> Max({0, n - BufferSize + i})]

\* A picture is of one moment between two packets: the newest samples in their
\* order, without a gap or a part of a packet, although the audio thread writes
\* them one by one and packets may be larger than the ring.
PictureUntorn ==
  Len(image) = BufferSize =>
    /\ image = Newest(image[BufferSize])
    /\ image[BufferSize] % stereo_samples = 0

\* Whenever nobody is at the statistics, they are those of exactly the packets
\* shown since they were taken last, and each sample is in one of them: none is
\* counted twice or lost when Draw resets what Show adds to.
StatisticsExact ==
  statistics_mutex = "free" =>
    /\ statistics.buffers = Len(latencies)
    /\ statistics.min = Min(Range(latencies) \cup {NoMin})
    /\ statistics.max = Max(Range(latencies) \cup {NoMax})
    /\ statistics.sum = FoldFunction(+, 0, latencies)
    /\ statistics.samples = statistics.buffers * stereo_samples
    /\ taken + statistics.samples =
         IF audio = "count" THEN shown - stereo_samples ELSE shown

\* The numbers drawn with a picture include all samples of the picture, here or
\* in an earlier picture: Show counts before it writes, Draw copies before it
\* takes the statistics.
PictureCounted == gtk = "draw" => image[BufferSize] <= taken

\* Every sample is drawn, or a later one instead: the last picture is not left
\* with an old ring when the audio pauses.
NewestDrawn ==
  \A n \in 1 .. MaxPackets * Max(PacketSizes) : shown = n ~> drawn >= n
=============================================================================
