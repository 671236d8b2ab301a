------------------------------ MODULE LiveAudio ------------------------------
(***************************************************************************)
(* The audio input of zamt (liveaudio_pulse/src/LiveAudio.cpp): a thread   *)
(* runs PulseAudio's main loop, whose callbacks open a recording stream    *)
(* and hand over fragments of any size; ProcessFragment cuts them into     *)
(* packets of one size, labels each with the time of its first sample and  *)
(* submits it to the scheduler.                                            *)
(*                                                                         *)
(* Callbacks run on the audio thread, one after the other; between any two *)
(* steps other threads may start or stop it and sinks release packets.  A  *)
(* sample is its position in the stream and what the packet holds for it.  *)
(* A null packet is dropped with the rest of its fragment, as in a Release *)
(* build; in a Debug build the program aborts there (NeverOverruns).       *)
(***************************************************************************)
EXTENDS Integers, Sequences, FiniteSets

CONSTANTS Devices,          \* of "default", "selected" and "list"
          Latency,          \* requested_overall_latency_, in samples
          MaxLatency,       \* samples of the largest hardware buffer
          Second,           \* microseconds in a second
          Rate,             \* sample_rate_
          Scale,            \* 1 << kUSecPerSampleShift
          Epoch,            \* time of the first sample
          Errors,           \* errors of the latencies reported
          MaxFragment,      \* bounds the samples of a fragment
          MaxSamples,       \* bounds the samples of the stream
          HolesCross,       \* holes may reach into the next packet
          QuitsEarly        \* quit before Initialize has returned

\* The largest power of two up to half of the latency.
Sizes == {2 ^ k : k \in 0 .. 16}
submit_buffer_size ==
  CHOOSE n \in Sizes : /\ n <= Latency \div 2
                       /\ \A m \in Sizes : m <= Latency \div 2 => m <= n
queue_capacity == MaxLatency \div submit_buffer_size + 1

usec_per_sample_shl == (Second * Scale) \div Rate
Usec(samples)       == (samples * usec_per_sample_shl) \div Scale

ASSUME LiveAudioAssumption ==
  /\ Devices \subseteq {"default", "selected", "list"}
  /\ Latency \in Nat /\ Latency >= 2
  /\ MaxLatency \in Nat
  /\ Second \in Nat \ {0} /\ Rate \in Nat \ {0} /\ Rate <= Second
  /\ Scale \in Nat \ {0}
  /\ Epoch \in Nat /\ Errors \subseteq Int
  /\ \A e \in Errors : Epoch + e > Second
  /\ MaxFragment \in Nat /\ MaxSamples \in Nat
  /\ HolesCross \in BOOLEAN /\ QuitsEarly \in BOOLEAN

VARIABLES
  selected_device,     \* of Devices
  context, stream,     \* their states
  infos,               \* a source info operation: none, pending, done
  streams,             \* streams opened so far
  opened,              \* HadNormalOpen()
  audio_loop,          \* the pointer to the thread is assigned
  should_run,          \* audio_loop_should_run_
  told,                \* Shutdown was called
  quit,                \* this module has called Core::Quit
  pc,                  \* where the audio thread is
  fragment,            \* positions of the samples still to be cut
  data,                \* what buffer points to
  buffer_timestamp, last_timestamp,
  sample_buffer,       \* its sample_buffer_filled_ first samples
  in_use,              \* packets acquired and not released by all sinks
  received,            \* samples of the stream so far
  holes, lost,         \* positions of silence, of samples dropped
  recorded             \* the samples of all packets submitted

openVars  == <<selected_device, context, stream, infos, streams, opened>>
loopVars  == <<audio_loop, should_run, told, quit>>
cutVars   == <<fragment, data, buffer_timestamp, last_timestamp, sample_buffer>>
soundVars == <<received, holes, lost, recorded>>
vars == <<openVars, loopVars, pc, cutVars, in_use, soundVars>>

\* Initialize has registered with Core and the scheduler.
Init ==
  /\ selected_device \in Devices
  /\ context = "connecting" /\ stream = "none" /\ infos = "none"
  /\ streams = 0
  /\ opened = FALSE
  /\ audio_loop = FALSE /\ should_run = TRUE /\ told = FALSE /\ quit = FALSE
  /\ pc = "new"
  /\ fragment = <<>> /\ data = "sound"
  /\ buffer_timestamp = 0 /\ last_timestamp = 0
  /\ sample_buffer = <<>>
  /\ in_use = 0
  /\ received = 0 /\ holes = {} /\ lost = {} /\ recorded = <<>>

-----------------------------------------------------------------------------
(* Starting and stopping.                                                  *)

\* The thread may run before its pointer is assigned.
Initialize_Launch ==
  /\ pc = "new"
  /\ pc' = "loop"
  /\ UNCHANGED <<openVars, loopVars, cutVars, in_use, soundVars>>

Initialize_Assign ==
  /\ pc # "new"
  /\ ~audio_loop
  /\ audio_loop' = TRUE
  /\ UNCHANGED <<openVars, should_run, told, quit, pc, cutVars, in_use,
                 soundVars>>

\* The quit callback.
Shutdown ==
  /\ ~told
  /\ QuitsEarly \/ audio_loop
  /\ told' = TRUE
  /\ should_run' = (should_run /\ ~audio_loop)
  /\ UNCHANGED <<openVars, audio_loop, quit, pc, cutVars, in_use, soundVars>>

BugKeepsRunning == should_run /\ ~audio_loop
StopsRunning    == FALSE

\* The loop is told to stop, then Core::Quit calls Shutdown on this thread.
GiveUp ==
  /\ should_run' = StopsRunning
  /\ quit' = TRUE /\ told' = TRUE
  /\ UNCHANGED audio_loop

\* Disconnecting a stream and a context that were not yet open calls their
\* callbacks, which take it for a failure.
RunMainLoop_End ==
  /\ pc = "loop"
  /\ ~should_run
  /\ pc' = "ended"
  /\ context' = "TERMINATED"
  /\ IF ~opened /\ context # "FAILED" THEN GiveUp ELSE UNCHANGED loopVars
  /\ UNCHANGED <<selected_device, stream, infos, streams, opened, cutVars,
                 in_use, soundVars>>

-----------------------------------------------------------------------------
(* PulseAudio opens a context, tells about its sources, opens a stream.    *)

\* A failure after a normal opening is ignored.
Context_Fails ==
  /\ pc = "loop"
  /\ context \in {"connecting", "READY"}
  /\ context' = "FAILED"
  /\ IF opened THEN UNCHANGED loopVars ELSE GiveUp
  /\ UNCHANGED <<selected_device, stream, infos, streams, opened, pc, cutVars,
                 in_use, soundVars>>

OpenStream == stream' = "opening" /\ streams' = streams + 1

Context_Ready ==
  /\ pc = "loop"
  /\ context = "connecting"
  /\ context' = "READY"
  /\ opened' = (selected_device = "list")
  /\ IF selected_device = "default"
       THEN OpenStream /\ UNCHANGED infos
       ELSE infos' = "pending" /\ UNCHANGED <<stream, streams>>
  /\ UNCHANGED <<selected_device, loopVars, pc, cutVars, in_use, soundVars>>

BugOpensAgain == TRUE
NotOpenedYet  == streams = 0

\* Once for the source that was asked for, if it exists, and once at the end.
source_info_callback(eol) ==
  /\ pc = "loop"
  /\ context = "READY" /\ infos = "pending"
  /\ infos' = IF eol THEN "done" ELSE "pending"
  /\ IF selected_device # "list" /\ NotOpenedYet
       THEN OpenStream
       ELSE UNCHANGED <<stream, streams>>
  /\ IF selected_device = "list" /\ eol THEN GiveUp ELSE UNCHANGED loopVars
  /\ UNCHANGED <<selected_device, context, opened, pc, cutVars, in_use,
                 soundVars>>

Stream_Ready ==
  /\ pc = "loop"
  /\ context = "READY" /\ stream = "opening"
  /\ stream' = "READY"
  /\ opened' = TRUE
  /\ UNCHANGED <<selected_device, context, infos, streams, loopVars, pc,
                 cutVars, in_use, soundVars>>

Stream_Fails ==
  /\ pc = "loop"
  /\ context = "READY" /\ stream \in {"opening", "READY"}
  /\ stream' = "FAILED"
  /\ IF opened THEN UNCHANGED loopVars ELSE GiveUp
  /\ UNCHANGED <<selected_device, context, infos, streams, opened, pc, cutVars,
                 in_use, soundVars>>

-----------------------------------------------------------------------------
(* Fragments.                                                              *)

FreeLeft == submit_buffer_size - Len(sample_buffer)

\* When the sample at a position was captured, rounded down.
Captured(at) == Epoch + ((at - 1) * Second) \div Rate

\* A hole comes as a null buffer.  Current time minus latency is the time its
\* first sample was captured, but for an error.
ProcessFragment(n, hole) ==
  /\ pc = "loop"
  /\ stream = "READY"
  /\ received + n <= MaxSamples
  /\ hole /\ ~HolesCross => n <= FreeLeft
  /\ should_run
  /\ received' = received + n
  /\ fragment' = [i \in 1 .. n |-> received + i]
  /\ data' = IF hole THEN "silence" ELSE "sound"
  /\ holes' = IF hole THEN holes \cup (received + 1 .. received + n) ELSE holes
  /\ \E e \in Errors : buffer_timestamp' = Captured(received + 1) + e
  /\ pc' = "cut"
  /\ UNCHANGED <<openVars, loopVars, last_timestamp, sample_buffer, in_use, lost,
                 recorded>>

FillsPacket == Len(fragment) >= FreeLeft

Copied(seq) == [i \in DOMAIN seq |-> [at |-> seq[i], value |-> data]]

\* What is left does not fill a packet.
KeepRest ==
  /\ pc = "cut"
  /\ ~FillsPacket
  /\ sample_buffer' = sample_buffer \o Copied(fragment)
  /\ fragment' = <<>>
  /\ pc' = "loop"
  /\ UNCHANGED <<openVars, loopVars, data, buffer_timestamp, last_timestamp,
                 in_use, soundVars>>

BugNeverNull == FALSE
Exhausted    == in_use = queue_capacity

\* No packet is free: the rest of the fragment is dropped.
Overrun ==
  /\ pc = "cut"
  /\ FillsPacket
  /\ Exhausted
  /\ lost' = lost \cup {fragment[i] : i \in DOMAIN fragment}
  /\ fragment' = <<>>
  /\ pc' = "loop"
  /\ UNCHANGED <<openVars, loopVars, data, buffer_timestamp, last_timestamp,
                 sample_buffer, in_use, received, holes, recorded>>

GetPacket ==
  /\ pc = "cut"
  /\ FillsPacket
  /\ ~Exhausted
  /\ in_use' = in_use + 1
  /\ pc' = "submit"
  /\ UNCHANGED <<openVars, loopVars, cutVars, soundVars>>

\* buffer advances even if it is null; then it points nowhere.
BugNotAdvanced(n) == SubSeq(fragment, 1, Len(fragment) - n)
Rest(n)           == SubSeq(fragment, n + 1, Len(fragment))
Advanced          == IF data = "silence" THEN "garbage" ELSE data

BugNoTimePasses(n) == 0
TimeOf(n)          == Usec(n)

Later(timestamp) ==
  IF timestamp <= last_timestamp THEN last_timestamp + 1 ELSE timestamp

SubmitPacket ==
  /\ pc = "submit"
  /\ recorded' = recorded \o sample_buffer
                   \o Copied(SubSeq(fragment, 1, FreeLeft))
  /\ last_timestamp' = Later(buffer_timestamp - Usec(Len(sample_buffer)))
  /\ buffer_timestamp' = buffer_timestamp + TimeOf(FreeLeft)
  /\ fragment' = Rest(FreeLeft)
  /\ data' = Advanced
  /\ sample_buffer' = <<>>
  /\ pc' = IF Len(fragment) = FreeLeft THEN "loop" ELSE "cut"
  /\ UNCHANGED <<openVars, loopVars, in_use, received, holes, lost>>

\* The last sink of a packet releases it, or there is none.
PacketReleased ==
  /\ in_use > (IF pc = "submit" THEN 1 ELSE 0)
  /\ in_use' = in_use - 1
  /\ UNCHANGED <<openVars, loopVars, pc, cutVars, soundVars>>

-----------------------------------------------------------------------------

Cut == KeepRest \/ Overrun \/ GetPacket \/ SubmitPacket

Next ==
  \/ Initialize_Launch \/ Initialize_Assign \/ Shutdown
  \/ Context_Fails \/ Context_Ready \/ Stream_Ready \/ Stream_Fails
  \/ \E eol \in BOOLEAN : source_info_callback(eol)
  \/ \E n \in 1 .. MaxFragment, hole \in BOOLEAN : ProcessFragment(n, hole)
  \/ Cut \/ PacketReleased
  \/ RunMainLoop_End

Spec == Init /\ [][Next]_vars

\* The main thread and the audio thread go on; the main loop returns from
\* every poll, since it gives up waiting after a while.
Fairness ==
  /\ WF_vars(Initialize_Launch) /\ WF_vars(Initialize_Assign)
  /\ WF_vars(Cut) /\ WF_vars(RunMainLoop_End)

FairSpec == Spec /\ Fairness

-----------------------------------------------------------------------------
(* Properties.                                                             *)

Values == {"sound", "silence", "garbage"}
Sample == [at : 1 .. MaxSamples, value : Values]

\* The variables stay in their ranges: among them, no more packets are in use
\* than the pool has, the buffer of samples is never full between two iterations
\* (lines 339-340, 416), and no second stream is opened while callbacks check that
\* theirs is the stream (lines 96, 134).
TypeOK ==
  /\ selected_device \in Devices
  /\ context \in {"connecting", "READY", "FAILED", "TERMINATED"}
  /\ stream \in {"none", "opening", "READY", "FAILED"}
  /\ infos \in {"none", "pending", "done"}
  /\ streams \in 0 .. 1
  /\ opened \in BOOLEAN /\ audio_loop \in BOOLEAN /\ should_run \in BOOLEAN
  /\ told \in BOOLEAN /\ quit \in BOOLEAN
  /\ pc \in {"new", "loop", "cut", "submit", "ended"}
  /\ fragment \in Seq(1 .. MaxSamples)
  /\ data \in Values
  /\ buffer_timestamp \in Nat /\ last_timestamp \in Nat
  /\ sample_buffer \in Seq(Sample) /\ Len(sample_buffer) < submit_buffer_size
  /\ in_use \in 0 .. queue_capacity
  /\ received \in 0 .. MaxSamples
  /\ holes \subseteq 1 .. MaxSamples /\ lost \subseteq 1 .. MaxSamples
  /\ recorded \in Seq(Sample)

\* Recording is skipless (LiveAudio.h:8): however fragments and packets overlap,
\* what was submitted, what waits in the buffer and what is still to be cut are
\* all samples received and not dropped, once, in order, with holes as silence.
Skipless ==
  LET kept == recorded \o sample_buffer \o Copied(fragment)
  IN /\ \A i \in 1 .. Len(kept) - 1 : kept[i].at < kept[i + 1].at
     /\ {kept[i].at : i \in DOMAIN kept} = (1 .. received) \ lost
     /\ \A i \in DOMAIN kept :
          kept[i].value = IF kept[i].at \in holes THEN "silence" ELSE "sound"

\* How far a timestamp may be off: the error of one latency, and what rounding
\* adds per packet of a fragment.
Rounding == (MaxFragment \div submit_buffer_size + 1)
              * (2 + submit_buffer_size \div Scale)
Within(a, b, Bounds) ==
  /\ \E e \in Bounds : a <= b + e + Rounding
  /\ \E e \in Bounds : a >= b + e - Rounding

\* The scheduler serves packets in the order of their timestamps.  Each packet's
\* is later than the one before and yet, counted back from the packet's last
\* sample, no further off than some latency was: neither cutting nor keeping
\* the order makes errors add up, whatever the latency does and data is lost.
TimestampsAccurate ==
  [][recorded' # recorded =>
       /\ last_timestamp' > last_timestamp
       /\ Within(last_timestamp',
                 Captured(recorded'[Len(recorded')].at - submit_buffer_size + 1),
                 Errors)]_vars

\* Whoever quits, and whenever opening fails, the audio thread ends, so that the
\* destructor returns.
LoopEnds == (told \/ quit) ~> (pc = "ended")

\* There is always a packet to fill (line 367), which sinks that are slow refute.
NeverOverruns == pc = "cut" /\ FillsPacket => ~Exhausted
=============================================================================
