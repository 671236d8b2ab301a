--------------------------- MODULE LiveAudioProofs ---------------------------
(***************************************************************************)
(* The audio input, for every latency, sample rate, clock, size of the     *)
(* fragments and errors of the latencies reported.                         *)
(*                                                                         *)
(* Where the fragment is while it is cut (CutInv) gives the ranges and the *)
(* assertions.  That no sample is skipped follows from the order of what   *)
(* was kept (OrderInv) and from where holes end (ValueInv).  Timestamps    *)
(* rest on how far the fragment's timestamp has been taken back (DriftInv) *)
(* and on how late the last packet's is (LastInv), both by the lemmas on   *)
(* rounding that come first.                                               *)
(***************************************************************************)
EXTENDS LiveAudio, SequenceTheorems, TLAPS

\* What division rounds off, and that it rounds down.
LEMMA Division ==
  ASSUME NEW a \in Int, NEW b \in Nat \ {0}
  PROVE  /\ a \div b \in Int
         /\ b * (a \div b) <= a
         /\ a < b * (a \div b) + b
OBVIOUS

LEMMA DivisionNat ==
  ASSUME NEW a \in Nat, NEW b \in Nat \ {0}
  PROVE  a \div b \in Nat
<1>1. a < b * ((a \div b) + 1) /\ a \div b \in Int
  BY Division
<1>2. ASSUME (a \div b) + 1 <= 0 PROVE FALSE
  BY <1>1, <1>2
<1>3. QED  BY <1>1, <1>2

LEMMA SizeFits ==
  /\ submit_buffer_size \in Nat \ {0}
  /\ 2 * submit_buffer_size <= Latency
  /\ queue_capacity \in Nat
<1>1. Sizes = {1, 2, 4, 8, 16, 32, 64, 128, 256, 512, 1024, 2048, 4096, 8192,
               16384, 32768, 65536}
  BY DEF Sizes
<1>2. PICK h \in Nat : h = Latency \div 2 /\ h >= 1 /\ 2 * h <= Latency
  BY LiveAudioAssumption
<1>3. \E n \in Sizes : n <= h /\ \A m \in Sizes : m <= h => m <= n
  BY <1>1, <1>2
<1>4. submit_buffer_size \in Sizes /\ submit_buffer_size <= h
  BY <1>2, <1>3 DEF submit_buffer_size
<1>5. submit_buffer_size \in Nat \ {0}
  BY <1>1, <1>4
<1>6. MaxLatency \div submit_buffer_size \in Nat
  BY <1>5, DivisionNat, LiveAudioAssumption
<1>7. QED
  BY <1>2, <1>4, <1>5, <1>6, LiveAudioAssumption DEF queue_capacity

\* The sequence of the values of a function.
LEMMA FunctionSeq ==
  ASSUME NEW S, NEW n \in Nat, NEW f \in [1 .. n -> S]
  PROVE  f \in Seq(S) /\ Len(f) = n
OBVIOUS

LEMMA CopiedSeq ==
  ASSUME NEW S, NEW seq \in Seq(S), NEW T,
         \A i \in 1 .. Len(seq) : [at |-> seq[i], value |-> data] \in T
  PROVE  /\ Copied(seq) \in Seq(T)
         /\ Len(Copied(seq)) = Len(seq)
         /\ \A i \in 1 .. Len(seq) : Copied(seq)[i] = [at |-> seq[i], value |-> data]
<1>1. Len(seq) \in Nat /\ DOMAIN seq = 1 .. Len(seq)
  OBVIOUS
<1>2. Copied(seq) \in [1 .. Len(seq) -> T]
  BY <1>1 DEF Copied
<1>3. QED  BY <1>1, <1>2, FunctionSeq DEF Copied

-----------------------------------------------------------------------------
(* Time.                                                                   *)

LEMMA Products ==
  ASSUME NEW a \in Int, NEW b \in Int, NEW c \in Nat, a <= b
  PROVE  a * c <= b * c
OBVIOUS

LEMMA StrictProducts ==
  ASSUME NEW a \in Int, NEW b \in Int, NEW c \in Nat \ {0}, a < b
  PROVE  a * c < b * c
OBVIOUS

LEMMA DivisionMonotone ==
  ASSUME NEW a \in Int, NEW c \in Int, NEW b \in Nat \ {0}, a <= c
  PROVE  a \div b <= c \div b
<1>1. PICK p \in Int, q \in Int : p = a \div b /\ q = c \div b
  BY Division
<1>2. b * p <= a /\ c < b * q + b
  BY <1>1, Division
<1>3. ASSUME q + 1 <= p PROVE FALSE
  <2>1. (q + 1) * b <= p * b
    BY <1>3, Products
  <2>2. (q + 1) * b = b * q + b /\ p * b = b * p
    OBVIOUS
  <2>3. QED  BY <1>2, <2>1, <2>2
<1>4. QED  BY <1>1, <1>3

LEMMA TimeConstants ==
  /\ Second \in Nat \ {0} /\ Rate \in Nat \ {0} /\ Scale \in Nat \ {0}
  /\ Epoch \in Nat /\ Rate <= Second
BY LiveAudioAssumption

\* The fixed-point time of a sample is rounded down.
LEMMA UsecPerSample ==
  /\ usec_per_sample_shl \in Nat \ {0}
  /\ usec_per_sample_shl * Rate <= Second * Scale
  /\ Second * Scale < (usec_per_sample_shl + 1) * Rate
<1>1. Second * Scale \in Nat /\ Rate <= Second * Scale
  <2>1. 1 <= Scale /\ 1 * Second <= Scale * Second
    BY TimeConstants, Products
  <2>2. QED  BY <2>1, TimeConstants
<1>2. PICK s \in Nat : s = Second * Scale
  BY <1>1
<1>3. /\ s \div Rate \in Nat
      /\ Rate * (s \div Rate) <= s
      /\ s < Rate * (s \div Rate) + Rate
  BY Division, DivisionNat, TimeConstants
<1>4. PICK u \in Nat : u = usec_per_sample_shl /\ u = s \div Rate
  BY <1>2, <1>3 DEF usec_per_sample_shl
<1>5. /\ u * Rate <= s
      /\ s < (u + 1) * Rate
  BY <1>3, <1>4, TimeConstants
<1>6. u # 0
  BY <1>1, <1>2, <1>5, TimeConstants
<1>7. QED  BY <1>2, <1>4, <1>5, <1>6

LEMMA CapturedBounds ==
  ASSUME NEW at \in Int
  PROVE  /\ Captured(at) \in Int
         /\ Rate * (Captured(at) - Epoch) <= (at - 1) * Second
         /\ (at - 1) * Second < Rate * (Captured(at) - Epoch) + Rate
<1>1. PICK x \in Int : x = (at - 1) * Second
  BY TimeConstants
<1>2. PICK c \in Int : c = x \div Rate /\ Captured(at) = Epoch + c
  BY <1>1, Division, TimeConstants DEF Captured
<1>3. Rate * c <= x /\ x < Rate * c + Rate
  BY <1>2, Division, TimeConstants
<1>4. Captured(at) - Epoch = c
  BY <1>2, TimeConstants
<1>5. QED  BY <1>1, <1>2, <1>3, <1>4, TimeConstants

\* Samples are a microsecond apart at least.
LEMMA CapturedGrows ==
  ASSUME NEW a \in Int, NEW b \in Int, a < b
  PROVE  Captured(a) < Captured(b)
<1>1. PICK c \in Int : c = Captured(a) - Epoch
  BY CapturedBounds, TimeConstants
<1>2. PICK d \in Int : d = Captured(b) - Epoch
  BY CapturedBounds, TimeConstants
<1>3. Rate * c <= (a - 1) * Second
  BY <1>1, CapturedBounds
<1>4. (b - 1) * Second < Rate * d + Rate
  BY <1>2, CapturedBounds
<1>5. a * Second <= (b - 1) * Second
  BY Products, TimeConstants
<1>6. a * Second = (a - 1) * Second + Second
  BY TimeConstants
<1>7. Rate * c + Rate < Rate * d + Rate
  <2>1. PICK x \in Int, y \in Int, z \in Int :
          x = (a - 1) * Second /\ y = a * Second /\ z = (b - 1) * Second
    BY TimeConstants
  <2>2. PICK p \in Int, q \in Int : p = Rate * c /\ q = Rate * d
    BY TimeConstants
  <2>3. QED  BY <1>3, <1>4, <1>5, <1>6, <2>1, <2>2, TimeConstants
<1>8. c < d
  <2>1. ASSUME d <= c PROVE FALSE
    <3>1. d * Rate <= c * Rate
      BY <2>1, Products, TimeConstants
    <3>2. QED  BY <1>7, <3>1, TimeConstants
  <2>2. QED  BY <2>1
<1>9. QED  BY <1>1, <1>2, <1>8, CapturedBounds, TimeConstants

LEMMA CapturedFirst ==
  ASSUME NEW at \in Nat \ {0}
  PROVE  Captured(at) >= Epoch
<1>1. Captured(1) = Epoch
  <2>1. (1 - 1) * Second = 0 /\ 0 \div Rate = 0
    BY TimeConstants
  <2>2. QED  BY <2>1, TimeConstants DEF Captured
<1>2. CASE at = 1
  BY <1>1, <1>2, TimeConstants
<1>3. CASE 1 < at
  BY <1>1, <1>3, CapturedGrows, CapturedBounds, TimeConstants
<1>4. QED  BY <1>2, <1>3

\* How the time computed for samples falls behind their time: by less than a
\* microsecond for each rounding, and by one for every so many samples.
Lag(n) == 2 + n \div Scale

LEMMA LagNat ==
  ASSUME NEW n \in Nat
  PROVE  Lag(n) \in Nat
<1>1. n \div Scale \in Nat
  BY DivisionNat, TimeConstants
<1>2. QED  BY <1>1 DEF Lag

LEMMA UsecFalls ==
  ASSUME NEW n \in Nat, NEW a \in Int
  PROVE  /\ Usec(n) \in Nat
         /\ Usec(n) <= Captured(a + n) - Captured(a)
         /\ Captured(a + n) - Captured(a) <= Usec(n) + Lag(n)
<1>1. PICK u \in Nat \ {0} : u = usec_per_sample_shl
  BY UsecPerSample
<1>2. PICK x \in Nat : x = n * u
  BY <1>1
<1>3. PICK q \in Nat : q = Usec(n) /\ q = x \div Scale
  BY <1>1, <1>2, DivisionNat, TimeConstants DEF Usec
<1>4. Scale * q <= x /\ x < Scale * q + Scale
  BY <1>3, Division, TimeConstants
<1>5. PICK m \in Nat : m = n \div Scale /\ n < Scale * m + Scale /\ Lag(n) = 2 + m
  BY Division, DivisionNat, TimeConstants DEF Lag
<1>6. PICK c \in Int : c = Captured(a) - Epoch
  BY CapturedBounds, TimeConstants
<1>7. PICK d \in Int : d = Captured(a + n) - Epoch
  BY CapturedBounds, TimeConstants
<1>8. PICK y \in Int, z \in Int, t \in Int :
        y = (a - 1) * Second /\ z = (a + n - 1) * Second /\ t = n * Second
  BY TimeConstants
<1>9. z = y + t
  BY <1>8, TimeConstants
<1>10. Rate * c <= y /\ y < Rate * c + Rate
  BY <1>6, <1>8, CapturedBounds
<1>11. Rate * d <= z /\ z < Rate * d + Rate
  BY <1>7, <1>8, CapturedBounds
<1>12. /\ t < Rate * (d - c + 1)
       /\ Rate * (d - c - 1) < t
  <2>1. PICK p \in Int, r \in Int : p = Rate * c /\ r = Rate * d
    BY TimeConstants
  <2>2. /\ Rate * (d - c + 1) = r - p + Rate
        /\ Rate * (d - c - 1) = r - p - Rate
    BY <2>1, TimeConstants
  <2>3. QED  BY <1>9, <1>10, <1>11, <2>1, <2>2, TimeConstants
\* Both sides in units of the fixed point and of the rate.
<1>13. /\ x * Rate <= t * Scale
       /\ t * Scale <= x * Rate + n * Rate
  <2>1. PICK v \in Int, w \in Int : v = u * Rate /\ w = Second * Scale
    BY TimeConstants
  <2>2. v <= w /\ w <= v + Rate
    BY <1>1, <2>1, UsecPerSample, TimeConstants
  <2>3. v * n <= w * n /\ w * n <= (v + Rate) * n
    BY <2>1, <2>2, Products, TimeConstants
  <2>4. /\ v * n = x * Rate /\ w * n = t * Scale
        /\ (v + Rate) * n = v * n + n * Rate
    BY <1>2, <1>8, <2>1, TimeConstants
  <2>5. QED  BY <2>3, <2>4
<1>14. q <= d - c
  <2>1. ASSUME d - c + 1 <= q PROVE FALSE
    <3>1. (d - c + 1) * Rate <= q * Rate
      BY <2>1, Products, TimeConstants
    <3>2. t < q * Rate
      BY <1>12, <3>1, TimeConstants
    <3>3. t * Scale < (q * Rate) * Scale
      BY <3>2, StrictProducts, TimeConstants
    <3>4. (Scale * q) * Rate <= x * Rate
      BY <1>4, Products, TimeConstants
    <3>5. (q * Rate) * Scale = (Scale * q) * Rate
      BY TimeConstants
    <3>6. QED  BY <1>13, <3>3, <3>4, <3>5, TimeConstants
  <2>2. QED  BY <2>1
<1>15. d - c <= q + 2 + m
  <2>1. ASSUME q + 2 + m <= d - c - 1 PROVE FALSE
    <3>1. (q + 2 + m) * Rate <= (d - c - 1) * Rate
      BY <2>1, Products, TimeConstants
    <3>2. (q + 2 + m) * Rate < t
      BY <1>12, <3>1, TimeConstants
    <3>3. ((q + 2 + m) * Rate) * Scale < t * Scale
      BY <3>2, StrictProducts, TimeConstants
    <3>4. x + n < Scale * (q + 2 + m)
      <4>1. PICK f \in Int, g \in Int : f = Scale * q /\ g = Scale * m
        BY TimeConstants
      <4>2. Scale * (q + 2 + m) = f + g + Scale + Scale
        BY <4>1, TimeConstants
      <4>3. QED  BY <1>4, <1>5, <4>1, <4>2, TimeConstants
    <3>5. (x + n) * Rate <= (Scale * (q + 2 + m)) * Rate
      BY <3>4, Products, TimeConstants
    <3>6. /\ (Scale * (q + 2 + m)) * Rate = ((q + 2 + m) * Rate) * Scale
          /\ (x + n) * Rate = x * Rate + n * Rate
      BY TimeConstants
    <3>7. QED  BY <1>13, <3>3, <3>5, <3>6, TimeConstants
  <2>2. QED  BY <2>1
<1>16. QED  BY <1>3, <1>5, <1>6, <1>7, <1>14, <1>15, CapturedBounds, TimeConstants

LEMMA UsecNat ==
  ASSUME NEW n \in Nat
  PROVE  Usec(n) \in Nat
<1>1. 0 \in Int
  OBVIOUS
<1>2. QED  BY <1>1, UsecFalls

-----------------------------------------------------------------------------

Idle == {"new", "loop", "ended"}

\* Steps of the main thread, of PulseAudio and of sinks.
Control ==
  \/ Initialize_Launch \/ Initialize_Assign \/ Shutdown
  \/ Context_Fails \/ Context_Ready \/ Stream_Ready \/ Stream_Fails
  \/ \E eol \in BOOLEAN : source_info_callback(eol)
  \/ PacketReleased \/ RunMainLoop_End \/ UNCHANGED vars

LEMMA ControlMoves ==
  ASSUME Control
  PROVE  /\ UNCHANGED <<cutVars, soundVars>>
         /\ pc' = pc \/ (pc \in Idle /\ pc' \in Idle)
BY DEF Control, Initialize_Launch, Initialize_Assign, Shutdown, Context_Fails,
   Context_Ready, Stream_Ready, Stream_Fails, source_info_callback,
   PacketReleased, RunMainLoop_End, vars, Idle

\* Where a fragment is, while it is cut, and that a buffer is never full.
CutInv ==
  /\ Len(sample_buffer) < submit_buffer_size
  /\ pc \in Idle => fragment = <<>>
  /\ pc \in {"cut", "submit"} => fragment # <<>>
  /\ pc = "submit" => Len(fragment) >= FreeLeft
  /\ \A i \in 1 .. Len(fragment) : fragment[i] = received - Len(fragment) + i
  /\ Len(recorded) + Len(sample_buffer) + Len(fragment) <= received

\* A stream is opened when the context becomes ready, which it does once, or
\* when none was opened before.
StreamInv == context = "connecting" => streams = 0

LEMMA CutFacts ==
  ASSUME TypeOK, CutInv
  PROVE  /\ FreeLeft \in Nat \ {0} /\ FreeLeft <= submit_buffer_size
         /\ Len(fragment) \in Nat /\ Len(sample_buffer) \in Nat
         /\ Len(recorded) \in Nat
         /\ DOMAIN fragment = 1 .. Len(fragment)
BY SizeFits DEF TypeOK, CutInv, FreeLeft

LEMMA ReceivedStep ==
  ASSUME TypeOK, CutInv, NEW n \in 1 .. MaxFragment, NEW hole \in BOOLEAN,
         ProcessFragment(n, hole)
  PROVE  /\ n \in Nat /\ received \in Nat /\ received + n \in 0 .. MaxSamples
         /\ fragment' \in Seq(1 .. MaxSamples)
         /\ Len(fragment') = n
         /\ \A i \in 1 .. n : fragment'[i] = received + i
         /\ fragment = <<>>
<1>1. n \in Nat /\ received \in Nat /\ received + n \in 0 .. MaxSamples
  BY LiveAudioAssumption DEF ProcessFragment, TypeOK
<1>2. fragment' = [i \in 1 .. n |-> received + i]
  BY DEF ProcessFragment
<1>3. fragment' \in [1 .. n -> 1 .. MaxSamples]
  BY <1>1, <1>2, LiveAudioAssumption
<1>4. fragment = <<>>
  BY DEF CutInv, Idle, ProcessFragment
<1>5. QED  BY <1>1, <1>2, <1>3, <1>4, FunctionSeq

LEMMA KeepStep ==
  ASSUME TypeOK, CutInv, KeepRest
  PROVE  /\ Copied(fragment) \in Seq(Sample)
         /\ Len(Copied(fragment)) = Len(fragment)
         /\ sample_buffer' = sample_buffer \o Copied(fragment)
         /\ sample_buffer' \in Seq(Sample)
         /\ Len(sample_buffer') = Len(sample_buffer) + Len(fragment)
         /\ Len(fragment) < FreeLeft
<1>1. fragment \in Seq(1 .. MaxSamples) /\ data \in Values
  BY DEF TypeOK
<1>2. \A i \in 1 .. Len(fragment) : [at |-> fragment[i], value |-> data] \in Sample
  BY <1>1, ElementOfSeq DEF Sample
<1>3. /\ Copied(fragment) \in Seq(Sample)
      /\ Len(Copied(fragment)) = Len(fragment)
  BY <1>1, <1>2, CopiedSeq
<1>4. sample_buffer' = sample_buffer \o Copied(fragment)
  BY DEF KeepRest
<1>5. sample_buffer \in Seq(Sample)
  BY DEF TypeOK
<1>6. Len(fragment) < FreeLeft
  BY CutFacts DEF KeepRest, FillsPacket
<1>7. QED  BY <1>3, <1>4, <1>5, <1>6, ConcatProperties

\* The packet takes what was waiting and then the first samples of the fragment.
Taken == Copied(SubSeq(fragment, 1, FreeLeft))

LEMMA SubmitStep ==
  ASSUME TypeOK, CutInv, SubmitPacket
  PROVE  /\ Taken \in Seq(Sample) /\ Len(Taken) = FreeLeft
         /\ \A i \in 1 .. FreeLeft :
              Taken[i] = [at |-> fragment[i], value |-> data]
         /\ recorded \o sample_buffer \in Seq(Sample)
         /\ recorded' = (recorded \o sample_buffer) \o Taken
         /\ recorded' \in Seq(Sample)
         /\ Len(recorded') = Len(recorded) + submit_buffer_size
         /\ Len(fragment) >= FreeLeft
         /\ fragment' \in Seq(1 .. MaxSamples)
         /\ Len(fragment') = Len(fragment) - FreeLeft
         /\ \A i \in 1 .. Len(fragment') : fragment'[i] = fragment[FreeLeft + i]
<1>1. /\ fragment \in Seq(1 .. MaxSamples) /\ data \in Values
      /\ recorded \in Seq(Sample) /\ sample_buffer \in Seq(Sample)
  BY DEF TypeOK
<1>2. Len(fragment) >= FreeLeft
  BY DEF CutInv, SubmitPacket
<1>3. PICK k \in Nat : k = FreeLeft /\ k >= 1 /\ k <= Len(fragment)
  BY <1>2, CutFacts
<1>4. PICK head : head = SubSeq(fragment, 1, k)
  OBVIOUS
<1>5. /\ head \in Seq(1 .. MaxSamples) /\ Len(head) = k
      /\ \A i \in 1 .. k : head[i] = fragment[i]
  <2>1. \A i \in 1 .. k : i \in 1 .. Len(fragment)
    BY <1>1, <1>3
  <2>2. \A i \in 1 .. k : fragment[i] \in 1 .. MaxSamples
    BY <1>1, <2>1, ElementOfSeq
  <2>3. QED  BY <1>3, <1>4, <2>2, SubSeqProperties
<1>6. \A i \in 1 .. Len(head) : [at |-> head[i], value |-> data] \in Sample
  BY <1>1, <1>5, ElementOfSeq DEF Sample
<1>7. /\ Copied(head) \in Seq(Sample) /\ Len(Copied(head)) = k
      /\ \A i \in 1 .. k : Copied(head)[i] = [at |-> fragment[i], value |-> data]
  BY <1>5, <1>6, CopiedSeq
<1>8. Taken = Copied(head)
  BY <1>3, <1>4 DEF Taken
<1>9. recorded' = (recorded \o sample_buffer) \o Taken
  BY DEF SubmitPacket, Taken
<1>10. /\ recorded \o sample_buffer \in Seq(Sample)
       /\ Len(recorded \o sample_buffer) = Len(recorded) + Len(sample_buffer)
  BY <1>1, ConcatProperties
<1>11. /\ recorded' \in Seq(Sample)
       /\ Len(recorded') = Len(recorded) + Len(sample_buffer) + k
  <2>1. /\ recorded' \in Seq(Sample)
        /\ Len(recorded') = Len(recorded \o sample_buffer) + Len(Taken)
    BY <1>7, <1>8, <1>9, <1>10, ConcatProperties
  <2>2. QED  BY <1>7, <1>8, <1>10, <2>1
<1>12. Len(recorded') = Len(recorded) + submit_buffer_size
  BY <1>1, <1>3, <1>11, SizeFits DEF FreeLeft
<1>13. fragment' = SubSeq(fragment, k + 1, Len(fragment))
  BY <1>3 DEF SubmitPacket, Rest
<1>14. /\ fragment' \in Seq(1 .. MaxSamples)
       /\ Len(fragment') = Len(fragment) - k
       /\ \A i \in 1 .. Len(fragment') : fragment'[i] = fragment[k + i]
  <2>1. \A i \in k + 1 .. Len(fragment) : i \in 1 .. Len(fragment)
    BY <1>1, <1>3
  <2>2. \A i \in k + 1 .. Len(fragment) : fragment[i] \in 1 .. MaxSamples
    BY <1>1, <2>1, ElementOfSeq
  <2>3. Len(fragment) \in Nat
    BY <1>1
  <2>4. QED  BY <1>3, <1>13, <2>2, <2>3, SubSeqProperties
<1>15. QED
  BY <1>3, <1>7, <1>8, <1>9, <1>10, <1>11, <1>12, <1>14

-----------------------------------------------------------------------------

LEMMA ControlType ==
  ASSUME TypeOK, StreamInv, Control
  PROVE  TypeOK'
<1> USE DEF TypeOK
<1>1. UNCHANGED <<cutVars, soundVars>>
  BY ControlMoves
<1>2. /\ fragment' \in Seq(1 .. MaxSamples)
      /\ data' \in Values
      /\ buffer_timestamp' \in Nat /\ last_timestamp' \in Nat
      /\ sample_buffer' \in Seq(Sample)
      /\ Len(sample_buffer') < submit_buffer_size
      /\ received' \in 0 .. MaxSamples
      /\ holes' \subseteq 1 .. MaxSamples /\ lost' \subseteq 1 .. MaxSamples
      /\ recorded' \in Seq(Sample)
  BY <1>1 DEF cutVars, soundVars
<1>3. /\ selected_device' \in Devices
      /\ context' \in {"connecting", "READY", "FAILED", "TERMINATED"}
      /\ stream' \in {"none", "opening", "READY", "FAILED"}
      /\ infos' \in {"none", "pending", "done"}
      /\ streams' \in 0 .. 1
  BY DEF StreamInv, NotOpenedYet, Control, Initialize_Launch, Initialize_Assign, Shutdown, Context_Fails,
   Context_Ready, Stream_Ready, Stream_Fails, source_info_callback, OpenStream,
   PacketReleased, RunMainLoop_End, vars, openVars
<1>4. audio_loop' \in BOOLEAN /\ should_run' \in BOOLEAN
      /\ told' \in BOOLEAN /\ quit' \in BOOLEAN
  BY DEF Control, Initialize_Launch, Initialize_Assign, Shutdown, Context_Fails,
   Context_Ready, Stream_Ready, Stream_Fails, source_info_callback, GiveUp,
   PacketReleased, RunMainLoop_End, vars, loopVars, StopsRunning
<1>5. in_use' \in 0 .. queue_capacity
  BY SizeFits
  DEF Control, Initialize_Launch, Initialize_Assign, Shutdown, Context_Fails,
   Context_Ready, Stream_Ready, Stream_Fails, source_info_callback,
   PacketReleased, RunMainLoop_End, vars
<1>6. opened' \in BOOLEAN
  BY DEF Control, Initialize_Launch, Initialize_Assign, Shutdown, Context_Fails,
   Context_Ready, Stream_Ready, Stream_Fails, source_info_callback,
   PacketReleased, RunMainLoop_End, vars, openVars
<1>7. pc' \in {"new", "loop", "cut", "submit", "ended"}
  BY ControlMoves DEF Idle
<1>8. QED  BY <1>2, <1>3, <1>4, <1>5, <1>6, <1>7

LEMMA CutStep ==
  ASSUME TypeOK, CutInv, [Next]_vars
  PROVE  CutInv'
<1>0. /\ submit_buffer_size \in Nat \ {0} /\ received \in Nat
      /\ Len(fragment) \in Nat /\ Len(sample_buffer) \in Nat
      /\ Len(recorded) \in Nat
  BY SizeFits, CutFacts, LiveAudioAssumption DEF TypeOK
<1>1. CASE Control
  BY <1>1, ControlMoves DEF CutInv, cutVars, soundVars, Idle, FreeLeft
<1>2. ASSUME NEW n \in 1 .. MaxFragment, NEW hole \in BOOLEAN,
             ProcessFragment(n, hole)
      PROVE  CutInv'
  <2>1. /\ received' = received + n /\ pc' = "cut"
        /\ UNCHANGED <<sample_buffer, recorded>>
    BY <1>2 DEF ProcessFragment
  <2>2. /\ Len(fragment') = n /\ n \in Nat
        /\ \A i \in 1 .. n : fragment'[i] = received + i
        /\ fragment = <<>>
    BY <1>2, ReceivedStep
  <2>3. fragment' # <<>> /\ Len(fragment) = 0
    BY <2>2
  <2>4. \A i \in 1 .. Len(fragment') :
          fragment'[i] = received' - Len(fragment') + i
    BY <1>0, <2>1, <2>2
  <2>5. QED  BY <1>0, <2>1, <2>2, <2>3, <2>4 DEF CutInv, Idle
<1>3. CASE KeepRest
  <2>1. /\ fragment' = <<>> /\ pc' = "loop" /\ UNCHANGED <<received, recorded>>
    BY <1>3 DEF KeepRest, soundVars
  <2>2. Len(sample_buffer') = Len(sample_buffer) + Len(fragment)
        /\ Len(fragment) < FreeLeft
    BY <1>3, KeepStep
  <2>3. Len(sample_buffer') < submit_buffer_size
    BY <1>0, <2>2 DEF FreeLeft
  <2>4. QED  BY <1>0, <2>1, <2>2, <2>3 DEF CutInv, Idle
<1>4. CASE Overrun
  BY <1>0, <1>4 DEF Overrun, CutInv, Idle
<1>5. CASE GetPacket
  BY <1>0, <1>5
  DEF GetPacket, CutInv, Idle, FillsPacket, FreeLeft, cutVars, soundVars
<1>6. CASE SubmitPacket
  <2>1. PICK k \in Nat \ {0} : k = FreeLeft
    BY CutFacts
  <2>2. /\ Len(recorded') = Len(recorded) + submit_buffer_size
        /\ Len(fragment) >= k
        /\ fragment' \in Seq(1 .. MaxSamples)
        /\ Len(fragment') = Len(fragment) - k
        /\ \A i \in 1 .. Len(fragment') : fragment'[i] = fragment[k + i]
    BY <1>6, <2>1, SubmitStep
  <2>3. /\ sample_buffer' = <<>> /\ received' = received
        /\ pc' = IF Len(fragment) = k THEN "loop" ELSE "cut"
    BY <1>6, <2>1 DEF SubmitPacket
  <2>4. \A i \in 1 .. Len(fragment') :
          fragment'[i] = received' - Len(fragment') + i
    BY <1>0, <2>1, <2>2, <2>3 DEF CutInv
  <2>5. pc' = "loop" => fragment' = <<>>
    BY <1>0, <2>1, <2>2, <2>3
  <2>6. pc' = "cut" => fragment' # <<>>
    BY <1>0, <2>1, <2>2, <2>3
  <2>7. Len(recorded') + Len(sample_buffer') + Len(fragment') <= received'
    <3>1. submit_buffer_size = Len(sample_buffer) + k
      BY <1>0, <2>1 DEF FreeLeft
    <3>2. Len(sample_buffer') = 0
      BY <2>3
    <3>3. QED  BY <1>0, <2>1, <2>2, <2>3, <3>1, <3>2 DEF CutInv
  <2>8. Len(sample_buffer') < submit_buffer_size
    BY <1>0, <2>3
  <2>9. QED
    BY <2>3, <2>4, <2>5, <2>6, <2>7, <2>8 DEF CutInv, Idle
<1>7. QED
  BY <1>1, <1>2, <1>3, <1>4, <1>5, <1>6 DEF Next, Control, Cut

LEMMA TypeStep ==
  ASSUME TypeOK, CutInv, StreamInv, [Next]_vars
  PROVE  TypeOK'
<1>0. Len(sample_buffer') < submit_buffer_size
  BY CutStep DEF CutInv
<1> USE <1>0 DEF TypeOK, openVars, loopVars, cutVars, soundVars
<1>1. CASE Control
  BY <1>1, ControlType
<1>2. ASSUME NEW n \in 1 .. MaxFragment, NEW hole \in BOOLEAN,
             ProcessFragment(n, hole)
      PROVE  TypeOK'
  <2>1. buffer_timestamp' \in Nat
    <3>1. PICK e \in Errors : buffer_timestamp' = Captured(received + 1) + e
      BY <1>2 DEF ProcessFragment
    <3>2. Captured(received + 1) \in Int /\ Captured(received + 1) >= Epoch
      <4>1. PICK at \in Nat \ {0} : at = received + 1
        BY LiveAudioAssumption
      <4>2. Captured(at) >= Epoch
        BY CapturedFirst
      <4>3. at \in Int
        BY <4>1
      <4>4. Captured(at) \in Int
        BY <4>3, CapturedBounds
      <4>5. QED  BY <4>1, <4>2, <4>4
    <3>3. e \in Int /\ Epoch + e > Second /\ Epoch \in Nat /\ Second \in Nat
      BY LiveAudioAssumption
    <3>4. QED  BY <3>1, <3>2, <3>3
  <2>2. data' \in Values
    BY <1>2 DEF ProcessFragment, Values
  <2>3. holes' \subseteq 1 .. MaxSamples
    BY <1>2, LiveAudioAssumption DEF ProcessFragment
  <2>4. pc' = "cut" /\ received' = received + n
        /\ UNCHANGED <<openVars, loopVars, last_timestamp, sample_buffer, in_use,
                       lost, recorded>>
    BY <1>2 DEF ProcessFragment
  <2>5. QED  BY <1>2, <2>1, <2>2, <2>3, <2>4, ReceivedStep
<1>3. CASE KeepRest
  BY <1>3, KeepStep, EmptySeq DEF KeepRest
<1>4. CASE Overrun
  <2>1. lost' \subseteq 1 .. MaxSamples
    <3>1. \A i \in DOMAIN fragment : fragment[i] \in 1 .. MaxSamples
      BY CutFacts, ElementOfSeq
    <3>2. lost' = lost \cup {fragment[i] : i \in DOMAIN fragment}
      BY <1>4 DEF Overrun
    <3>3. lost \subseteq 1 .. MaxSamples
      OBVIOUS
    <3>4. QED  BY <3>1, <3>2, <3>3
  <2>2. QED  BY <1>4, <2>1, EmptySeq DEF Overrun
<1>5. CASE GetPacket
  BY <1>5, SizeFits DEF GetPacket, Exhausted
<1>6. CASE SubmitPacket
  <2>1. PICK k \in Nat : k = FreeLeft
    BY CutFacts
  <2>2. Usec(k) \in Nat
    BY UsecNat
  <2>3. buffer_timestamp' \in Nat
    BY <1>6, <2>1, <2>2 DEF SubmitPacket, TimeOf
  <2>4. last_timestamp' \in Nat
    <3>1. Usec(Len(sample_buffer)) \in Nat
      BY CutFacts, UsecNat
    <3>2. QED  BY <1>6, <3>1 DEF SubmitPacket, Later
  <2>5. data' \in Values
    BY <1>6 DEF SubmitPacket, Advanced, Values
  <2>6. sample_buffer' \in Seq(Sample)
    BY <1>6, EmptySeq DEF SubmitPacket
  <2>7. pc' \in {"loop", "cut"}
        /\ UNCHANGED <<openVars, loopVars, in_use, received, holes, lost>>
    BY <1>6 DEF SubmitPacket
  <2>8. recorded' \in Seq(Sample) /\ fragment' \in Seq(1 .. MaxSamples)
    BY <1>6, SubmitStep
  <2>9. QED  BY <2>3, <2>4, <2>5, <2>6, <2>7, <2>8
<1>7. QED
  BY <1>1, <1>2, <1>3, <1>4, <1>5, <1>6 DEF Next, Control, Cut

LEMMA StreamStep ==
  ASSUME StreamInv, [Next]_vars
  PROVE  StreamInv'
BY DEF StreamInv, Next, Initialize_Launch, Initialize_Assign, Shutdown,
   Context_Fails, Context_Ready, Stream_Ready, Stream_Fails, source_info_callback,
   PacketReleased, RunMainLoop_End, ProcessFragment, Cut,
   KeepRest, Overrun, GetPacket, SubmitPacket, vars, openVars

IInv == TypeOK /\ CutInv /\ StreamInv

LEMMA IInvInit == Init => IInv
<1> SUFFICES ASSUME Init PROVE IInv
  OBVIOUS
<1>1. Len(<<>>) = 0 /\ \A S : <<>> \in Seq(S)
  OBVIOUS
<1>2. TypeOK
  <2>1. 0 \in 0 .. queue_capacity /\ 0 \in 0 .. MaxSamples /\ 0 \in Nat
        /\ 0 < submit_buffer_size
    BY SizeFits, LiveAudioAssumption
  <2>2. streams \in 0 .. 1 /\ Len(sample_buffer) < submit_buffer_size
    BY <1>1, <2>1 DEF Init
  <2>3. QED  BY <1>1, <2>1, <2>2 DEF Init, TypeOK, Values
<1>3. CutInv /\ StreamInv
  BY <1>1, SizeFits DEF Init, CutInv, StreamInv, Idle
<1>4. QED  BY <1>2, <1>3 DEF IInv

LEMMA IInvStep == IInv /\ [Next]_vars => IInv'
BY TypeStep, CutStep, StreamStep DEF IInv

\* Whatever the latency, the rate and the sizes of fragments, the variables stay
\* in their ranges: the buffer of samples is never full (LiveAudio.cpp:339-340,
\* 416), the pool is not exceeded and one stream at most is opened.
THEOREM TypeCorrect == Spec => []TypeOK
<1>1. IInv => TypeOK
  BY DEF IInv
<1>2. QED  BY <1>1, IInvInit, IInvStep, PTL DEF Spec

-----------------------------------------------------------------------------
(* The samples.                                                            *)

Before == recorded \o sample_buffer
Kept   == Before \o Copied(fragment)

\* The samples that were kept, one by one.
KeptIs ==
  /\ Before \in Seq(Sample) /\ Kept \in Seq(Sample)
  /\ Len(Before) \in Nat /\ Len(fragment) \in Nat
  /\ Len(Before) = Len(recorded) + Len(sample_buffer)
  /\ Len(Kept) = Len(Before) + Len(fragment)
  /\ \A i \in 1 .. Len(Before) : Kept[i] = Before[i]
  /\ \A j \in 1 .. Len(fragment) :
       Kept[Len(Before) + j] = [at |-> fragment[j], value |-> data]

LEMMA KeptNow == IInv => KeptIs
<1> SUFFICES ASSUME IInv PROVE KeptIs
  OBVIOUS
<1>1. /\ fragment \in Seq(1 .. MaxSamples) /\ data \in Values
      /\ recorded \in Seq(Sample) /\ sample_buffer \in Seq(Sample)
  BY DEF IInv, TypeOK
<1>2. \A i \in 1 .. Len(fragment) : [at |-> fragment[i], value |-> data] \in Sample
  BY <1>1, ElementOfSeq DEF Sample
<1>3. /\ Copied(fragment) \in Seq(Sample) /\ Len(Copied(fragment)) = Len(fragment)
      /\ \A i \in 1 .. Len(fragment) :
           Copied(fragment)[i] = [at |-> fragment[i], value |-> data]
  BY <1>1, <1>2, CopiedSeq
<1>4. /\ Before \in Seq(Sample)
      /\ Len(Before) = Len(recorded) + Len(sample_buffer)
  BY <1>1, ConcatProperties DEF Before
<1>5. Len(Before) \in Nat /\ Len(fragment) \in Nat
  BY <1>1, <1>4
<1>6. /\ Kept \in Seq(Sample)
      /\ Len(Kept) = Len(Before) + Len(fragment)
      /\ \A i \in 1 .. Len(Before) + Len(fragment) :
           Kept[i] = IF i <= Len(Before) THEN Before[i]
                     ELSE Copied(fragment)[i - Len(Before)]
  <2>1. PICK b \in Seq(Sample), c \in Seq(Sample) :
          b = Before /\ c = Copied(fragment)
    BY <1>3, <1>4
  <2>2. Kept = b \o c
    BY <2>1 DEF Kept
  <2>3. /\ b \o c \in Seq(Sample)
        /\ Len(b \o c) = Len(b) + Len(c)
        /\ \A i \in 1 .. Len(b) + Len(c) :
             (b \o c)[i] = IF i <= Len(b) THEN b[i] ELSE c[i - Len(b)]
    BY ConcatProperties
  <2>4. QED  BY <1>3, <2>1, <2>2, <2>3
<1>7. \A j \in 1 .. Len(fragment) :
        Kept[Len(Before) + j] = [at |-> fragment[j], value |-> data]
  BY <1>3, <1>5, <1>6
<1>8. \A i \in 1 .. Len(Before) : Kept[i] = Before[i]
  BY <1>5, <1>6
<1>9. QED  BY <1>4, <1>5, <1>6, <1>7, <1>8 DEF KeptIs

LEMMA KeptNext == (IInv => KeptIs)'
BY KeptNow, PTL

\* Moving samples from the fragment to the buffer keeps them as they are.
LEMMA KeepKept ==
  ASSUME IInv, IInv', KeepRest
  PROVE  Kept' = Kept
<1>1. /\ recorded \in Seq(Sample) /\ sample_buffer \in Seq(Sample)
      /\ Copied(fragment) \in Seq(Sample)
  BY KeepStep DEF IInv, TypeOK
<1>2. /\ recorded' = recorded /\ fragment' = <<>>
      /\ sample_buffer' = sample_buffer \o Copied(fragment)
  BY DEF KeepRest, soundVars
<1>3. Kept' = Before' /\ Before' = recorded \o (sample_buffer \o Copied(fragment))
  <2>1. KeptIs'
    BY KeptNext
  <2>2. Copied(fragment)' = <<>>
    BY <1>2 DEF Copied
  <2>3. Before' \in Seq(Sample) /\ Kept' = Before' \o <<>>
    BY <2>1, <2>2 DEF KeptIs, Kept
  <2>4. QED  BY <1>2, <2>3, ConcatEmptySeq DEF Before
<1>4. PICK r \in Seq(Sample), b \in Seq(Sample), c \in Seq(Sample) :
        r = recorded /\ b = sample_buffer /\ c = Copied(fragment)
  BY <1>1
<1>5. (r \o b) \o c = r \o (b \o c)
  BY ConcatAssociative
<1>6. QED  BY <1>3, <1>4, <1>5 DEF Kept, Before

\* A packet takes the first samples that were kept and not yet submitted; only
\* the value of what is left of a hole changes.
LEMMA SubmitKept ==
  ASSUME IInv, IInv', SubmitPacket
  PROVE  /\ Len(Kept') = Len(Kept)
         /\ \A i \in 1 .. Len(Kept) :
              /\ Kept'[i].at = Kept[i].at
              /\ \/ Kept'[i].value = Kept[i].value
                 \/ data' # data /\ fragment' # <<>>
<1>1. PICK k \in Nat, f \in Nat, b \in Nat :
        k = FreeLeft /\ f = Len(fragment) /\ k <= f /\ b = Len(Before)
  BY KeptNow, CutFacts DEF KeptIs, IInv, CutInv, SubmitPacket
<1>2. /\ Taken \in Seq(Sample) /\ Len(Taken) = k
      /\ \A i \in 1 .. k : Taken[i] = [at |-> fragment[i], value |-> data]
      /\ Before \in Seq(Sample)
      /\ recorded' = Before \o Taken
      /\ recorded' \in Seq(Sample)
      /\ Len(fragment') = f - k
      /\ \A i \in 1 .. Len(fragment') : fragment'[i] = fragment[k + i]
  BY <1>1, SubmitStep DEF IInv, Before
<1>3. /\ Len(recorded') = b + k
      /\ \A i \in 1 .. b + k :
           recorded'[i] = IF i <= b THEN Before[i] ELSE Taken[i - b]
  <2>1. PICK s \in Seq(Sample), t \in Seq(Sample) : s = Before /\ t = Taken
    BY <1>2
  <2>2. /\ Len(s \o t) = Len(s) + Len(t)
        /\ \A i \in 1 .. Len(s) + Len(t) :
             (s \o t)[i] = IF i <= Len(s) THEN s[i] ELSE t[i - Len(s)]
    BY ConcatProperties
  <2>3. QED  BY <1>1, <1>2, <2>1, <2>2
<1>4. Before' = recorded'
  <2>1. Before' = recorded' \o <<>>
    BY DEF Before, SubmitPacket
  <2>2. QED  BY <1>2, <2>1, ConcatEmptySeq
<1>5. /\ Len(Kept) = b + f
      /\ \A i \in 1 .. b : Kept[i] = Before[i]
      /\ \A j \in 1 .. f : Kept[b + j] = [at |-> fragment[j], value |-> data]
  BY <1>1, KeptNow DEF KeptIs
<1>6. /\ Len(Kept') = b + f
      /\ \A i \in 1 .. b + k : Kept'[i] = recorded'[i]
      /\ \A j \in 1 .. f - k :
           Kept'[b + k + j] = [at |-> fragment[k + j], value |-> data']
  <2>1. KeptIs'
    BY KeptNext
  <2>2. Len(Before') = b + k
    BY <1>3, <1>4
  <2>3. /\ Len(Kept') = Len(Before') + Len(fragment')
        /\ \A i \in 1 .. Len(Before') : Kept'[i] = Before'[i]
        /\ \A j \in 1 .. Len(fragment') :
             Kept'[Len(Before') + j] = [at |-> fragment'[j], value |-> data']
    BY <2>1 DEF KeptIs
  <2>4. Len(Kept') = b + f
    BY <1>1, <1>2, <2>2, <2>3
  <2>5. \A i \in 1 .. b + k : Kept'[i] = recorded'[i]
    BY <1>4, <2>2, <2>3
  <2>6. ASSUME NEW j \in 1 .. f - k
        PROVE  Kept'[b + k + j] = [at |-> fragment[k + j], value |-> data']
    <3>1. /\ j \in 1 .. Len(fragment')
          /\ fragment'[j] = fragment[k + j]
      BY <1>2
    <3>2. QED  BY <2>2, <2>3, <3>1
  <2>7. QED  BY <2>4, <2>5, <2>6
<1>7. fragment' # <<>> \/ f = k
  BY <1>1, <1>2
<1>8. ASSUME NEW i \in 1 .. b PROVE Kept'[i] = Kept[i]
  BY <1>1, <1>3, <1>5, <1>6
<1>9. ASSUME NEW j \in 1 .. k PROVE Kept'[b + j] = Kept[b + j]
  <2>1. b + j \in 1 .. b + k /\ ~(b + j <= b) /\ b + j - b = j /\ j \in 1 .. f
    BY <1>1
  <2>2. Kept'[b + j] = Taken[j]
    BY <1>3, <1>6, <2>1
  <2>3. QED  BY <1>2, <1>5, <2>1, <2>2
<1>10. ASSUME NEW j \in 1 .. f - k
       PROVE  /\ Kept'[b + k + j].at = Kept[b + k + j].at
              /\ \/ Kept'[b + k + j].value = Kept[b + k + j].value
                 \/ data' # data /\ fragment' # <<>>
  <2>1. k + j \in 1 .. f /\ b + (k + j) = b + k + j /\ f # k
    BY <1>1
  <2>2. Kept[b + k + j] = [at |-> fragment[k + j], value |-> data]
    BY <1>5, <2>1
  <2>3. Kept'[b + k + j] = [at |-> fragment[k + j], value |-> data']
    BY <1>6
  <2>4. QED  BY <1>7, <2>1, <2>2, <2>3
<1>11. ASSUME NEW i \in 1 .. Len(Kept)
       PROVE  \/ i \in 1 .. b
              \/ \E j \in 1 .. k : i = b + j
              \/ \E j \in 1 .. f - k : i = b + k + j
  <2>1. CASE i <= b
    BY <1>1, <2>1
  <2>2. CASE b < i /\ i <= b + k
    <3>1. i - b \in 1 .. k /\ i = b + (i - b)
      BY <1>1, <1>5, <2>2
    <3>2. QED  BY <3>1
  <2>3. CASE b + k < i
    <3>1. i - b - k \in 1 .. f - k /\ i = b + k + (i - b - k)
      BY <1>1, <1>5, <2>3
    <3>2. QED  BY <3>1
  <2>4. i <= b \/ (b < i /\ i <= b + k) \/ b + k < i
    BY <1>1, <1>5
  <2>5. QED  BY <2>1, <2>2, <2>3, <2>4
<1>12. Len(Kept') = Len(Kept)
  BY <1>5, <1>6
<1>13. ASSUME NEW i \in 1 .. Len(Kept)
       PROVE  /\ Kept'[i].at = Kept[i].at
              /\ \/ Kept'[i].value = Kept[i].value
                 \/ data' # data /\ fragment' # <<>>
  <2>1. CASE i \in 1 .. b
    BY <1>8, <2>1
  <2>2. CASE \E j \in 1 .. k : i = b + j
    BY <1>9, <2>2
  <2>3. CASE \E j \in 1 .. f - k : i = b + k + j
    BY <1>10, <2>3
  <2>4. QED  BY <1>11, <2>1, <2>2, <2>3
<1>14. QED  BY <1>12, <1>13

\* A fragment's samples follow those that were kept before.
LEMMA ReceivedKept ==
  ASSUME IInv, IInv', NEW n \in 1 .. MaxFragment, NEW hole \in BOOLEAN,
         ProcessFragment(n, hole)
  PROVE  /\ n \in Nat /\ received \in Nat /\ Len(Kept) \in Nat
         /\ Len(Kept') = Len(Kept) + n
         /\ \A i \in 1 .. Len(Kept) : Kept'[i] = Kept[i]
         /\ \A j \in 1 .. n :
              Kept'[Len(Kept) + j] = [at |-> received + j, value |-> data']
<1>1. /\ n \in Nat /\ received \in Nat
      /\ Len(fragment') = n
      /\ \A i \in 1 .. n : fragment'[i] = received + i
      /\ fragment = <<>>
  BY ReceivedStep DEF IInv
<1>2. Before' = Before
  BY DEF ProcessFragment, Before
<1>3. Len(fragment) = 0
  BY <1>1
<1>4. /\ Len(Before) \in Nat /\ Len(Kept) = Len(Before) + 0
      /\ \A i \in 1 .. Len(Before) : Kept[i] = Before[i]
  BY <1>3, KeptNow DEF KeptIs
<1>5. /\ Len(Kept') = Len(Before) + n
      /\ \A i \in 1 .. Len(Before) : Kept'[i] = Before[i]
      /\ \A j \in 1 .. n :
           Kept'[Len(Before) + j] = [at |-> received + j, value |-> data']
  BY <1>1, <1>2, KeptNext DEF KeptIs
<1>6. Len(Kept) = Len(Before)
  BY <1>4
<1>7. QED  BY <1>1, <1>4, <1>5, <1>6

\* What an overrun drops comes after what was kept.
LEMMA OverrunKept ==
  ASSUME IInv, IInv', Overrun
  PROVE  /\ Len(Before) \in Nat /\ Len(fragment) \in Nat
         /\ Len(Kept) = Len(Before) + Len(fragment)
         /\ Len(Kept') = Len(Before)
         /\ \A i \in 1 .. Len(Before) : Kept'[i] = Kept[i]
         /\ lost' = lost \cup {fragment[j] : j \in 1 .. Len(fragment)}
         /\ \A j \in 1 .. Len(fragment) : Kept[Len(Before) + j].at = fragment[j]
<1>1. Before' = Before /\ Len(fragment') = 0
  BY DEF Overrun, Before
<1>2. /\ Len(Before) \in Nat /\ Len(fragment) \in Nat
      /\ Len(Kept) = Len(Before) + Len(fragment)
      /\ \A i \in 1 .. Len(Before) : Kept[i] = Before[i]
      /\ \A j \in 1 .. Len(fragment) :
           Kept[Len(Before) + j] = [at |-> fragment[j], value |-> data]
  BY KeptNow DEF KeptIs
<1>3. /\ Len(Kept') = Len(Before)
      /\ \A i \in 1 .. Len(Before) : Kept'[i] = Before[i]
  BY <1>1, <1>2, KeptNext DEF KeptIs
<1>4. lost' = lost \cup {fragment[j] : j \in 1 .. Len(fragment)}
  BY CutFacts DEF Overrun, IInv
<1>5. \A i \in 1 .. Len(Before) : Kept'[i] = Kept[i]
  BY <1>2, <1>3
<1>6. ASSUME NEW j \in 1 .. Len(fragment)
      PROVE  Kept[Len(Before) + j].at = fragment[j]
  <2>1. Kept[Len(Before) + j] = [at |-> fragment[j], value |-> data]
    BY <1>2
  <2>2. QED  BY <2>1
<1>7. /\ Len(Before) \in Nat /\ Len(fragment) \in Nat
      /\ Len(Kept) = Len(Before) + Len(fragment)
      /\ Len(Kept') = Len(Before)
  BY <1>2, <1>3
<1>8. QED  BY <1>4, <1>5, <1>6, <1>7

-----------------------------------------------------------------------------

\* What was kept are all positions received and not lost, in their order.
OrderInv ==
  /\ holes \subseteq 1 .. received /\ lost \subseteq 1 .. received
  /\ \A i, j \in 1 .. Len(Kept) : i < j => Kept[i].at < Kept[j].at
  /\ \A i \in 1 .. Len(Kept) : Kept[i].at \in (1 .. received) \ lost
  /\ \A p \in (1 .. received) \ lost : \E i \in 1 .. Len(Kept) : Kept[i].at = p

\* What was kept of a hole is silence.  A hole does not reach into the next
\* packet, so that no pointer is advanced from null and then used.
ValueInv ==
  /\ pc \in {"cut", "submit"} =>
       /\ data \in {"sound", "silence"}
       /\ data = "silence" => Len(fragment) <= FreeLeft
  /\ \A i \in 1 .. Len(Kept) :
       Kept[i].value = IF Kept[i].at \in holes THEN "silence" ELSE "sound"

LEMMA OrderKept ==
  ASSUME IInv, IInv', OrderInv, UNCHANGED <<received, holes, lost>>,
         Len(Kept') = Len(Kept),
         \A i \in 1 .. Len(Kept) : Kept'[i].at = Kept[i].at
  PROVE  OrderInv'
BY DEF OrderInv

LEMMA OrderStep ==
  ASSUME IInv, IInv', OrderInv, [Next]_vars
  PROVE  OrderInv'
<1>1. CASE Control
  <2>1. UNCHANGED <<received, holes, lost>> /\ Kept' = Kept
    BY <1>1, ControlMoves DEF cutVars, soundVars, Kept, Before, Copied
  <2>2. QED  BY <2>1, OrderKept
<1>2. ASSUME NEW n \in 1 .. MaxFragment, NEW hole \in BOOLEAN,
             ProcessFragment(n, hole)
      PROVE  OrderInv'
  <2>1. /\ received' = received + n /\ lost' = lost
        /\ holes' \subseteq holes \cup (received + 1 .. received + n)
    BY <1>2 DEF ProcessFragment
  <2>2. PICK l \in Nat :
          /\ l = Len(Kept) /\ n \in Nat /\ received \in Nat
          /\ Len(Kept') = l + n
          /\ \A i \in 1 .. l : Kept'[i] = Kept[i]
          /\ \A j \in 1 .. n :
               Kept'[l + j] = [at |-> received + j, value |-> data']
    BY <1>2, ReceivedKept
  <2>3. /\ \A i \in 1 .. l : Kept'[i].at = Kept[i].at
        /\ \A i \in 1 .. l : Kept[i].at \in (1 .. received) \ lost
        /\ \A i, j \in 1 .. l : i < j => Kept[i].at < Kept[j].at
    BY <2>2 DEF OrderInv
  <2>4. \A i \in 1 .. l + n : l < i => Kept'[i].at = received + (i - l)
    <3>1. ASSUME NEW i \in 1 .. l + n, l < i
          PROVE  Kept'[i].at = received + (i - l)
      <4>1. PICK j \in 1 .. n : j = i - l /\ i = l + j
        BY <2>2, <3>1
      <4>2. Kept'[l + j] = [at |-> received + j, value |-> data']
        BY <2>2
      <4>3. Kept'[i].at = received + j
        BY <4>1, <4>2
      <4>4. QED  BY <4>1, <4>3
    <3>2. QED  BY <3>1
  <2>5. holes' \subseteq 1 .. received' /\ lost' \subseteq 1 .. received'
    BY <2>1, <2>2 DEF OrderInv
  <2>6. ASSUME NEW i \in 1 .. l + n, NEW j \in 1 .. l + n, i < j
        PROVE  Kept'[i].at < Kept'[j].at
    <3>1. CASE j <= l
      BY <2>2, <2>3, <2>6, <3>1
    <3>2. CASE i <= l /\ l < j
      <4>1. Kept'[i].at \in 1 .. received /\ Kept'[j].at = received + (j - l)
        BY <2>2, <2>3, <2>4, <3>2
      <4>2. QED  BY <2>2, <3>2, <4>1
    <3>3. CASE l < i
      <4>1. Kept'[i].at = received + (i - l) /\ Kept'[j].at = received + (j - l)
        BY <2>2, <2>4, <2>6, <3>3
      <4>2. QED  BY <2>2, <2>6, <4>1
    <3>4. QED  BY <2>2, <3>1, <3>2, <3>3
  <2>7. ASSUME NEW i \in 1 .. l + n
        PROVE  Kept'[i].at \in (1 .. received') \ lost'
    <3>1. CASE i <= l
      BY <2>1, <2>2, <2>3, <3>1
    <3>2. CASE l < i
      <4>1. Kept'[i].at = received + (i - l)
        BY <2>4, <3>2
      <4>2. lost \subseteq 1 .. received
        BY DEF OrderInv
      <4>3. QED  BY <2>1, <2>2, <3>2, <4>1, <4>2
    <3>3. QED  BY <2>2, <3>1, <3>2
  <2>8. ASSUME NEW p \in (1 .. received') \ lost'
        PROVE  \E i \in 1 .. l + n : Kept'[i].at = p
    <3>1. CASE p <= received
      <4>1. PICK i \in 1 .. l : Kept[i].at = p
        BY <2>1, <2>2, <3>1 DEF OrderInv
      <4>2. Kept'[i].at = p /\ i \in 1 .. l + n
        BY <2>2, <2>3, <4>1
      <4>3. QED  BY <4>2
    <3>2. CASE received < p
      <4>1. /\ l + (p - received) \in 1 .. l + n
            /\ l < l + (p - received)
            /\ received + ((l + (p - received)) - l) = p
        BY <2>1, <2>2, <3>2
      <4>2. QED  BY <2>4, <4>1
    <3>3. QED  BY <2>1, <2>2, <3>1, <3>2
  <2>9. QED  BY <2>2, <2>5, <2>6, <2>7, <2>8 DEF OrderInv
<1>3. CASE KeepRest
  <2>1. Kept' = Kept
    BY <1>3, KeepKept
  <2>2. QED  BY <1>3, <2>1, OrderKept DEF KeepRest, soundVars
<1>4. CASE Overrun
  <2>1. PICK b \in Nat, f \in Nat :
          /\ b = Len(Before) /\ f = Len(fragment)
          /\ Len(Kept) = b + f /\ Len(Kept') = b
          /\ \A i \in 1 .. b : Kept'[i] = Kept[i]
          /\ lost' = lost \cup {fragment[j] : j \in 1 .. f}
          /\ \A j \in 1 .. f : Kept[b + j].at = fragment[j]
    BY <1>4, OverrunKept
  <2>2. received' = received /\ holes' = holes
    BY <1>4 DEF Overrun
  <2>3. /\ \A i, j \in 1 .. b + f : i < j => Kept[i].at < Kept[j].at
        /\ \A i \in 1 .. b + f : Kept[i].at \in (1 .. received) \ lost
        /\ \A p \in (1 .. received) \ lost :
             \E i \in 1 .. b + f : Kept[i].at = p
        /\ lost \subseteq 1 .. received /\ holes \subseteq 1 .. received
    BY <2>1 DEF OrderInv
  <2>4. \A j \in 1 .. f : b + j \in 1 .. b + f
    BY <2>1
  <2>5. lost' \subseteq 1 .. received'
    <3>1. \A j \in 1 .. f : fragment[j] \in 1 .. received
      BY <2>1, <2>3, <2>4
    <3>2. {fragment[j] : j \in 1 .. f} \subseteq 1 .. received
      BY <3>1
    <3>3. lost \subseteq 1 .. received
      BY <2>3
    <3>4. QED  BY <2>1, <2>2, <3>2, <3>3
  <2>6. \A i \in 1 .. b : i \in 1 .. b + f /\ Kept'[i].at = Kept[i].at
    BY <2>1
  <2>7. ASSUME NEW i \in 1 .. b PROVE Kept'[i].at \notin lost'
    <3>1. \A j \in 1 .. f : i < b + j
      BY <2>1
    <3>2. \A j \in 1 .. f : Kept[i].at < fragment[j]
      BY <2>1, <2>3, <2>4, <2>6, <3>1
    <3>3. Kept[i].at \in Int /\ Kept[i].at \notin lost
      BY <2>3, <2>6
    <3>4. QED  BY <2>1, <2>6, <3>2, <3>3
  <2>8. ASSUME NEW p \in (1 .. received') \ lost'
        PROVE  \E i \in 1 .. b : Kept'[i].at = p
    <3>1. p \in (1 .. received) \ lost
      BY <2>1, <2>2
    <3>2. PICK i \in 1 .. b + f : Kept[i].at = p
      BY <2>3, <3>1
    <3>3. ASSUME b < i PROVE FALSE
      <4>1. i - b \in 1 .. f /\ b + (i - b) = i
        BY <2>1, <3>3
      <4>2. p = fragment[i - b]
        BY <2>1, <3>2, <4>1
      <4>3. QED  BY <2>1, <4>1, <4>2
    <3>4. i \in 1 .. b
      BY <2>1, <3>3
    <3>5. QED  BY <2>6, <3>2, <3>4
  <2>9. \A i, j \in 1 .. b : i < j => Kept'[i].at < Kept'[j].at
    BY <2>3, <2>6
  <2>10. QED  BY <2>1, <2>2, <2>3, <2>5, <2>6, <2>7, <2>8, <2>9 DEF OrderInv
<1>5. CASE GetPacket
  <2>1. UNCHANGED <<received, holes, lost>> /\ Kept' = Kept
    BY <1>5 DEF GetPacket, cutVars, soundVars, Kept, Before, Copied
  <2>2. QED  BY <2>1, OrderKept
<1>6. CASE SubmitPacket
  BY <1>6, SubmitKept, OrderKept DEF SubmitPacket
<1>7. QED
  BY <1>1, <1>2, <1>3, <1>4, <1>5, <1>6 DEF Next, Control, Cut

LEMMA ValueStep ==
  ASSUME ~HolesCross, IInv, IInv', OrderInv, ValueInv, [Next]_vars
  PROVE  ValueInv'
<1> DEFINE Right(i) ==
      Kept[i].value = IF Kept[i].at \in holes THEN "silence" ELSE "sound"
<1>0. \A i \in 1 .. Len(Kept) : Right(i)
  BY DEF ValueInv
<1>1. CASE Control
  BY <1>1, ControlMoves
  DEF cutVars, soundVars, ValueInv, Kept, Before, Copied, Idle, FreeLeft
<1>2. ASSUME NEW n \in 1 .. MaxFragment, NEW hole \in BOOLEAN,
             ProcessFragment(n, hole)
      PROVE  ValueInv'
  <2>1. /\ data' = IF hole THEN "silence" ELSE "sound"
        /\ holes' = IF hole THEN holes \cup (received + 1 .. received + n)
                            ELSE holes
        /\ sample_buffer' = sample_buffer
        /\ hole => n <= FreeLeft
    BY <1>2 DEF ProcessFragment
  <2>2. Len(fragment') = n /\ FreeLeft' = FreeLeft
    BY <1>2, <2>1, ReceivedStep DEF IInv, FreeLeft
  <2>3. /\ data' \in {"sound", "silence"}
        /\ data' = "silence" => Len(fragment') <= FreeLeft'
    BY <2>1, <2>2
  <2>4. PICK l \in Nat :
          /\ l = Len(Kept) /\ n \in Nat /\ received \in Nat
          /\ Len(Kept') = l + n
          /\ \A i \in 1 .. l : Kept'[i] = Kept[i]
          /\ \A j \in 1 .. n :
               Kept'[l + j] = [at |-> received + j, value |-> data']
    BY <1>2, ReceivedKept
  <2>5. ASSUME NEW i \in 1 .. l
        PROVE  Kept'[i].value = IF Kept'[i].at \in holes' THEN "silence" ELSE "sound"
    <3>1. Kept[i].at \in 1 .. received /\ Kept'[i] = Kept[i]
      BY <2>4 DEF OrderInv
    <3>2. Kept[i].at \in holes' <=> Kept[i].at \in holes
      BY <2>1, <2>4, <3>1
    <3>3. Right(i)
      BY <1>0, <2>4
    <3>4. QED  BY <3>1, <3>2, <3>3
  <2>6. ASSUME NEW j \in 1 .. n
        PROVE  Kept'[l + j].value =
                 IF Kept'[l + j].at \in holes' THEN "silence" ELSE "sound"
    <3>1. Kept'[l + j] = [at |-> received + j, value |-> data']
      BY <2>4
    <3>2. received + j \in holes' <=> hole
      <4>1. received + j \in received + 1 .. received + n /\ received + j \notin 1 .. received
        BY <2>4
      <4>2. received + j \notin holes
        BY <4>1 DEF OrderInv
      <4>3. QED  BY <2>1, <4>1, <4>2
    <3>3. QED  BY <2>1, <3>1, <3>2
  <2>7. ASSUME NEW i \in 1 .. l + n
        PROVE  Kept'[i].value = IF Kept'[i].at \in holes' THEN "silence" ELSE "sound"
    <3>1. CASE i <= l
      BY <2>4, <2>5, <3>1
    <3>2. CASE l < i
      <4>1. PICK j \in 1 .. n : j = i - l /\ i = l + j
        BY <2>4, <3>2
      <4>2. QED  BY <2>6, <4>1
    <3>3. QED  BY <2>4, <3>1, <3>2
  <2>8. QED  BY <2>3, <2>4, <2>7 DEF ValueInv
<1>3. CASE KeepRest
  <2>1. Kept' = Kept /\ holes' = holes /\ pc' = "loop"
    BY <1>3, KeepKept DEF KeepRest, soundVars
  <2>2. QED  BY <1>0, <2>1 DEF ValueInv
<1>4. CASE Overrun
  <2>1. PICK b \in Nat, f \in Nat :
          /\ Len(Kept) = b + f /\ Len(Kept') = b
          /\ \A i \in 1 .. b : Kept'[i] = Kept[i]
    BY <1>4, OverrunKept
  <2>2. holes' = holes /\ pc' = "loop"
    BY <1>4 DEF Overrun
  <2>3. \A i \in 1 .. b : i \in 1 .. Len(Kept)
    BY <2>1
  <2>4. QED  BY <1>0, <2>1, <2>2, <2>3 DEF ValueInv
<1>5. CASE GetPacket
  BY <1>5
  DEF GetPacket, cutVars, soundVars, ValueInv, Kept, Before, Copied, FreeLeft
<1>6. CASE SubmitPacket
  <2>1. /\ data' = (IF data = "silence" THEN "garbage" ELSE data)
        /\ pc = "submit" /\ holes' = holes
        /\ pc' = IF Len(fragment) = FreeLeft THEN "loop" ELSE "cut"
    BY <1>6 DEF SubmitPacket, Advanced
  <2>2. /\ Len(fragment') = Len(fragment) - FreeLeft
        /\ Len(fragment) >= FreeLeft
        /\ Len(fragment) \in Nat /\ FreeLeft \in Nat
        /\ fragment' \in Seq(1 .. MaxSamples)
    BY <1>6, SubmitStep, CutFacts DEF IInv
  <2>3. data = "silence" => Len(fragment) = FreeLeft
    BY <2>1, <2>2 DEF ValueInv
  <2>4. data = "silence" => fragment' = <<>> /\ pc' = "loop"
    BY <2>1, <2>2, <2>3
  <2>5. data \in {"sound", "silence"}
    BY <2>1 DEF ValueInv
  <2>6. pc' = "cut" => data' = "sound"
    BY <2>1, <2>4, <2>5
  <2>7. ~(data' # data /\ fragment' # <<>>)
    BY <2>1, <2>4
  <2>8. /\ Len(Kept') = Len(Kept)
        /\ \A i \in 1 .. Len(Kept) :
             Kept'[i].at = Kept[i].at /\ Kept'[i].value = Kept[i].value
    BY <1>6, <2>7, SubmitKept
  <2>9. \A i \in 1 .. Len(Kept') :
          Kept'[i].value = IF Kept'[i].at \in holes' THEN "silence" ELSE "sound"
    BY <1>0, <2>1, <2>8
  <2>10. pc' # "submit"
    BY <2>1
  <2>11. QED  BY <2>6, <2>9, <2>10 DEF ValueInv
<1>7. QED
  BY <1>1, <1>2, <1>3, <1>4, <1>5, <1>6 DEF Next, Control, Cut

LEMMA KeptInit ==
  ASSUME Init
  PROVE  OrderInv /\ ValueInv
<1>1. KeptIs
  BY IInvInit, KeptNow
<1>2. Len(Kept) = 0
  BY <1>1 DEF KeptIs, Init
<1>3. QED  BY <1>2 DEF Init, OrderInv, ValueInv

LEMMA KeptDomain ==
  ASSUME IInv
  PROVE  DOMAIN Kept = 1 .. Len(Kept) /\ Len(Kept) \in Nat
BY KeptNow DEF KeptIs

\* Wherever holes are and whatever is dropped, what was submitted, waits in the
\* buffer and is still to be cut are all samples received and not dropped, each
\* once and in order.
PositionsKept ==
  /\ \A i \in 1 .. Len(Kept) - 1 : Kept[i].at < Kept[i + 1].at
  /\ {Kept[i].at : i \in DOMAIN Kept} = (1 .. received) \ lost

LEMMA PositionsFollow == IInv /\ OrderInv => PositionsKept
<1> SUFFICES ASSUME IInv, OrderInv PROVE PositionsKept
  OBVIOUS
<1>1. DOMAIN Kept = 1 .. Len(Kept) /\ Len(Kept) \in Nat
  BY KeptDomain
<1>2. ASSUME NEW i \in 1 .. Len(Kept) - 1 PROVE Kept[i].at < Kept[i + 1].at
  <2>1. i \in 1 .. Len(Kept) /\ i + 1 \in 1 .. Len(Kept) /\ i < i + 1
    BY <1>1
  <2>2. QED  BY <2>1 DEF OrderInv
<1>3. {Kept[i].at : i \in DOMAIN Kept} = (1 .. received) \ lost
  BY <1>1 DEF OrderInv
<1>4. QED  BY <1>2, <1>3 DEF PositionsKept

\* No sample is skipped, repeated or moved.
THEOREM PositionsStay == Spec => []PositionsKept
<1>1. Init => IInv /\ OrderInv
  BY IInvInit, KeptInit
<1>2. IInv /\ OrderInv /\ [Next]_vars => IInv' /\ OrderInv'
  BY IInvStep, OrderStep
<1>3. QED  BY <1>1, <1>2, PositionsFollow, PTL DEF Spec

\* If holes do not reach into the next packet, recording is skipless, and holes
\* are silence.
THEOREM NothingSkipped == ~HolesCross => (Spec => []Skipless)
<1> SUFFICES ASSUME ~HolesCross PROVE Spec => []Skipless
  OBVIOUS
<1> DEFINE KInv == IInv /\ OrderInv /\ ValueInv
<1>1. Init => KInv
  BY IInvInit, KeptInit
<1>2. KInv /\ [Next]_vars => KInv'
  BY IInvStep, OrderStep, ValueStep
<1>3. KInv => Skipless
  <2> SUFFICES ASSUME KInv PROVE Skipless
    OBVIOUS
  <2>1. PositionsKept
    BY PositionsFollow
  <2>2. \A i \in DOMAIN Kept :
          Kept[i].value = IF Kept[i].at \in holes THEN "silence" ELSE "sound"
    BY KeptDomain DEF ValueInv
  <2>3. Kept = recorded \o sample_buffer \o Copied(fragment)
    BY DEF Kept, Before
  <2>4. QED  BY <2>1, <2>2, <2>3 DEF Skipless, PositionsKept
<1>4. QED  BY <1>1, <1>2, <1>3, PTL DEF Spec

-----------------------------------------------------------------------------
(* The timestamps.                                                         *)

\* How far a packet's cutting takes the fragment's timestamp back, at most.
PacketLag == Lag(submit_buffer_size)

LEMMA LagBounds ==
  /\ PacketLag \in Nat
  /\ \A n \in 0 .. submit_buffer_size : Lag(n) \in Nat /\ Lag(n) <= PacketLag
  /\ MaxFragment \div submit_buffer_size \in Nat
  /\ Rounding \in Nat
  /\ \A k \in 0 .. MaxFragment \div submit_buffer_size :
       k * PacketLag \in Nat /\ k * PacketLag <= Rounding
  /\ PacketLag <= Rounding
<1>1. PICK s \in Nat \ {0}, l \in Nat, m \in Nat :
        /\ s = submit_buffer_size /\ l = PacketLag
        /\ m = MaxFragment \div submit_buffer_size
  <2>1. PICK s \in Nat \ {0} : s = submit_buffer_size
    BY SizeFits
  <2>2. Lag(s) \in Nat
    BY LagNat
  <2>3. MaxFragment \div s \in Nat
    BY DivisionNat, LiveAudioAssumption
  <2>4. QED  BY <2>1, <2>2, <2>3 DEF PacketLag
<1>2. ASSUME NEW n \in 0 .. s PROVE Lag(n) \in Nat /\ Lag(n) <= l
  <2>1. n \in Nat /\ n \div Scale <= s \div Scale
    BY DivisionMonotone, TimeConstants
  <2>2. n \div Scale \in Int /\ s \div Scale \in Int
    BY <2>1, Division, TimeConstants
  <2>3. QED  BY <1>1, <2>1, <2>2, LagNat DEF Lag, PacketLag
<1>3. Rounding = (m + 1) * l
  BY <1>1 DEF Rounding, PacketLag, Lag
<1>4. (m + 1) * l = m * l + l /\ m * l \in Nat
  OBVIOUS
<1>5. ASSUME NEW k \in 0 .. m PROVE k * l \in Nat /\ k * l <= Rounding
  <2>1. k \in Nat /\ k * l <= (m + 1) * l
    BY Products
  <2>2. QED  BY <1>3, <2>1
<1>6. Rounding \in Nat /\ l <= Rounding
  BY <1>3, <1>4
<1>7. QED  BY <1>1, <1>2, <1>5, <1>6

\* While a fragment is cut, its timestamp is that of some latency, less what the
\* rounding took for each packet that was filled from it so far.
Drifted(e, k) ==
  /\ buffer_timestamp <= Captured(fragment[1]) + e
  /\ Captured(fragment[1]) + e <= buffer_timestamp + k * PacketLag
  /\ \/ k = 0 /\ Len(fragment) <= MaxFragment
     \/ /\ sample_buffer = <<>>
        /\ k * submit_buffer_size + Len(fragment) < MaxFragment + submit_buffer_size

DriftInv ==
  pc \in {"cut", "submit"} => \E e \in Errors, k \in Nat : Drifted(e, k)

\* The last packet's timestamp is not too late.
LastInv ==
  /\ recorded = <<>> => last_timestamp = 0
  /\ recorded # <<>> =>
       \E e \in Errors :
         last_timestamp <= Captured(recorded[Len(recorded)].at
                                      - submit_buffer_size + 1) + e + Rounding

LEMMA CutPosition ==
  ASSUME IInv, fragment # <<>>
  PROVE  /\ fragment[1] \in Nat \ {0}
         /\ fragment[1] - Len(sample_buffer) \in Nat \ {0}
         /\ \A i \in 1 .. Len(fragment) : fragment[i] = fragment[1] + i - 1
<1>1. /\ Len(fragment) \in Nat \ {0} /\ Len(sample_buffer) \in Nat
      /\ Len(recorded) \in Nat /\ received \in Nat
  BY CutFacts, LiveAudioAssumption DEF IInv, TypeOK
<1>2. /\ \A i \in 1 .. Len(fragment) : fragment[i] = received - Len(fragment) + i
      /\ Len(recorded) + Len(sample_buffer) + Len(fragment) <= received
  BY DEF IInv, CutInv
<1>3. 1 \in 1 .. Len(fragment) /\ fragment[1] = received - Len(fragment) + 1
  BY <1>1, <1>2
<1>4. QED  BY <1>1, <1>2, <1>3

\* What a packet's submission does to the time of the rest of the fragment.
LEMMA DriftGrows ==
  ASSUME IInv, NEW e \in Errors, NEW k \in Nat, Drifted(e, k), SubmitPacket,
         fragment' # <<>>, IInv'
  PROVE  Drifted(e, k + 1)'
<1>1. PICK n \in Nat \ {0}, f \in Nat, s \in Nat \ {0}, b \in Nat :
        /\ n = FreeLeft /\ f = Len(fragment) /\ s = submit_buffer_size
        /\ b = Len(sample_buffer) /\ n = s - b /\ n <= f
  <2>1. Len(fragment) >= FreeLeft
    BY DEF IInv, CutInv, SubmitPacket
  <2>2. QED  BY <2>1, CutFacts, SizeFits DEF IInv, FreeLeft
<1>2. fragment # <<>>
  BY DEF IInv, CutInv, SubmitPacket
<1>3. PICK at \in Int : at = fragment[1]
  BY <1>2, CutPosition
<1>4. Len(fragment') = f - n /\ fragment'[1] = at + n
  <2>1. /\ Len(fragment') = f - n /\ Len(fragment') \in Nat
        /\ \A i \in 1 .. Len(fragment') : fragment'[i] = fragment[n + i]
        /\ fragment' \in Seq(1 .. MaxSamples)
    BY <1>1, SubmitStep DEF IInv
  <2>2. 1 \in 1 .. Len(fragment')
    BY <2>1
  <2>3. fragment'[1] = fragment[n + 1] /\ n + 1 \in 1 .. f
    BY <1>1, <2>1, <2>2
  <2>4. fragment[n + 1] = fragment[1] + (n + 1) - 1
    BY <1>1, <1>2, <2>3, CutPosition
  <2>5. fragment[n + 1] = at + n
    BY <1>1, <1>3, <2>4
  <2>6. QED  BY <2>1, <2>3, <2>5
<1>5. PICK c \in Int, d \in Int, u \in Nat :
        /\ c = Captured(at) /\ d = Captured(at + n) /\ u = Usec(n)
        /\ u <= d - c /\ d - c <= u + PacketLag
  <2>1. /\ Usec(n) \in Nat
        /\ Usec(n) <= Captured(at + n) - Captured(at)
        /\ Captured(at + n) - Captured(at) <= Usec(n) + Lag(n)
    BY UsecFalls
  <2>2. Captured(at) \in Int /\ Captured(at + n) \in Int
    <3>1. PICK an \in Int : an = at + n
      OBVIOUS
    <3>2. Captured(at) \in Int /\ Captured(an) \in Int
      BY CapturedBounds
    <3>3. QED  BY <3>1, <3>2
  <2>3. n \in 0 .. submit_buffer_size
    BY <1>1
  <2>4. Lag(n) \in Nat /\ Lag(n) <= PacketLag /\ PacketLag \in Nat
    BY <2>3, LagBounds
  <2>5. QED  BY <2>1, <2>2, <2>4
<1>6. e \in Int /\ buffer_timestamp \in Int /\ MaxFragment \in Nat
  BY LiveAudioAssumption DEF IInv, TypeOK
<1>7. buffer_timestamp' = buffer_timestamp + u /\ sample_buffer' = <<>>
  BY <1>1, <1>5 DEF SubmitPacket, TimeOf
<1>8. PICK l \in Nat, x \in Nat : l = PacketLag /\ x = k * l /\ (k + 1) * l = x + l
  BY LagBounds
<1>9. buffer_timestamp' <= Captured(fragment'[1]) + e
  <2>1. buffer_timestamp <= c + e
    BY <1>3, <1>5 DEF Drifted
  <2>2. buffer_timestamp + u <= d + e
    BY <1>5, <1>6, <2>1
  <2>3. Captured(fragment'[1]) = d
    BY <1>4, <1>5
  <2>4. QED  BY <1>7, <2>2, <2>3
<1>10. Captured(fragment'[1]) + e <= buffer_timestamp' + (k + 1) * PacketLag
  <2>1. c + e <= buffer_timestamp + x
    BY <1>3, <1>5, <1>8 DEF Drifted
  <2>2. d + e <= (buffer_timestamp + u) + (x + l)
    <3>1. d - c <= u + l
      BY <1>5, <1>8
    <3>2. QED  BY <1>6, <2>1, <3>1
  <2>3. (k + 1) * PacketLag = x + l
    BY <1>8
  <2>4. QED  BY <1>4, <1>5, <1>7, <2>2, <2>3
<1>11. (k + 1) * s + (f - n) < MaxFragment + s
  <2>1. PICK y \in Nat : y = k * s /\ (k + 1) * s = y + s
    OBVIOUS
  <2>2. CASE k = 0 /\ f <= MaxFragment
    BY <1>1, <1>6, <2>1, <2>2
  <2>3. CASE sample_buffer = <<>> /\ k * s + f < MaxFragment + s
    <3>1. b = 0
      BY <1>1, <2>3
    <3>2. QED  BY <1>1, <1>6, <2>1, <2>3, <3>1
  <2>4. QED  BY <1>1, <2>2, <2>3 DEF Drifted
<1>12. QED  BY <1>1, <1>4, <1>7, <1>9, <1>10, <1>11 DEF Drifted

LEMMA DriftStep ==
  ASSUME IInv, IInv', DriftInv, [Next]_vars
  PROVE  DriftInv'
<1>1. CASE Control
  BY <1>1, ControlMoves DEF DriftInv, Drifted, cutVars, Idle
<1>2. ASSUME NEW n \in 1 .. MaxFragment, NEW hole \in BOOLEAN,
             ProcessFragment(n, hole)
      PROVE  DriftInv'
  <2>1. PICK e \in Errors : buffer_timestamp' = Captured(received + 1) + e
    BY <1>2 DEF ProcessFragment
  <2>2. /\ Len(fragment') = n /\ n \in Nat /\ 1 \in 1 .. n
        /\ \A i \in 1 .. n : fragment'[i] = received + i
    BY <1>2, ReceivedStep DEF IInv
  <2>3. PICK c \in Int : c = Captured(fragment'[1]) /\ c = Captured(received + 1)
    <3>1. fragment'[1] = received + 1
      BY <2>2
    <3>2. PICK at \in Int : at = received + 1
      BY DEF IInv, TypeOK
    <3>3. Captured(at) \in Int
      BY CapturedBounds
    <3>4. QED  BY <3>1, <3>2, <3>3
  <2>4. e \in Int /\ MaxFragment \in Nat /\ PacketLag \in Nat
    BY LagBounds, LiveAudioAssumption
  <2>5. 0 * PacketLag = 0
    BY <2>4
  <2>6. Drifted(e, 0)'
    BY <2>1, <2>2, <2>3, <2>4, <2>5 DEF Drifted
  <2>7. QED  BY <2>6 DEF DriftInv
<1>3. CASE KeepRest \/ Overrun
  BY <1>3 DEF KeepRest, Overrun, DriftInv
<1>4. CASE GetPacket
  BY <1>4 DEF GetPacket, DriftInv, Drifted, cutVars
<1>5. CASE SubmitPacket
  <2> SUFFICES ASSUME pc' \in {"cut", "submit"}
               PROVE  \E e \in Errors, k \in Nat : Drifted(e, k)'
    BY DEF DriftInv
  <2>1. pc = "submit"
    BY <1>5 DEF SubmitPacket
  <2>2. PICK e \in Errors, k \in Nat : Drifted(e, k)
    BY <2>1 DEF DriftInv
  <2>3. fragment' # <<>>
    BY DEF IInv, CutInv
  <2>4. Drifted(e, k + 1)'
    BY <1>5, <2>2, <2>3, DriftGrows
  <2>5. k + 1 \in Nat
    OBVIOUS
  <2>6. QED  BY <2>4, <2>5
<1>6. QED
  BY <1>1, <1>2, <1>3, <1>4, <1>5 DEF Next, Control, Cut

\* Where a packet starts that is about to be submitted, if its samples follow
\* one another up to the last.
PacketStart == fragment[1] - Len(sample_buffer)

LEMMA PacketEnds ==
  ASSUME IInv, OrderInv, SubmitPacket
  PROVE  /\ PacketStart \in Nat \ {0}
         /\ recorded' # <<>>
         /\ recorded'[Len(recorded')].at - submit_buffer_size + 1 = PacketStart
         /\ recorded # <<>> =>
              /\ recorded[Len(recorded)].at - submit_buffer_size + 1 \in Int
              /\ recorded[Len(recorded)].at - submit_buffer_size + 1 < PacketStart
<1>1. PICK n \in Nat \ {0}, f \in Nat, s \in Nat \ {0}, b \in Nat, r \in Nat :
        /\ n = FreeLeft /\ f = Len(fragment) /\ s = submit_buffer_size
        /\ b = Len(sample_buffer) /\ r = Len(recorded) /\ n = s - b /\ n <= f
  <2>1. Len(fragment) >= FreeLeft
    BY DEF IInv, CutInv, SubmitPacket
  <2>2. QED  BY <2>1, CutFacts, SizeFits DEF IInv, FreeLeft
<1>2. fragment # <<>>
  BY DEF IInv, CutInv, SubmitPacket
<1>3. PICK at \in Nat \ {0} :
        /\ at = fragment[1] /\ at - b \in Nat \ {0}
        /\ \A i \in 1 .. f : fragment[i] = at + i - 1
  BY <1>1, <1>2, CutPosition
<1>4. /\ recorded \in Seq(Sample) /\ sample_buffer \in Seq(Sample)
      /\ Taken \in Seq(Sample) /\ Len(Taken) = n
      /\ Before \in Seq(Sample) /\ Len(Before) = r + b
      /\ recorded' = Before \o Taken
      /\ \A i \in 1 .. n : Taken[i] = [at |-> fragment[i], value |-> data]
  BY <1>1, SubmitStep, KeptNow DEF IInv, TypeOK, KeptIs, Before
<1>5. /\ Len(recorded') = r + s
      /\ recorded'[r + s] = Taken[n]
  <2>1. PICK x \in Seq(Sample), y \in Seq(Sample) : x = Before /\ y = Taken
    BY <1>4
  <2>2. /\ Len(x \o y) = Len(x) + Len(y)
        /\ \A i \in 1 .. Len(x) + Len(y) :
             (x \o y)[i] = IF i <= Len(x) THEN x[i] ELSE y[i - Len(x)]
    BY ConcatProperties
  <2>3. Len(x) = r + b /\ Len(y) = n /\ r + b + n = r + s
    BY <1>1, <1>4, <2>1
  <2>4. r + s \in 1 .. Len(x) + Len(y) /\ ~(r + s <= Len(x)) /\ r + s - Len(x) = n
    BY <1>1, <2>3
  <2>5. (x \o y)[r + s] = y[n]
    BY <2>2, <2>4
  <2>6. QED  BY <1>4, <2>1, <2>2, <2>3, <2>5
<1>6. n \in 1 .. n /\ n \in 1 .. f
  BY <1>1
<1>7. recorded'[r + s].at = at + n - 1
  <2>1. Taken[n] = [at |-> fragment[n], value |-> data]
    BY <1>4, <1>6
  <2>2. fragment[n] = at + n - 1
    BY <1>3, <1>6
  <2>3. QED  BY <1>5, <2>1, <2>2
<1>8. PacketStart = at - b /\ (at + n - 1) - s + 1 = at - b
  BY <1>1, <1>3 DEF PacketStart
<1>9. ASSUME recorded # <<>>
      PROVE  /\ recorded[r].at \in Int
             /\ recorded[r].at < at + n - 1
  <2>1. r \in 1 .. r
    BY <1>1, <1>4, <1>9
  <2>2. /\ Len(Kept) = (r + b) + f
        /\ Kept[r] = Before[r]
        /\ Kept[(r + b) + n] = [at |-> fragment[n], value |-> data]
    <3>1. /\ Len(Kept) = Len(Before) + Len(fragment)
          /\ \A i \in 1 .. Len(Before) : Kept[i] = Before[i]
          /\ \A j \in 1 .. Len(fragment) :
               Kept[Len(Before) + j] = [at |-> fragment[j], value |-> data]
      BY KeptNow DEF KeptIs
    <3>2. r \in 1 .. Len(Before)
      BY <1>1, <1>4, <2>1
    <3>3. QED  BY <1>1, <1>4, <1>6, <3>1, <3>2
  <2>3. Before[r] = recorded[r]
    <3>1. PICK x \in Seq(Sample), y \in Seq(Sample) : x = recorded /\ y = sample_buffer
      BY <1>4
    <3>2. \A i \in 1 .. Len(x) + Len(y) :
            (x \o y)[i] = IF i <= Len(x) THEN x[i] ELSE y[i - Len(x)]
      BY ConcatProperties
    <3>3. r \in 1 .. Len(x) + Len(y) /\ r <= Len(x)
      BY <1>1, <2>1, <3>1
    <3>4. QED  BY <3>1, <3>2, <3>3 DEF Before
  <2>4. r \in 1 .. Len(Kept) /\ r + b + n \in 1 .. Len(Kept) /\ r < r + b + n
    BY <1>1, <2>1, <2>2
  <2>5. Kept[r].at < Kept[r + b + n].at
    BY <2>4 DEF OrderInv
  <2>6. Kept[r].at \in 1 .. received
    BY <2>4 DEF OrderInv
  <2>7. Kept[r + b + n].at = at + n - 1
    BY <1>3, <1>6, <2>2
  <2>8. QED  BY <2>2, <2>3, <2>5, <2>6, <2>7
<1>10. recorded' # <<>>
  BY <1>1, <1>5
<1>11. recorded'[Len(recorded')].at - submit_buffer_size + 1 = PacketStart
  BY <1>1, <1>5, <1>7, <1>8
<1>12. ASSUME recorded # <<>>
       PROVE  /\ recorded[Len(recorded)].at - submit_buffer_size + 1 \in Int
              /\ recorded[Len(recorded)].at - submit_buffer_size + 1 < PacketStart
  <2>1. PICK z \in Int : z = recorded[Len(recorded)].at /\ z < at + n - 1
    BY <1>1, <1>9, <1>12
  <2>2. z - s + 1 \in Int /\ z - s + 1 < at - b
    BY <1>1, <2>1
  <2>3. PacketStart = at - b
    BY <1>8
  <2>4. recorded[Len(recorded)].at - submit_buffer_size + 1 = z - s + 1
    BY <1>1, <2>1
  <2>5. QED  BY <2>2, <2>3, <2>4
<1>13. PacketStart \in Nat \ {0}
  BY <1>3, <1>8
<1>14. QED  BY <1>10, <1>11, <1>12, <1>13

\* A packet's timestamp before it is put in order: it is not early by more than
\* the fragment's timestamp is, nor late by more than rounding adds.
LEMMA LabelBounds ==
  ASSUME IInv, OrderInv, DriftInv, SubmitPacket
  PROVE  \E e \in Errors :
           LET label == buffer_timestamp - Usec(Len(sample_buffer))
           IN /\ label \in Int
              /\ label <= Captured(PacketStart) + e + Rounding
              /\ label >= Captured(PacketStart) + e - Rounding
<1>1. PICK f \in Nat, s \in Nat \ {0}, b \in Nat :
        /\ f = Len(fragment) /\ s = submit_buffer_size
        /\ b = Len(sample_buffer) /\ b < s /\ s - b <= f
  <2>1. Len(fragment) >= FreeLeft /\ Len(sample_buffer) < submit_buffer_size
    BY DEF IInv, CutInv, SubmitPacket
  <2>2. QED  BY <2>1, CutFacts, SizeFits DEF IInv, FreeLeft
<1>2. fragment # <<>> /\ pc = "submit"
  BY DEF IInv, CutInv, SubmitPacket
<1>3. PICK at \in Int, start \in Int :
        at = fragment[1] /\ start = PacketStart /\ start + b = at
  BY <1>1, <1>2, CutPosition DEF PacketStart
<1>4. PICK e \in Errors, k \in Nat : Drifted(e, k)
  BY <1>2 DEF DriftInv
<1>5. PICK m \in Nat : m = MaxFragment \div s /\ MaxFragment \in Nat
                     /\ MaxFragment < s * m + s
  <2>1. MaxFragment \in Nat
    BY LiveAudioAssumption
  <2>2. PICK m \in Nat : m = MaxFragment \div s
    BY <2>1, DivisionNat
  <2>3. MaxFragment < s * m + s
    BY <2>1, <2>2, Division
  <2>4. QED  BY <2>1, <2>2, <2>3
<1>6. k \in 0 .. m
  <2>1. CASE k = 0
    BY <1>5, <2>1
  <2>2. CASE sample_buffer = <<>> /\ k * s + f < MaxFragment + s
    <3>1. b = 0 /\ s <= f
      BY <1>1, <2>2
    <3>2. PICK y \in Nat, z \in Nat : y = k * s /\ z = s * m
      OBVIOUS
    <3>3. y < z + s
      BY <1>5, <2>2, <3>1, <3>2
    <3>4. ASSUME m + 1 <= k PROVE FALSE
      <4>1. (m + 1) * s <= k * s
        BY <3>4, Products
      <4>2. (m + 1) * s = z + s
        BY <3>2
      <4>3. QED  BY <3>2, <3>3, <4>1, <4>2
    <3>5. QED  BY <3>4
  <2>3. QED  BY <1>1, <1>4, <2>1, <2>2 DEF Drifted
<1>7. PICK x \in Nat, l \in Nat, g \in Nat :
        /\ x = k * PacketLag /\ l = PacketLag /\ g = Rounding
        /\ x <= g /\ l <= g
  BY <1>1, <1>5, <1>6, LagBounds
<1>8. PICK c \in Int, d \in Int, u \in Nat :
        /\ c = Captured(at) /\ d = Captured(start) /\ u = Usec(b)
        /\ u <= c - d /\ c - d <= u + l
  <2>1. /\ Usec(b) \in Nat
        /\ Usec(b) <= Captured(start + b) - Captured(start)
        /\ Captured(start + b) - Captured(start) <= Usec(b) + Lag(b)
    BY UsecFalls
  <2>2. Captured(at) \in Int /\ Captured(start) \in Int
    BY CapturedBounds
  <2>3. b \in 0 .. submit_buffer_size
    BY <1>1
  <2>4. Lag(b) \in Nat /\ Lag(b) <= l
    BY <1>7, <2>3, LagBounds
  <2>5. QED  BY <1>3, <2>1, <2>2, <2>4
<1>9. e \in Int /\ buffer_timestamp \in Int
  BY LiveAudioAssumption DEF IInv, TypeOK
<1>10. buffer_timestamp <= c + e /\ c + e <= buffer_timestamp + x
  BY <1>3, <1>4, <1>7, <1>8 DEF Drifted
<1>11. /\ buffer_timestamp - u \in Int
       /\ buffer_timestamp - u <= d + e + g
       /\ buffer_timestamp - u >= d + e - g
  BY <1>7, <1>8, <1>9, <1>10
<1>12. QED  BY <1>1, <1>3, <1>7, <1>8, <1>11

\* Every packet's timestamp is later than the one before, and right.
LEMMA Labelled ==
  ASSUME IInv, OrderInv, DriftInv, LastInv, SubmitPacket
  PROVE  /\ last_timestamp' > last_timestamp
         /\ Within(last_timestamp', Captured(PacketStart), Errors)
<1>1. PICK e \in Errors, label \in Int, c \in Int, g \in Nat :
        /\ label = buffer_timestamp - Usec(Len(sample_buffer))
        /\ c = Captured(PacketStart) /\ g = Rounding
        /\ label <= c + e + g
        /\ label >= c + e - g
  <2>1. PICK at \in Int : at = PacketStart
    BY PacketEnds
  <2>2. Captured(at) \in Int
    BY CapturedBounds
  <2>3. QED  BY <2>1, <2>2, LabelBounds, LagBounds
<1>2. e \in Int /\ last_timestamp \in Nat
  BY LiveAudioAssumption DEF IInv, TypeOK
<1>3. last_timestamp' = IF label <= last_timestamp THEN last_timestamp + 1 ELSE label
  BY <1>1 DEF SubmitPacket, Later
<1>4. last_timestamp' > last_timestamp /\ last_timestamp' >= label
  BY <1>1, <1>2, <1>3
<1>5. \E d \in Errors : last_timestamp' <= c + d + g
  <2>1. CASE last_timestamp < label
    BY <1>1, <1>2, <1>3, <2>1
  <2>2. CASE label <= last_timestamp /\ recorded = <<>>
    <3>1. last_timestamp' = 1
      BY <1>3, <2>2 DEF LastInv
    <3>2. PICK at \in Nat \ {0} : at = PacketStart
      BY PacketEnds
    <3>3. c >= Epoch
      BY <1>1, <3>2, CapturedFirst
    <3>4. Epoch + e > Second /\ Second \in Nat /\ Epoch \in Nat
      BY LiveAudioAssumption
    <3>5. 1 <= c + e + g
      BY <1>1, <1>2, <3>3, <3>4
    <3>6. QED  BY <3>1, <3>5
  <2>3. CASE label <= last_timestamp /\ recorded # <<>>
    <3>1. PICK a \in Int, at \in Int :
            /\ a = recorded[Len(recorded)].at - submit_buffer_size + 1
            /\ at = PacketStart /\ a < at
      BY <2>3, PacketEnds
    <3>2. PICK d \in Errors : last_timestamp <= Captured(a) + d + g
      BY <1>1, <2>3, <3>1 DEF LastInv
    <3>3. Captured(a) < c /\ Captured(a) \in Int
      BY <1>1, <3>1, CapturedGrows, CapturedBounds
    <3>4. d \in Int
      BY LiveAudioAssumption
    <3>5. last_timestamp + 1 <= c + d + g
      <4>1. PICK p \in Int : p = Captured(a) /\ p < c
        BY <3>3
      <4>2. last_timestamp <= p + d + g
        BY <3>2, <4>1
      <4>3. PICK t \in Nat : t = last_timestamp
        BY <1>2
      <4>4. t <= p + d + g /\ d \in Int
        BY <3>4, <4>2, <4>3
      <4>5. t + 1 <= c + d + g
        BY <4>1, <4>4
      <4>6. QED  BY <4>3, <4>5
    <3>6. last_timestamp' = last_timestamp + 1
      BY <1>3, <2>3
    <3>7. QED  BY <3>5, <3>6
  <2>4. QED  BY <1>1, <1>2, <2>1, <2>2, <2>3
<1>6. last_timestamp' >= c + e - g
  <2>1. last_timestamp' \in Int
    BY <1>1, <1>2, <1>3
  <2>2. QED  BY <1>1, <1>2, <1>4, <2>1
<1>7. QED  BY <1>1, <1>4, <1>5, <1>6 DEF Within

LEMMA LastStep ==
  ASSUME IInv, OrderInv, DriftInv, LastInv, [Next]_vars
  PROVE  LastInv'
<1>1. CASE UNCHANGED <<recorded, last_timestamp>>
  BY <1>1 DEF LastInv
<1>2. CASE SubmitPacket
  <2>1. PICK at \in Int : /\ at = PacketStart
                          /\ at = recorded'[Len(recorded')].at
                                     - submit_buffer_size + 1
                          /\ recorded' # <<>>
    BY <1>2, PacketEnds
  <2>2. \E e \in Errors : last_timestamp' <= Captured(at) + e + Rounding
    BY <1>2, <2>1, Labelled DEF Within
  <2>3. QED  BY <2>1, <2>2 DEF LastInv
<1>3. CASE Control
  BY <1>1, <1>3, ControlMoves DEF cutVars, soundVars
<1>4. CASE KeepRest \/ Overrun \/ GetPacket
          \/ \E n \in 1 .. MaxFragment, hole \in BOOLEAN : ProcessFragment(n, hole)
  BY <1>1, <1>4
  DEF KeepRest, Overrun, GetPacket, ProcessFragment, cutVars, soundVars
<1>5. QED  BY <1>2, <1>3, <1>4 DEF Next, Control, Cut

\* Timestamps strictly increase, and each is as far off as some latency was, but
\* for rounding: whatever the sizes of fragments, overruns and the order of
\* latencies, errors do not add up.
THEOREM LabelsAccurate == Spec => TimestampsAccurate
<1> DEFINE TInv == IInv /\ OrderInv /\ DriftInv /\ LastInv
<1>1. Init => TInv
  <2> SUFFICES ASSUME Init PROVE DriftInv /\ LastInv
    BY IInvInit, KeptInit
  <2>1. QED  BY DEF Init, DriftInv, LastInv
<1>2. TInv /\ [Next]_vars => TInv'
  BY IInvStep, OrderStep, DriftStep, LastStep
<1>3. TInv /\ [Next]_vars =>
        [recorded' # recorded =>
           /\ last_timestamp' > last_timestamp
           /\ Within(last_timestamp',
                     Captured(recorded'[Len(recorded')].at - submit_buffer_size + 1),
                     Errors)]_vars
  <2> SUFFICES ASSUME TInv, [Next]_vars, recorded' # recorded
               PROVE  /\ last_timestamp' > last_timestamp
                      /\ Within(last_timestamp',
                                Captured(recorded'[Len(recorded')].at
                                           - submit_buffer_size + 1),
                                Errors)
    OBVIOUS
  <2>1. SubmitPacket
    <3>1. ~Control
      BY ControlMoves DEF soundVars
    <3>2. QED
      BY <3>1 DEF Next, Control, Cut, KeepRest, Overrun, GetPacket, ProcessFragment,
                  soundVars
  <2>2. recorded'[Len(recorded')].at - submit_buffer_size + 1 = PacketStart
    BY <2>1, PacketEnds
  <2>3. QED  BY <2>1, <2>2, Labelled
<1>4. QED  BY <1>1, <1>2, <1>3, PTL DEF Spec, TimestampsAccurate
=============================================================================
