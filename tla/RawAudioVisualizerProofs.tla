----------------------- MODULE RawAudioVisualizerProofs -----------------------
(***************************************************************************)
(* The visualizer's pictures for a ring and packets of any size: a picture *)
(* is of one moment between two packets, its numbers count all of it, and  *)
(* the numbers are those of exactly the packets shown since the last ones. *)
(***************************************************************************)
EXTENDS RawAudioVisualizer, FiniteSetTheorems, WellFoundedInduction, TLAPS

ShowPlaces == {"idle", "count", "sum", "lock", "write", "query"}
DrawPlaces == {"idle", "lock", "copy", "latency", "samples", "draw"}

LEMMA ShowOrder ==
  ASSUME NEW l \in ShowPlaces, Audio(l)
  PROVE  /\ audio = l
         /\ audio' = CASE l = "idle" -> "count" [] l = "count" -> "sum"
                       [] l = "sum" -> "lock" [] l = "lock" -> "write"
                       [] l = "write" -> "query" [] l = "query" -> "idle"
<1>1. PICK i \in DOMAIN ShowSteps :
        /\ ShowSteps[i] = l
        /\ audio' = ShowSteps[(i % Len(ShowSteps)) + 1]
  BY DEF Audio
<1>2. i \in {1, 2, 3, 4, 5, 6} /\ Len(ShowSteps) = 6
  BY <1>1 DEF ShowSteps
<1>3. (i % 6) + 1 = IF i = 6 THEN 1 ELSE i + 1
  BY <1>2
<1>4. /\ ShowSteps[1] = "idle" /\ ShowSteps[2] = "count"
      /\ ShowSteps[3] = "sum" /\ ShowSteps[4] = "lock"
      /\ ShowSteps[5] = "write" /\ ShowSteps[6] = "query"
  BY DEF ShowSteps
<1>5. QED  BY <1>1, <1>2, <1>3, <1>4 DEF Audio, ShowPlaces

LEMMA DrawOrder ==
  ASSUME NEW l \in DrawPlaces, Gtk(l)
  PROVE  /\ gtk = l
         /\ gtk' = CASE l = "idle" -> "lock" [] l = "lock" -> "copy"
                     [] l = "copy" -> "latency" [] l = "latency" -> "samples"
                     [] l = "samples" -> "draw" [] l = "draw" -> "idle"
<1>1. PICK i \in DOMAIN DrawSteps :
        /\ DrawSteps[i] = l
        /\ gtk' = DrawSteps[(i % Len(DrawSteps)) + 1]
  BY DEF Gtk
<1>2. i \in {1, 2, 3, 4, 5, 6} /\ Len(DrawSteps) = 6
  BY <1>1 DEF DrawSteps
<1>3. (i % 6) + 1 = IF i = 6 THEN 1 ELSE i + 1
  BY <1>2
<1>4. /\ DrawSteps[1] = "idle" /\ DrawSteps[2] = "lock"
      /\ DrawSteps[3] = "copy" /\ DrawSteps[4] = "latency"
      /\ DrawSteps[5] = "samples" /\ DrawSteps[6] = "draw"
  BY DEF DrawSteps
<1>5. QED  BY <1>1, <1>2, <1>3, <1>4 DEF Gtk, DrawPlaces

LEMMA MinMax ==
  ASSUME NEW a \in Int, NEW b \in Int
  PROVE  /\ Max({a, b}) = IF a >= b THEN a ELSE b
         /\ Min({a, b}) = IF a <= b THEN a ELSE b
BY DEF Max, Min

\* The ring's index, without the remainder.
LEMMA IndexInRing ==
  ASSUME NEW i \in 0 .. BufferSize - 1, NEW n \in 0 .. BufferSize - 1
  PROVE  (i + n) % BufferSize = IF i + n < BufferSize THEN i + n
                                                      ELSE i + n - BufferSize
BY VisualizerAssumption

LEMMA NextMultiple ==
  ASSUME NEW n \in Nat, NEW s \in Nat \ {0}, n % s = 0
  PROVE  (n + s) % s = 0
<1> DEFINE k == n \div s
<1>1. k \in Int /\ n = s * k + (n % s)
  OBVIOUS
<1>2. n + s = s * (k + 1)
  BY <1>1
<1> HIDE DEF k
<1>3. k + 1 \in Int
  BY <1>1
<1>4. ASSUME NEW j \in Int PROVE (s * j) % s = 0
  OBVIOUS
<1>5. QED  BY <1>2, <1>3, <1>4

-----------------------------------------------------------------------------

TypeInv ==
  /\ stereo_samples \in Nat \ {0}
  /\ audio \in ShowPlaces /\ gtk \in DrawPlaces
  /\ shown \in Nat /\ written \in Nat /\ taken \in Nat /\ drawn \in Nat
  /\ buffer \in [0 .. BufferSize - 1 -> Nat]
  /\ buffer_position \in 0 .. BufferSize - 1
  /\ statistics \in [min : Int, max : Int, sum : Int, buffers : Nat,
                     samples : Nat]
  /\ image \in Seq(Nat)

\* Whoever is at the ring has its lock.
LockInv ==
  /\ audio = "write" <=> buffer_mutex = "audio"
  /\ gtk = "copy" <=> buffer_mutex = "gtk"

\* Show counts a packet's samples before it writes them, one by one.
WrittenInv ==
  /\ shown % stereo_samples = 0
  /\ audio = "idle" \/ audio = "query" => written = shown
  /\ audio = "count" \/ audio = "sum" \/ audio = "lock" =>
       written + stereo_samples = shown
  /\ audio = "write" => written < shown /\ shown <= written + stereo_samples
  /\ audio # "write" => written % stereo_samples = 0
  /\ taken + statistics.samples =
       IF audio = "count" \/ audio = "sum" THEN shown - stereo_samples ELSE shown

\* What the ring holds: behind the position the newest samples, from it on the
\* oldest ones, or silence.
RingInv ==
  /\ buffer_position <= written
  /\ \A j \in 0 .. BufferSize - 1 :
       LET newest == written - buffer_position + j + 1
           oldest == newest - BufferSize
       IN buffer[j] = IF j < buffer_position THEN newest
                      ELSE IF oldest > 0 THEN oldest ELSE 0

\* A copy of the ring as it was when n samples had been written.
CopyOf(n) ==
  \A i \in 1 .. Len(image) :
    image[i] = IF n - BufferSize + i > 0 THEN n - BufferSize + i ELSE 0

ImageInv ==
  /\ Len(image) <= BufferSize
  /\ gtk = "copy" => Len(image) < BufferSize /\ CopyOf(written)
  /\ Len(image) = BufferSize =>
       /\ CopyOf(image[BufferSize])
       /\ image[BufferSize] % stereo_samples = 0
       /\ image[BufferSize] <= taken + statistics.samples
       /\ gtk = "draw" => image[BufferSize] <= taken
  /\ gtk \in {"latency", "samples", "draw"} => Len(image) = BufferSize

IInv == TypeInv /\ LockInv /\ WrittenInv /\ RingInv /\ ImageInv

-----------------------------------------------------------------------------
(* What keeps the parts of the invariant.                                  *)

LEMMA RingKept ==
  ASSUME RingInv, UNCHANGED <<written, buffer, buffer_position>>
  PROVE  RingInv'
BY DEF RingInv

\* Neither the copy nor what it is a copy of changes.
LEMMA ImageKept ==
  ASSUME TypeInv, TypeInv', ImageInv,
         UNCHANGED <<stereo_samples, image, gtk>>,
         gtk = "copy" => written' = written,
         taken' >= taken,
         taken' + statistics'.samples >= taken + statistics.samples
  PROVE  ImageInv'
<1>1. ASSUME NEW n, CopyOf(n) PROVE CopyOf(n)'
  BY <1>1 DEF CopyOf
<1>2. Len(image') <= BufferSize
  BY DEF ImageInv
<1>3. gtk' = "copy" => Len(image') < BufferSize /\ CopyOf(written)'
  BY DEF ImageInv, CopyOf
<1>4. ASSUME Len(image') = BufferSize
      PROVE  /\ CopyOf(image[BufferSize])'
             /\ image'[BufferSize] % stereo_samples' = 0
             /\ image'[BufferSize] <= taken' + statistics'.samples
             /\ gtk' = "draw" => image'[BufferSize] <= taken'
  <2>1. image[BufferSize] \in Nat
    <3>1. image \in Seq(Nat) /\ Len(image) = BufferSize
      BY <1>4 DEF TypeInv
    <3>2. BufferSize \in 1 .. Len(image)
      BY <3>1, VisualizerAssumption
    <3>3. QED  BY <3>1, <3>2
  <2>2. CopyOf(image[BufferSize])'
    BY <1>4 DEF ImageInv, CopyOf
  <2>3. taken \in Nat /\ taken' \in Nat
        /\ statistics.samples \in Nat /\ statistics'.samples \in Nat
    BY DEF TypeInv
  <2>4. QED  BY <1>4, <2>1, <2>2, <2>3 DEF ImageInv
<1>5. gtk' \in {"latency", "samples", "draw"} => Len(image') = BufferSize
  BY DEF ImageInv
<1>6. QED  BY <1>2, <1>3, <1>4, <1>5 DEF ImageInv

LEMMA InitInv == Init => IInv
<1> SUFFICES ASSUME Init PROVE IInv
  OBVIOUS
<1> USE VisualizerAssumption
<1>1. TypeInv
  BY DEF Init, TypeInv, Cleared, ShowPlaces, DrawPlaces
<1>2. LockInv
  BY DEF Init, LockInv
<1>3. WrittenInv
  <2>1. 0 % stereo_samples = 0
    BY <1>1 DEF TypeInv
  <2>2. QED  BY <2>1 DEF Init, WrittenInv, Cleared
<1>4. RingInv
  BY DEF Init, RingInv
<1>5. ImageInv
  BY DEF Init, ImageInv
<1>6. QED  BY <1>1, <1>2, <1>3, <1>4, <1>5 DEF IInv

-----------------------------------------------------------------------------
(* The steps of the audio thread.                                          *)

LEMMA ShowInv ==
  ASSUME IInv, Show PROVE IInv'
<1> USE VisualizerAssumption DEF IInv
<1>1. audio = "idle" /\ audio' = "count"
  BY ShowOrder DEF Show, ShowPlaces
<1>2. /\ shown' = shown + stereo_samples
      /\ UNCHANGED <<stereo_samples, drawVars, ringVars, statVars>>
  BY DEF Show, Audio
<1>3. TypeInv'
  BY <1>1, <1>2 DEF TypeInv, ShowPlaces, drawVars, ringVars, statVars
<1>4. LockInv'
  BY <1>1, <1>2 DEF LockInv, drawVars, ringVars
<1>5. WrittenInv'
  <2>1. shown' % stereo_samples = 0
    BY <1>2, NextMultiple DEF WrittenInv, TypeInv
  <2>2. QED  BY <1>1, <1>2, <2>1 DEF WrittenInv, TypeInv, ringVars, statVars
<1>6. RingInv'
  BY <1>2, RingKept DEF ringVars
<1>7. ImageInv'
  <2>1. /\ UNCHANGED <<stereo_samples, image, gtk, written, taken>>
        /\ UNCHANGED statistics
    BY <1>2 DEF drawVars, ringVars, statVars
  <2>2. taken' >= taken
        /\ taken' + statistics'.samples >= taken + statistics.samples
    BY <2>1 DEF TypeInv
  <2>3. QED  BY <1>3, <2>1, <2>2, ImageKept
<1>8. QED  BY <1>3, <1>4, <1>5, <1>6, <1>7

LEMMA UpdateStatisticsLatencyInv ==
  ASSUME IInv, UpdateStatistics_Latency PROVE IInv'
<1> USE VisualizerAssumption DEF IInv
<1>1. audio = "count" /\ audio' = "sum"
  BY ShowOrder DEF UpdateStatistics_Latency, ShowPlaces
<1>2. UNCHANGED <<stereo_samples, drawVars, ringVars, shown, taken>>
  BY DEF UpdateStatistics_Latency, Audio
<1>3. statistics' \in [min : Int, max : Int, sum : Int, buffers : Nat,
                       samples : Nat]
      /\ statistics'.samples = statistics.samples
  <2>1. PICK latency \in Latencies :
          statistics' = [statistics EXCEPT
            !.buffers = @ + 1, !.sum = @ + latency,
            !.min = Min({@, latency}), !.max = Max({@, latency})]
    BY DEF UpdateStatistics_Latency
  <2>2. latency \in Int /\ statistics.min \in Int /\ statistics.max \in Int
    BY DEF TypeInv
  <2>3. Min({statistics.min, latency}) \in Int
        /\ Max({statistics.max, latency}) \in Int
    BY <2>2, MinMax
  <2>4. statistics \in [min : Int, max : Int, sum : Int, buffers : Nat,
                        samples : Nat]
    BY DEF TypeInv
  <2>5. /\ statistics.sum + latency \in Int
        /\ statistics.buffers + 1 \in Nat
        /\ statistics.samples \in Nat
    BY <2>2, <2>4
  <2>6. QED  BY <2>1, <2>3, <2>4, <2>5
<1>4. TypeInv'
  BY <1>1, <1>2, <1>3 DEF TypeInv, ShowPlaces, drawVars, ringVars
<1>5. LockInv'
  BY <1>1, <1>2 DEF LockInv, drawVars, ringVars
<1>6. WrittenInv'
  BY <1>1, <1>2, <1>3 DEF WrittenInv, TypeInv, ringVars
<1>7. RingInv'
  BY <1>2, RingKept DEF ringVars
<1>8. ImageInv'
  <2>1. UNCHANGED <<stereo_samples, image, gtk, written, taken>>
    BY <1>2 DEF drawVars, ringVars
  <2>2. taken' >= taken
        /\ taken' + statistics'.samples >= taken + statistics.samples
    BY <1>3, <2>1 DEF TypeInv
  <2>3. QED  BY <1>4, <2>1, <2>2, ImageKept
<1>9. QED  BY <1>4, <1>5, <1>6, <1>7, <1>8

LEMMA UpdateStatisticsSamplesInv ==
  ASSUME IInv, UpdateStatistics_Samples PROVE IInv'
<1> USE VisualizerAssumption DEF IInv
<1>1. audio = "sum" /\ audio' = "lock"
  BY ShowOrder DEF UpdateStatistics_Samples, ShowPlaces
<1>2. UNCHANGED <<stereo_samples, drawVars, ringVars, shown, taken>>
  BY DEF UpdateStatistics_Samples, Audio
<1>3. statistics' = [statistics EXCEPT !.samples = @ + stereo_samples]
  BY DEF UpdateStatistics_Samples
<1>4. statistics' \in [min : Int, max : Int, sum : Int, buffers : Nat,
                       samples : Nat]
      /\ statistics'.samples = statistics.samples + stereo_samples
  <2>1. statistics \in [min : Int, max : Int, sum : Int, buffers : Nat,
                        samples : Nat]
    BY DEF TypeInv
  <2>2. statistics.samples + stereo_samples \in Nat
    BY <2>1 DEF TypeInv
  <2>3. QED  BY <1>3, <2>1, <2>2
<1>5. TypeInv'
  BY <1>1, <1>2, <1>4 DEF TypeInv, ShowPlaces, drawVars, ringVars
<1>6. LockInv'
  BY <1>1, <1>2 DEF LockInv, drawVars, ringVars
<1>7. WrittenInv'
  <2>1. taken + statistics.samples = shown - stereo_samples
    BY <1>1 DEF WrittenInv
  <2>2. /\ taken \in Nat /\ statistics.samples \in Nat
        /\ shown \in Nat /\ stereo_samples \in Nat
    BY DEF TypeInv
  <2>3. taken' + statistics'.samples = shown'
    BY <1>2, <1>4, <2>1, <2>2
  <2>4. QED  BY <1>1, <1>2, <2>3 DEF WrittenInv, TypeInv, ringVars
<1>8. RingInv'
  BY <1>2, RingKept DEF ringVars
<1>9. ImageInv'
  <2>1. UNCHANGED <<stereo_samples, image, gtk, written, taken>>
    BY <1>2 DEF drawVars, ringVars
  <2>2. taken' >= taken
        /\ taken' + statistics'.samples >= taken + statistics.samples
    <3>1. taken \in Nat /\ statistics.samples \in Nat /\ stereo_samples \in Nat
      BY DEF TypeInv
    <3> HIDE DEF IInv
    <3>2. QED  BY <1>4, <2>1, <3>1
  <2>3. QED  BY <1>5, <2>1, <2>2, ImageKept
<1>10. QED  BY <1>5, <1>6, <1>7, <1>8, <1>9

\* The lock is taken, or a render callback is asked for.
LEMMA UpdateBufferLockInv ==
  ASSUME IInv, UpdateBuffer_Lock \/ QueryRender PROVE IInv'
<1> USE VisualizerAssumption DEF IInv
<1>1. \/ audio = "lock" /\ audio' = "write"
         /\ buffer_mutex = "free" /\ buffer_mutex' = "audio"
      \/ audio = "query" /\ audio' = "idle" /\ buffer_mutex' = buffer_mutex
  BY ShowOrder
  DEF UpdateBuffer_Lock, QueryRender, BufferFree, ShowPlaces, ringVars
<1>2. UNCHANGED <<stereo_samples, drawVars, shown, written, buffer,
                  buffer_position, statVars>>
  BY DEF UpdateBuffer_Lock, QueryRender, Audio, ringVars
<1>3. TypeInv'
  BY <1>1, <1>2 DEF TypeInv, ShowPlaces, drawVars, statVars
<1>4. LockInv'
  BY <1>1, <1>2 DEF LockInv, drawVars
<1>5. WrittenInv'
  BY <1>1, <1>2 DEF WrittenInv, TypeInv, statVars
<1>6. RingInv'
  BY <1>2, RingKept
<1>7. ImageInv'
  <2>1. UNCHANGED <<stereo_samples, image, gtk, written, taken, statistics>>
    BY <1>2 DEF drawVars, statVars
  <2>2. taken' >= taken
        /\ taken' + statistics'.samples >= taken + statistics.samples
    BY <2>1 DEF TypeInv
  <2>3. QED  BY <1>3, <2>1, <2>2, ImageKept
<1>8. QED  BY <1>3, <1>4, <1>5, <1>6, <1>7
\* A sample overwrites the oldest one.
LEMMA UpdateBufferSampleInv ==
  ASSUME IInv, UpdateBuffer_Sample PROVE IInv'
<1> USE VisualizerAssumption DEF IInv
<1> DEFINE last == written + 1 = shown
<1>1. /\ buffer' = [buffer EXCEPT ![buffer_position] = written + 1]
      /\ buffer_position' = IF buffer_position + 1 >= BufferSize
                            THEN 0 ELSE buffer_position + 1
      /\ written' = written + 1
      /\ UNCHANGED <<shown, statVars, queried>>
  BY DEF UpdateBuffer_Sample, Wrapped
<1>2. /\ audio = "write"
      /\ IF last THEN audio' = "query" /\ buffer_mutex' = "free"
                 ELSE UNCHANGED <<audio, buffer_mutex>>
      /\ UNCHANGED <<stereo_samples, drawVars>>
  <2>1. CASE last
    <3>1. Audio("write") /\ buffer_mutex' = "free"
      BY <2>1 DEF UpdateBuffer_Sample
    <3>2. audio = "write" /\ audio' = "query"
      BY <3>1, ShowOrder DEF ShowPlaces
    <3>3. QED  BY <2>1, <3>1, <3>2 DEF Audio
  <2>2. CASE ~last
    BY <2>2 DEF UpdateBuffer_Sample
  <2>3. QED  BY <2>1, <2>2
<1>3. /\ written \in Nat /\ shown \in Nat /\ stereo_samples \in Nat \ {0}
      /\ buffer_position \in 0 .. BufferSize - 1
      /\ buffer \in [0 .. BufferSize - 1 -> Nat]
  BY DEF TypeInv
<1>4. TypeInv'
  <2>1. /\ written' \in Nat /\ buffer_position' \in 0 .. BufferSize - 1
        /\ buffer' \in [0 .. BufferSize - 1 -> Nat]
    BY <1>1, <1>3
  <2>2. audio' \in ShowPlaces
    BY <1>2 DEF ShowPlaces
  <2>3. QED  BY <1>1, <1>2, <2>1, <2>2 DEF TypeInv, drawVars, statVars
<1>5. LockInv'
  BY <1>1, <1>2 DEF LockInv, drawVars
<1>6. WrittenInv'
  <2>1. written + 1 < shown \/ last
    BY <1>2, <1>3 DEF WrittenInv
  <2>2. shown <= written + 1 + stereo_samples
    BY <1>2, <1>3 DEF WrittenInv
  <2>3. /\ shown % stereo_samples = 0
        /\ taken + statistics.samples = shown
    BY <1>2 DEF WrittenInv
  <2>4. CASE last
    <3>1. /\ written' = shown' /\ audio' = "query"
          /\ written' % stereo_samples' = 0
      BY <1>1, <1>2, <2>3, <2>4
    <3>2. QED  BY <1>1, <1>2, <2>3, <3>1 DEF WrittenInv, statVars
  <2>5. CASE ~last
    <3>1. written' < shown' /\ audio' = "write"
          /\ shown' <= written' + stereo_samples'
      BY <1>1, <1>2, <2>1, <2>2, <2>5
    <3>2. QED  BY <1>1, <1>2, <2>3, <3>1 DEF WrittenInv, statVars
  <2>6. QED  BY <2>4, <2>5
<1>7. RingInv'
  <2>1. buffer_position <= written
    BY DEF RingInv
  <2>2. buffer_position' <= written'
    BY <1>1, <1>3, <2>1
  <2>3. ASSUME NEW j \in 0 .. BufferSize - 1
        PROVE  LET newest == written' - buffer_position' + j + 1
                   oldest == newest - BufferSize
               IN buffer'[j] = IF j < buffer_position' THEN newest
                               ELSE IF oldest > 0 THEN oldest ELSE 0
    <3>1. LET newest == written - buffer_position + j + 1
              oldest == newest - BufferSize
          IN buffer[j] = IF j < buffer_position THEN newest
                         ELSE IF oldest > 0 THEN oldest ELSE 0
      BY DEF RingInv
    <3>2. buffer'[j] = IF j = buffer_position THEN written + 1 ELSE buffer[j]
      BY <1>1, <1>3
    <3>3. CASE buffer_position + 1 >= BufferSize
      <4>1. buffer_position = BufferSize - 1 /\ buffer_position' = 0
        BY <1>1, <1>3, <3>3
      <4>2. QED  BY <1>1, <1>3, <2>1, <3>1, <3>2, <4>1
    <3>4. CASE buffer_position + 1 < BufferSize
      <4>1. buffer_position' = buffer_position + 1
        BY <1>1, <1>3, <3>4
      <4>2. QED  BY <1>1, <1>3, <2>1, <3>1, <3>2, <4>1
    <3>5. QED  BY <1>3, <3>3, <3>4
  <2>4. QED  BY <2>2, <2>3 DEF RingInv
<1>8. ImageInv'
  <2>1. UNCHANGED <<stereo_samples, image, gtk, taken, statistics>>
    BY <1>1, <1>2 DEF drawVars, statVars
  <2>2. taken' >= taken
        /\ taken' + statistics'.samples >= taken + statistics.samples
    BY <2>1 DEF TypeInv
  <2>3. gtk # "copy"
    BY <1>2 DEF LockInv
  <2>4. QED  BY <1>4, <2>1, <2>2, <2>3, ImageKept
<1>9. QED  BY <1>4, <1>5, <1>6, <1>7, <1>8

-----------------------------------------------------------------------------
(* The steps of the rendering thread.                                      *)

\* A render callback starts, or ends with the picture drawn.
LEMMA OnDrawInv ==
  ASSUME IInv, OnDraw \/ Draw PROVE IInv'
<1> USE VisualizerAssumption DEF IInv
<1>1. \/ gtk = "idle" /\ gtk' = "lock" /\ drawn' = drawn
      \/ gtk = "draw" /\ gtk' = "idle" /\ drawn' = image[BufferSize]
  BY DrawOrder DEF OnDraw, Draw, DrawPlaces
<1>2. UNCHANGED <<stereo_samples, audioVars, ringVars, statVars, image>>
  BY DEF OnDraw, Draw, Gtk, ringVars
<1>3. TypeInv'
  <2>1. drawn' \in Nat
    <3>1. CASE gtk = "idle"
      BY <1>1, <3>1 DEF TypeInv
    <3>2. CASE gtk = "draw"
      <4>1. image \in Seq(Nat) /\ BufferSize \in 1 .. Len(image)
        BY <3>2 DEF TypeInv, ImageInv
      <4>2. image[BufferSize] \in Nat
        BY <4>1
      <4>3. QED  BY <1>1, <3>2, <4>2
    <3>3. QED  BY <1>1, <3>1, <3>2
  <2>2. gtk' \in DrawPlaces
    BY <1>1 DEF DrawPlaces
  <2>3. QED  BY <1>2, <2>1, <2>2 DEF TypeInv, audioVars, ringVars, statVars
<1>4. LockInv'
  BY <1>1, <1>2 DEF LockInv, audioVars, ringVars
<1>5. WrittenInv'
  BY <1>2 DEF WrittenInv, audioVars, ringVars, statVars
<1>6. RingInv'
  BY <1>2, RingKept DEF ringVars
<1>7. ImageInv'
  <2>1. UNCHANGED <<stereo_samples, image, written, taken, statistics>>
    BY <1>2 DEF ringVars, statVars
  <2>2. gtk' \notin {"copy", "latency", "samples", "draw"}
    BY <1>1
  <2>3. QED  BY <2>1, <2>2 DEF ImageInv, CopyOf
<1>8. QED  BY <1>3, <1>4, <1>5, <1>6, <1>7

LEMMA DrawLockInv ==
  ASSUME IInv, Draw_Lock PROVE IInv'
<1> USE VisualizerAssumption DEF IInv
<1>1. /\ gtk = "lock" /\ gtk' = "copy"
      /\ buffer_mutex = "free" /\ buffer_mutex' = "gtk" /\ image' = <<>>
  BY DrawOrder DEF Draw_Lock, BufferFree, DrawPlaces
<1>2. UNCHANGED <<stereo_samples, audioVars, written, buffer,
                  buffer_position, statVars, drawn>>
  BY DEF Draw_Lock, Gtk
<1>3. TypeInv'
  BY <1>1, <1>2 DEF TypeInv, DrawPlaces, audioVars, statVars
<1>4. LockInv'
  BY <1>1, <1>2 DEF LockInv, audioVars
<1>5. WrittenInv'
  BY <1>2 DEF WrittenInv, audioVars, statVars
<1>6. RingInv'
  BY <1>2, RingKept
<1>7. ImageInv'
  <2>1. Len(image') = 0 /\ gtk' = "copy"
    BY <1>1
  <2>2. QED  BY <2>1 DEF ImageInv, CopyOf
<1>8. QED  BY <1>3, <1>4, <1>5, <1>6, <1>7
\* The sample copied next.
LEMMA NextSample ==
  ASSUME TypeInv, RingInv, Len(image) < BufferSize
  PROVE  LET n == written - BufferSize + Len(image) + 1
         IN buffer[(buffer_position + Len(image)) % BufferSize] =
              IF n > 0 THEN n ELSE 0
<1> USE VisualizerAssumption
<1> DEFINE k == Len(image)
           j == (buffer_position + k) % BufferSize
<1>1. /\ k \in 0 .. BufferSize - 1
      /\ buffer_position \in 0 .. BufferSize - 1
      /\ written \in Nat /\ BufferSize \in Nat
  BY DEF TypeInv
<1> HIDE DEF k
<1>2. j = IF buffer_position + k < BufferSize THEN buffer_position + k
                                              ELSE buffer_position + k - BufferSize
  BY <1>1, IndexInRing
<1> HIDE DEF j
<1>3. j \in 0 .. BufferSize - 1
  BY <1>1, <1>2
<1>4. buffer_position <= written
      /\ LET newest == written - buffer_position + j + 1
             oldest == newest - BufferSize
         IN buffer[j] = IF j < buffer_position THEN newest
                        ELSE IF oldest > 0 THEN oldest ELSE 0
  BY <1>3 DEF RingInv
<1>5. buffer[j] = LET n == written - BufferSize + k + 1
                  IN IF n > 0 THEN n ELSE 0
  BY <1>1, <1>2, <1>4
<1>6. QED  BY <1>5 DEF j, k

LEMMA DrawSampleInv ==
  ASSUME IInv, Draw_Sample PROVE IInv'
<1> USE VisualizerAssumption DEF IInv
<1> DEFINE sample == buffer[(buffer_position + Len(image)) % BufferSize]
           last == Len(image') = BufferSize
<1>1. image' = Append(image, sample)
      /\ UNCHANGED <<statVars, queried, drawn>>
  BY DEF Draw_Sample
<1>2. /\ gtk = "copy"
      /\ IF last THEN gtk' = "latency" /\ buffer_mutex' = "free"
                 ELSE UNCHANGED <<gtk, buffer_mutex>>
      /\ UNCHANGED <<stereo_samples, audioVars, written, buffer,
                     buffer_position>>
  <2>1. CASE last
    <3>1. Gtk("copy") /\ buffer_mutex' = "free"
      BY <2>1 DEF Draw_Sample
    <3>2. gtk = "copy" /\ gtk' = "latency"
      BY <3>1, DrawOrder DEF DrawPlaces
    <3>3. QED  BY <2>1, <3>1, <3>2 DEF Gtk
  <2>2. CASE ~last
    BY <2>2 DEF Draw_Sample, ringVars
  <2>3. QED  BY <2>1, <2>2
<1>3. image \in Seq(Nat) /\ Len(image) < BufferSize /\ CopyOf(written)
  BY <1>2 DEF TypeInv, ImageInv
<1>4. LET n == written - BufferSize + Len(image) + 1
      IN sample = IF n > 0 THEN n ELSE 0
  BY <1>3, NextSample
<1>5. written \in Nat
  BY DEF TypeInv
<1>6. sample \in Nat
  BY <1>3, <1>4, <1>5
<1> HIDE DEF sample
<1>7. /\ image' \in Seq(Nat) /\ Len(image') = Len(image) + 1
      /\ \A i \in 1 .. Len(image) : image'[i] = image[i]
      /\ image'[Len(image) + 1] = sample
  BY <1>1, <1>3, <1>6
<1>8. \A i \in 1 .. Len(image') :
        image'[i] = IF written - BufferSize + i > 0
                    THEN written - BufferSize + i ELSE 0
  <2>1. ASSUME NEW i \in 1 .. Len(image')
        PROVE  image'[i] = IF written - BufferSize + i > 0
                           THEN written - BufferSize + i ELSE 0
    <3>1. CASE i = Len(image) + 1
      BY <1>3, <1>4, <1>5, <1>7, <3>1
    <3>2. CASE i \in 1 .. Len(image)
      BY <1>3, <1>7, <3>2 DEF CopyOf
    <3>3. QED  BY <1>3, <1>7, <2>1, <3>1, <3>2
  <2>2. QED  BY <2>1
<1>9. TypeInv'
  <2>1. gtk' \in DrawPlaces
    BY <1>2 DEF DrawPlaces
  <2>2. QED  BY <1>1, <1>2, <1>7, <2>1 DEF TypeInv, audioVars, statVars
<1>10. LockInv'
  BY <1>2 DEF LockInv, audioVars
<1>11. WrittenInv'
  BY <1>1, <1>2 DEF WrittenInv, audioVars, statVars
<1>12. RingInv'
  BY <1>2, RingKept
<1>13. ImageInv'
  <2>1. Len(image') <= BufferSize
    BY <1>3, <1>7
  <2>2. written' = written /\ CopyOf(written)'
    BY <1>2, <1>8 DEF CopyOf
  <2>3. CASE ~last
    <3>1. gtk' = "copy" /\ Len(image') < BufferSize
      BY <1>2, <1>3, <1>7, <2>3
    <3>2. QED  BY <2>2, <3>1 DEF ImageInv
  <2>4. CASE last
    <3>1. gtk' = "latency"
      BY <1>2, <2>4
    <3>2. image'[BufferSize] = written
      BY <1>5, <1>8, <2>4
    <3>3. CopyOf(image[BufferSize])'
      BY <1>8, <3>2 DEF CopyOf
    <3>4. audio # "write"
      BY <1>2 DEF LockInv
    <3>5. /\ taken \in Nat /\ statistics.samples \in Nat
          /\ shown \in Nat /\ stereo_samples \in Nat \ {0}
          /\ audio \in ShowPlaces
      BY DEF TypeInv
    <3>6. written % stereo_samples = 0 /\ written <= taken + statistics.samples
      BY <1>5, <3>4, <3>5 DEF WrittenInv, ShowPlaces
    <3>7. UNCHANGED <<stereo_samples, taken, statistics>>
      BY <1>1, <1>2 DEF statVars
    <3>8. QED  BY <2>4, <3>1, <3>2, <3>3, <3>6, <3>7 DEF ImageInv
  <2>5. QED  BY <2>3, <2>4
<1>14. QED  BY <1>9, <1>10, <1>11, <1>12, <1>13

\* The latencies are taken first, then the samples.
LEMMA ClearLatencyInv ==
  ASSUME IInv, ClearStatistics_Latency PROVE IInv'
<1> USE VisualizerAssumption DEF IInv
<1>1. gtk = "latency" /\ gtk' = "samples"
  BY DrawOrder DEF ClearStatistics_Latency, DrawPlaces
<1>2. UNCHANGED <<stereo_samples, audioVars, ringVars, taken, image, drawn>>
  BY DEF ClearStatistics_Latency, Gtk, ringVars
<1>3. /\ statistics'.samples = statistics.samples
      /\ statistics' \in [min : Int, max : Int, sum : Int, buffers : Nat,
                          samples : Nat]
  <2>1. statistics.samples \in Nat
    BY DEF TypeInv
  <2>2. statistics' = [Cleared EXCEPT !.samples = statistics.samples]
    BY DEF ClearStatistics_Latency
  <2>3. QED  BY <2>1, <2>2 DEF Cleared
<1>4. TypeInv'
  BY <1>1, <1>2, <1>3 DEF TypeInv, DrawPlaces, audioVars, ringVars
<1>5. LockInv'
  BY <1>1, <1>2 DEF LockInv, audioVars, ringVars
<1>6. WrittenInv'
  BY <1>2, <1>3 DEF WrittenInv, audioVars, ringVars
<1>7. RingInv'
  BY <1>2, RingKept DEF ringVars
<1>8. ImageInv'
  BY <1>1, <1>2, <1>3 DEF ImageInv, CopyOf
<1>9. QED  BY <1>4, <1>5, <1>6, <1>7, <1>8

LEMMA ClearSamplesInv ==
  ASSUME IInv, ClearStatistics_Samples PROVE IInv'
<1> USE VisualizerAssumption DEF IInv
<1>1. gtk = "samples" /\ gtk' = "draw"
  BY DrawOrder DEF ClearStatistics_Samples, DrawPlaces
<1>2. UNCHANGED <<stereo_samples, audioVars, ringVars, image, drawn>>
  BY DEF ClearStatistics_Samples, Gtk, ringVars
<1>3. statistics.samples \in Nat /\ taken \in Nat
  BY DEF TypeInv
<1>4. /\ statistics'.samples = 0
      /\ taken' = taken + statistics.samples
      /\ statistics' \in [min : Int, max : Int, sum : Int, buffers : Nat,
                          samples : Nat]
  <2>1. statistics' = [statistics EXCEPT !.samples = 0]
        /\ taken' = taken + statistics.samples
    BY DEF ClearStatistics_Samples
  <2>2. QED  BY <2>1 DEF TypeInv
<1>5. TypeInv'
  <2>1. taken' \in Nat
    BY <1>3, <1>4
  <2>2. QED  BY <1>1, <1>2, <1>4, <2>1 DEF TypeInv, DrawPlaces, audioVars, ringVars
<1>6. LockInv'
  BY <1>1, <1>2 DEF LockInv, audioVars, ringVars
<1>7. taken' + statistics'.samples = taken + statistics.samples
  BY <1>3, <1>4
<1>8. WrittenInv'
  BY <1>2, <1>7 DEF WrittenInv, audioVars, ringVars
<1>9. RingInv'
  BY <1>2, RingKept DEF ringVars
<1>10. ImageInv'
  <2>1. Len(image) = BufferSize /\ CopyOf(image[BufferSize])
        /\ image[BufferSize] % stereo_samples = 0
        /\ image[BufferSize] <= taken + statistics.samples
    BY <1>1 DEF ImageInv
  <2>2. CopyOf(image[BufferSize])'
    BY <1>2, <2>1 DEF CopyOf
  <2>3. /\ image'[BufferSize] <= taken'
        /\ image'[BufferSize] <= taken' + statistics'.samples
    BY <1>2, <1>3, <1>4, <2>1
  <2>4. image'[BufferSize] % stereo_samples' = 0 /\ Len(image') = BufferSize
    BY <1>2, <2>1
  <2>5. QED  BY <1>1, <2>2, <2>3, <2>4 DEF ImageInv
<1>11. QED  BY <1>5, <1>6, <1>8, <1>9, <1>10

-----------------------------------------------------------------------------

THEOREM Invariance == Spec => []IInv
<1>1. IInv /\ [Next]_vars => IInv'
  <2> SUFFICES ASSUME IInv, [Next]_vars PROVE IInv'
    OBVIOUS
  <2>1. CASE Show  BY <2>1, ShowInv
  <2>2. CASE UpdateStatistics_Latency  BY <2>2, UpdateStatisticsLatencyInv
  <2>3. CASE UpdateStatistics_Samples  BY <2>3, UpdateStatisticsSamplesInv
  <2>4. CASE UpdateBuffer_Lock \/ QueryRender  BY <2>4, UpdateBufferLockInv
  <2>5. CASE UpdateBuffer_Sample  BY <2>5, UpdateBufferSampleInv
  <2>6. CASE OnDraw \/ Draw  BY <2>6, OnDrawInv
  <2>7. CASE Draw_Lock  BY <2>7, DrawLockInv
  <2>8. CASE Draw_Sample  BY <2>8, DrawSampleInv
  <2>9. CASE ClearStatistics_Latency  BY <2>9, ClearLatencyInv
  <2>10. CASE ClearStatistics_Samples  BY <2>10, ClearSamplesInv
  <2>11. CASE UNCHANGED vars
    BY <2>11 DEF vars, audioVars, ringVars, statVars, drawVars, IInv, TypeInv,
                 LockInv, WrittenInv, RingInv, ImageInv, CopyOf
  <2>12. QED
    BY <2>1, <2>2, <2>3, <2>4, <2>5, <2>6, <2>7, <2>8, <2>9, <2>10, <2>11
    DEF Next, Update, Render
<1>2. QED  BY InitInv, <1>1, PTL DEF Spec

\* A picture is of one moment between two packets, for a ring and packets of
\* any size: no part of a packet, no gap, no sample out of order.
THEOREM PicturesUntorn == Spec => []PictureUntorn
<1>1. IInv => PictureUntorn
  <2> SUFFICES ASSUME IInv, Len(image) = BufferSize
               PROVE  /\ image = Newest(image[BufferSize])
                      /\ image[BufferSize] % stereo_samples = 0
    BY DEF PictureUntorn
  <2> USE VisualizerAssumption
  <2> DEFINE n == image[BufferSize]
  <2>1. image \in Seq(Nat) /\ BufferSize \in 1 .. Len(image)
    BY DEF IInv, TypeInv
  <2>2. n \in Nat /\ n % stereo_samples = 0 /\ CopyOf(n)
    BY <2>1 DEF IInv, ImageInv
  <2> HIDE DEF n
  <2>3. ASSUME NEW i \in 1 .. BufferSize
        PROVE  image[i] = Max({0, n - BufferSize + i})
    <3>1. n - BufferSize + i \in Int
      BY <2>2
    <3>2. Max({0, n - BufferSize + i}) =
            IF 0 >= n - BufferSize + i THEN 0 ELSE n - BufferSize + i
      BY <3>1, MinMax
    <3>3. image[i] = IF n - BufferSize + i > 0 THEN n - BufferSize + i ELSE 0
      BY <2>2 DEF CopyOf
    <3>4. QED  BY <3>1, <3>2, <3>3
  <2>4. image = [i \in 1 .. BufferSize |-> image[i]]
    BY <2>1
  <2>5. image = Newest(n)
    BY <2>3, <2>4 DEF Newest
  <2>6. QED  BY <2>2, <2>5 DEF n
<1>2. QED  BY <1>1, Invariance, PTL

\* The numbers drawn with a picture count every sample of it.
THEOREM PicturesCounted == Spec => []PictureCounted
<1>1. IInv => PictureCounted
  BY DEF IInv, ImageInv, PictureCounted
<1>2. QED  BY <1>1, Invariance, PTL
-----------------------------------------------------------------------------
(* The sum of a sequence.                                                  *)

\* Induction over the naturals, for a set.
LEMMA NatSetInduction ==
  ASSUME NEW T, 0 \in T, \A n \in Nat : n \in T => n + 1 \in T
  PROVE  \A n \in Nat : n \in T
<1> DEFINE B == Nat \ T
<1>1. SUFFICES ASSUME B # {} PROVE FALSE
  OBVIOUS
<1>2. \E x \in B : \A y \in B : ~ (<<y, x>> \in OpToRel(<, Nat))
  BY <1>1, NatLessThanWellFounded, WFMin
<1>3. PICK x \in B : \A y \in B : ~ (<<y, x>> \in OpToRel(<, Nat))
  BY <1>2
<1>4. x \in Nat \ {0}
  OBVIOUS
<1>5. x - 1 \in Nat /\ x - 1 < x
  BY <1>4
<1>6. <<x - 1, x>> \in OpToRel(<, Nat)
  BY <1>4, <1>5 DEF OpToRel
<1>7. x - 1 \in T
  BY <1>3, <1>5, <1>6
<1>8. x - 1 + 1 = x
  BY <1>4
<1>9. QED  BY <1>3, <1>5, <1>7, <1>8

\* Induction over the subsets of a finite set, for a set.
LEMMA SubsetInduction ==
  ASSUME NEW D, IsFiniteSet(D), NEW T,
         \A s \in SUBSET D : (\A x \in s : s \ {x} \in T) => s \in T
  PROVE  \A s \in SUBSET D : s \in T
<1> DEFINE N == {n \in Nat : \A s \in SUBSET D : Cardinality(s) = n => s \in T}
<1>1. \A s \in SUBSET D : IsFiniteSet(s) /\ Cardinality(s) \in Nat
  BY FS_Subset, FS_CardinalityType
<1>2. 0 \in N
  <2>1. \A s \in SUBSET D : Cardinality(s) = 0 => s = {}
    BY <1>1, FS_EmptySet
  <2>2. {} \in T
    OBVIOUS
  <2>3. QED  BY <2>1, <2>2
<1>3. ASSUME NEW n \in Nat, n \in N PROVE n + 1 \in N
  <2> SUFFICES ASSUME NEW s \in SUBSET D, Cardinality(s) = n + 1 PROVE s \in T
    OBVIOUS
  <2>1. ASSUME NEW x \in s PROVE s \ {x} \in T
    <3>1. Cardinality(s \ {x}) = Cardinality(s) - 1
      BY <1>1, FS_RemoveElement
    <3>2. Cardinality(s \ {x}) = n
      BY <3>1
    <3>3. QED  BY <1>3, <3>2
  <2>2. QED  BY <2>1
<1> HIDE DEF N
<1>4. \A n \in Nat : n \in N
  BY <1>2, <1>3, NatSetInduction
<1>5. QED  BY <1>1, <1>4 DEF N

Pick(S) == CHOOSE x \in S : TRUE

IsTotal(g, f, S) ==
  g = [s \in SUBSET S |-> IF s = {} THEN 0 ELSE f[Pick(s)] + g[s \ {Pick(s)}]]

\* The function by which the sum is defined.
LEMMA FoldIs ==
  ASSUME NEW f
  PROVE  FoldFunction(+, 0, f) = (CHOOSE g : IsTotal(g, f, DOMAIN f))[DOMAIN f]
BY DEF FoldFunction, FoldFunctionOnSet, MapThenFoldSet, IsTotal, Pick

\* There is one: by induction on the cardinality up to which it is one.
LEMMA TotalExists ==
  ASSUME NEW D, IsFiniteSet(D), NEW f \in [D -> Int]
  PROVE  \E g : IsTotal(g, f, D)
<1> DEFINE Value(g, s) == IF s = {} THEN 0 ELSE f[Pick(s)] + g[s \ {Pick(s)}]
           N == {k \in Nat : \E g \in [SUBSET D -> Int] : \A s \in SUBSET D :
                               Cardinality(s) <= k => g[s] = Value(g, s)}
<1>1. \A s \in SUBSET D : IsFiniteSet(s) /\ Cardinality(s) \in Nat
  BY FS_Subset, FS_CardinalityType
<1>2. \A s \in SUBSET D : s # {} => Pick(s) \in s
  BY DEF Pick
<1>3. 0 \in N
  <2>1. \A s \in SUBSET D : Cardinality(s) <= 0 => s = {}
    BY <1>1, FS_EmptySet
  <2> DEFINE g == [s \in SUBSET D |-> 0]
  <2>2. g \in [SUBSET D -> Int]
    OBVIOUS
  <2>3. \A s \in SUBSET D : Cardinality(s) <= 0 => g[s] = Value(g, s)
    BY <2>1
  <2>4. QED  BY <2>2, <2>3
<1>4. ASSUME NEW k \in Nat, k \in N PROVE k + 1 \in N
  <2>1. PICK g \in [SUBSET D -> Int] : \A s \in SUBSET D :
          Cardinality(s) <= k => g[s] = Value(g, s)
    BY <1>4
  <2> DEFINE h == [s \in SUBSET D |-> Value(g, s)]
  <2>2. ASSUME NEW s \in SUBSET D, s # {}
        PROVE  /\ f[Pick(s)] \in Int /\ s \ {Pick(s)} \in SUBSET D
               /\ Cardinality(s \ {Pick(s)}) = Cardinality(s) - 1
    <3>1. Pick(s) \in s /\ Pick(s) \in D
      BY <1>2, <2>2
    <3>2. Cardinality(s \ {Pick(s)}) = Cardinality(s) - 1
      BY <1>1, <3>1, FS_RemoveElement
    <3>3. QED  BY <3>1, <3>2
  <2>3. h \in [SUBSET D -> Int]
    <3>1. ASSUME NEW s \in SUBSET D PROVE Value(g, s) \in Int
      <4>1. CASE s = {}
        BY <4>1
      <4>2. CASE s # {}
        <5>1. f[Pick(s)] \in Int /\ g[s \ {Pick(s)}] \in Int
          BY <2>2, <4>2
        <5>2. PICK a \in Int, b \in Int : a = f[Pick(s)] /\ b = g[s \ {Pick(s)}]
          BY <5>1
        <5>3. Value(g, s) = a + b
          BY <4>2, <5>2
        <5>4. QED  BY <5>3
      <4>3. QED  BY <4>1, <4>2
    <3>2. QED  BY <3>1
  <2>4. ASSUME NEW s \in SUBSET D, Cardinality(s) <= k + 1
        PROVE  h[s] = Value(h, s)
    <3>1. CASE s = {}
      BY <3>1
    <3>2. CASE s # {}
      <4> DEFINE t == s \ {Pick(s)}
      <4>1. t \in SUBSET D /\ Cardinality(t) <= k
        BY <1>1, <2>2, <2>4, <3>2
      <4>2. g[t] = Value(g, t)
        BY <2>1, <4>1
      <4>3. h[t] = Value(g, t)
        BY <4>1
      <4>4. h[s] = f[Pick(s)] + g[t]
        BY <3>2
      <4>5. QED  BY <3>2, <4>2, <4>3, <4>4
    <3>3. QED  BY <3>1, <3>2
  <2>5. \E i \in [SUBSET D -> Int] : \A s \in SUBSET D :
          Cardinality(s) <= k + 1 => i[s] = Value(i, s)
    <3> HIDE DEF h
    <3>1. QED  BY <2>3, <2>4
  <2>6. QED  BY <2>5
<1> HIDE DEF N
<1>5. Cardinality(D) \in N
  BY <1>1, <1>3, <1>4, NatSetInduction
<1>6. PICK g \in [SUBSET D -> Int] : \A s \in SUBSET D :
        Cardinality(s) <= Cardinality(D) => g[s] = Value(g, s)
  BY <1>5 DEF N
<1>7. \A s \in SUBSET D : Cardinality(s) <= Cardinality(D)
  BY FS_Subset
<1>8. g = [s \in SUBSET D |-> Value(g, s)]
  BY <1>6, <1>7
<1>9. QED  BY <1>8 DEF IsTotal

LEMMA TotalIs ==
  ASSUME NEW D, NEW f, NEW g, IsTotal(g, f, D)
  PROVE  /\ g[{}] = 0
         /\ \A s \in SUBSET D : s # {} =>
              /\ Pick(s) \in s
              /\ g[s] = f[Pick(s)] + g[s \ {Pick(s)}]
<1>1. \A s \in SUBSET D :
        g[s] = IF s = {} THEN 0 ELSE f[Pick(s)] + g[s \ {Pick(s)}]
  BY DEF IsTotal
<1>2. QED  BY <1>1 DEF Pick

LEMMA TotalType ==
  ASSUME NEW D, IsFiniteSet(D), NEW f \in [D -> Int], NEW g, IsTotal(g, f, D)
  PROVE  \A s \in SUBSET D : g[s] \in Int
<1> DEFINE T == {s \in SUBSET D : g[s] \in Int}
<1>1. ASSUME NEW s \in SUBSET D, \A x \in s : s \ {x} \in T PROVE s \in T
  <2>1. CASE s = {}
    BY <2>1, TotalIs
  <2>2. CASE s # {}
    <3>1. Pick(s) \in s /\ g[s] = f[Pick(s)] + g[s \ {Pick(s)}]
      BY <2>2, TotalIs
    <3>2. g[s \ {Pick(s)}] \in Int /\ f[Pick(s)] \in Int
      BY <1>1, <3>1
    <3>3. QED  BY <3>1, <3>2
  <2>3. QED  BY <2>1, <2>2
<1> HIDE DEF T
<1>2. \A s \in SUBSET D : s \in T
  BY <1>1, SubsetInduction
<1>3. QED  BY <1>2 DEF T

\* The order in which the elements are picked does not matter.
LEMMA TotalRemove ==
  ASSUME NEW D, IsFiniteSet(D), NEW f \in [D -> Int], NEW g, IsTotal(g, f, D)
  PROVE  \A x \in D : g[D] = f[x] + g[D \ {x}]
<1> DEFINE T == {s \in SUBSET D : \A x \in s : g[s] = f[x] + g[s \ {x}]}
<1>1. ASSUME NEW s \in SUBSET D, \A x \in s : s \ {x} \in T PROVE s \in T
  <2> SUFFICES ASSUME NEW x \in s PROVE g[s] = f[x] + g[s \ {x}]
    OBVIOUS
  <2>1. PICK y \in s : g[s] = f[y] + g[s \ {y}]
    <3>1. Pick(s) \in s /\ g[s] = f[Pick(s)] + g[s \ {Pick(s)}]
      BY TotalIs
    <3>2. QED  BY <3>1
  <2>2. CASE y # x
    <3>1. g[s \ {y}] = f[x] + g[(s \ {y}) \ {x}]
      BY <1>1, <2>2
    <3>2. g[s \ {x}] = f[y] + g[(s \ {x}) \ {y}]
      BY <1>1, <2>2
    <3>3. (s \ {y}) \ {x} = (s \ {x}) \ {y}
      OBVIOUS
    <3>4. PICK r \in Int : r = g[(s \ {x}) \ {y}]
      BY TotalType
    <3>5. PICK a \in Int, b \in Int : a = f[x] /\ b = f[y]
      OBVIOUS
    <3>6. g[s] = b + (a + r) /\ g[s \ {x}] = b + r
      BY <2>1, <3>1, <3>2, <3>3, <3>4, <3>5
    <3>7. QED  BY <3>5, <3>6
  <2>3. QED  BY <2>1, <2>2
<1> HIDE DEF T
<1>2. \A s \in SUBSET D : s \in T
  BY <1>1, SubsetInduction
<1>3. D \in T
  BY <1>2
<1>4. QED  BY <1>3 DEF T

\* It depends on the values summed only.
LEMMA TotalAgrees ==
  ASSUME NEW D, IsFiniteSet(D), NEW E, D \subseteq E, NEW f, NEW h,
         \A x \in D : f[x] = h[x],
         NEW g, IsTotal(g, f, D), NEW k, IsTotal(k, h, E)
  PROVE  g[D] = k[D]
<1> DEFINE T == {s \in SUBSET D : g[s] = k[s]}
<1>1. ASSUME NEW s \in SUBSET D, \A x \in s : s \ {x} \in T PROVE s \in T
  <2>1. CASE s = {}
    BY <2>1, TotalIs
  <2>2. CASE s # {}
    <3>1. Pick(s) \in s /\ g[s] = f[Pick(s)] + g[s \ {Pick(s)}]
      BY <2>2, TotalIs
    <3>2. k[s] = h[Pick(s)] + k[s \ {Pick(s)}]
      BY <2>2, TotalIs
    <3>3. g[s \ {Pick(s)}] = k[s \ {Pick(s)}]
      BY <1>1, <3>1
    <3>4. QED  BY <3>1, <3>2, <3>3
  <2>3. QED  BY <2>1, <2>2
<1> HIDE DEF T
<1>2. \A s \in SUBSET D : s \in T
  BY <1>1, SubsetInduction
<1>3. QED  BY <1>2 DEF T

Total(s) == FoldFunction(+, 0, s)

LEMMA TotalEmpty == Total(<<>>) = 0
<1>1. DOMAIN <<>> = {} /\ <<>> \in [{} -> Int]
  OBVIOUS
<1>2. PICK g : g = CHOOSE k : IsTotal(k, <<>>, {})
  OBVIOUS
<1>3. IsTotal(g, <<>>, {})
  BY <1>1, <1>2, TotalExists, FS_EmptySet
<1>4. QED  BY <1>1, <1>2, <1>3, FoldIs, TotalIs DEF Total

\* The sum of a longer sequence: the last element is picked first.
LEMMA TotalAppend ==
  ASSUME NEW S \in SUBSET Int, NEW s \in Seq(S), NEW x \in S
  PROVE  /\ Total(s) \in Int
         /\ Total(Append(s, x)) = Total(s) + x
<1>n. PICK n \in Nat : n = Len(s)
  OBVIOUS
<1>r. PICK r : r = Append(s, x)
  OBVIOUS
<1>1. /\ r \in Seq(S) /\ Len(r) = n + 1 /\ r[n + 1] = x
      /\ \A i \in 1 .. n : r[i] = s[i]
  BY <1>n, <1>r
<1>2. /\ s \in [1 .. n -> Int] /\ DOMAIN s = 1 .. n
      /\ r \in [1 .. n + 1 -> Int] /\ DOMAIN r = 1 .. n + 1
  <2>1. s \in [1 .. n -> S] /\ r \in [1 .. n + 1 -> S]
    BY <1>1, <1>n
  <2>2. S \subseteq Int
    OBVIOUS
  <2>3. QED  BY <2>1, <2>2
<1>3. IsFiniteSet(1 .. n) /\ IsFiniteSet(1 .. n + 1)
  BY FS_Interval
<1>4. PICK g, k : /\ IsTotal(g, s, 1 .. n) /\ IsTotal(k, r, 1 .. n + 1)
                  /\ Total(s) = g[1 .. n] /\ Total(r) = k[1 .. n + 1]
  <2>1. IsTotal(CHOOSE g : IsTotal(g, s, 1 .. n), s, 1 .. n)
    BY <1>2, <1>3, TotalExists
  <2>2. IsTotal(CHOOSE g : IsTotal(g, r, 1 .. n + 1), r, 1 .. n + 1)
    BY <1>2, <1>3, TotalExists
  <2>3. /\ Total(s) = (CHOOSE g : IsTotal(g, s, 1 .. n))[1 .. n]
        /\ Total(r) = (CHOOSE g : IsTotal(g, r, 1 .. n + 1))[1 .. n + 1]
    BY <1>2, FoldIs DEF Total
  <2>4. QED  BY <2>1, <2>2, <2>3
<1>5. g[1 .. n] \in Int
  BY <1>2, <1>3, <1>4, TotalType
<1>6. 1 .. n \subseteq 1 .. n + 1 /\ (1 .. n + 1) \ {n + 1} = 1 .. n
      /\ n + 1 \in 1 .. n + 1
  BY <1>1
<1>d. PICK D, E : D = 1 .. n /\ E = 1 .. n + 1
  OBVIOUS
<1>7. g[1 .. n] = k[1 .. n]
  <2>1. D \subseteq E /\ IsFiniteSet(D) /\ \A i \in D : s[i] = r[i]
    BY <1>1, <1>3, <1>6, <1>d
  <2>2. IsTotal(g, s, D) /\ IsTotal(k, r, E)
    BY <1>4, <1>d
  <2>3. ASSUME NEW sub \in SUBSET D PROVE sub \in SUBSET E
    BY <2>1
  <2>4. k[D] = g[D]
    BY <2>1, <2>2, TotalAgrees
  <2>5. QED  BY <1>d, <2>4
<1>8. k[1 .. n + 1] = r[n + 1] + k[1 .. n]
  <2>1. IsFiniteSet(E) /\ r \in [E -> Int] /\ IsTotal(k, r, E)
    BY <1>2, <1>3, <1>4, <1>d
  <2>2. n + 1 \in E /\ E \in SUBSET E /\ E \ {n + 1} = D
    BY <1>6, <1>d
  <2>3. \A i \in E : k[E] = r[i] + k[E \ {i}]
    BY <2>1, TotalRemove
  <2>4. k[E] = r[n + 1] + k[E \ {n + 1}]
    BY <2>2, <2>3
  <2>5. QED  BY <1>d, <2>2, <2>4
<1>9. Total(s) \in Int
  BY <1>4, <1>5
<1>10. Total(r) = x + Total(s)
  BY <1>1, <1>4, <1>7, <1>8
<1>11. QED  BY <1>9, <1>10, <1>r

-----------------------------------------------------------------------------
(* The statistics.                                                         *)

Least(m, S)    == m \in S /\ \A x \in S : m <= x
Greatest(m, S) == m \in S /\ \A x \in S : m >= x

\* There is one at most, which Min and Max choose.
LEMMA Extremes ==
  ASSUME NEW S \in SUBSET Int, NEW m
  PROVE  /\ Least(m, S) => m = Min(S)
         /\ Greatest(m, S) => m = Max(S)
<1>1. ASSUME Least(m, S) PROVE m = Min(S)
  <2>1. PICK c : c = Min(S)
    OBVIOUS
  <2>2. c \in S /\ \A x \in S : c <= x
    BY <1>1, <2>1 DEF Least, Min
  <2>3. m \in Int /\ c \in Int /\ m <= c /\ c <= m
    BY <1>1, <2>2 DEF Least
  <2>4. QED  BY <2>1, <2>3
<1>2. ASSUME Greatest(m, S) PROVE m = Max(S)
  <2>1. PICK c : c = Max(S)
    OBVIOUS
  <2>2. c \in S /\ \A x \in S : c >= x
    BY <1>2, <2>1 DEF Greatest, Max
  <2>3. m \in Int /\ c \in Int /\ m >= c /\ c >= m
    BY <1>2, <2>2 DEF Greatest
  <2>4. QED  BY <2>1, <2>3
<1>3. QED  BY <1>1, <1>2

LEMMA RangeAppend ==
  ASSUME NEW S, NEW s \in Seq(S), NEW x \in S
  PROVE  /\ Range(s) \subseteq S
         /\ Range(Append(s, x)) = Range(s) \cup {x}
<1>n. PICK n \in Nat : n = Len(s)
  OBVIOUS
<1>r. PICK r : r = Append(s, x)
  OBVIOUS
<1>1. n = Len(s) /\ r = Append(s, x) /\ r \in Seq(S)
  BY <1>n, <1>r
<1>2. /\ DOMAIN s = 1 .. n /\ DOMAIN r = 1 .. n + 1
      /\ r[n + 1] = x /\ \A i \in 1 .. n : r[i] = s[i] /\ s[i] \in S
  BY <1>1
<1>3. Range(s) = {s[i] : i \in 1 .. n} /\ Range(r) = {r[i] : i \in 1 .. n + 1}
  BY <1>2 DEF Range
<1>4. 1 .. n + 1 = (1 .. n) \cup {n + 1}
  BY <1>1
<1>5. Range(r) = Range(s) \cup {x}
  BY <1>2, <1>3, <1>4
<1>6. QED  BY <1>1, <1>2, <1>3, <1>5

\* The statistics add up at every step.  Their lock keeps the samples for the
\* time that they lag behind the buffers: while Show is between the two, or
\* Draw, which has no buffers then.
LatencyInv ==
  /\ latencies \in Seq(Latencies)
  /\ statistics.buffers = Len(latencies)
  /\ statistics.sum = Total(latencies)
  /\ Least(statistics.min, Range(latencies) \cup {NoMin})
  /\ Greatest(statistics.max, Range(latencies) \cup {NoMax})

SampleInv ==
  /\ statistics_mutex \in {"free", "audio", "gtk"}
  /\ statistics_mutex = "audio" <=> audio = "sum"
  /\ statistics_mutex = "gtk" <=> gtk = "samples"
  /\ statistics_mutex = "free" =>
       statistics.samples = statistics.buffers * stereo_samples
  /\ statistics_mutex = "audio" =>
       statistics.samples + stereo_samples =
         statistics.buffers * stereo_samples
  /\ statistics_mutex = "gtk" => statistics.buffers = 0

LEMMA ClearedLatency ==
  latencies = <<>> /\ statistics.buffers = 0 /\ statistics.sum = 0
  /\ statistics.min = NoMin /\ statistics.max = NoMax
    => LatencyInv
<1> SUFFICES ASSUME latencies = <<>>, statistics.buffers = 0,
                    statistics.sum = 0, statistics.min = NoMin,
                    statistics.max = NoMax
             PROVE  LatencyInv
  OBVIOUS
<1>1. /\ latencies \in Seq(Latencies) /\ Len(latencies) = 0
      /\ Range(latencies) = {}
  BY DEF Range
<1>2. /\ Least(NoMin, {NoMin}) /\ Greatest(NoMax, {NoMax})
  BY VisualizerAssumption DEF Least, Greatest
<1>3. Total(latencies) = 0
  BY TotalEmpty
<1>4. QED  BY <1>1, <1>2, <1>3 DEF LatencyInv

LEMMA CountedLatency ==
  ASSUME TypeInv, LatencyInv, UpdateStatistics_Latency
  PROVE  LatencyInv' /\ statistics'.buffers = statistics.buffers + 1
         /\ statistics'.samples = statistics.samples
<1> USE VisualizerAssumption
<1>1. PICK latency \in Latencies :
        /\ statistics' = [statistics EXCEPT
             !.buffers = @ + 1, !.sum = @ + latency,
             !.min = Min({@, latency}), !.max = Max({@, latency})]
        /\ latencies' = Append(latencies, latency)
  BY DEF UpdateStatistics_Latency
<1>2. statistics \in [min : Int, max : Int, sum : Int, buffers : Nat,
                      samples : Nat]
  BY DEF TypeInv
<1>3. /\ statistics'.buffers = statistics.buffers + 1
      /\ statistics'.sum = statistics.sum + latency
      /\ statistics'.min = Min({statistics.min, latency})
      /\ statistics'.max = Max({statistics.max, latency})
      /\ statistics'.samples = statistics.samples
  BY <1>1, <1>2
<1>4. latency \in Int /\ Latencies \subseteq Int
  OBVIOUS
<1>5. latencies \in Seq(Latencies) /\ Latencies \in SUBSET Int
  BY <1>4 DEF LatencyInv
<1>6. /\ latencies' \in Seq(Latencies)
      /\ Len(latencies') = Len(latencies) + 1
  BY <1>1, <1>5
<1>7. Total(latencies') = Total(latencies) + latency
  BY <1>1, <1>4, <1>5, TotalAppend
<1>8. Range(latencies) \subseteq Latencies
      /\ Range(latencies') = Range(latencies) \cup {latency}
  BY <1>1, <1>5, RangeAppend
<1>9. PICK S, T : S = Range(latencies) /\ T = Range(latencies')
  OBVIOUS
<1>10. S \in SUBSET Int /\ T = S \cup {latency}
  BY <1>4, <1>8, <1>9
<1>11. Least(statistics'.min, T \cup {NoMin})
  <2>a. PICK a \in Int : a = statistics.min
    BY <1>2
  <2>b. PICK b : b = statistics'.min
    OBVIOUS
  <2>1. a = statistics.min /\ b = statistics'.min
    BY <2>a, <2>b
  <2>2. a \in S \cup {NoMin} /\ \A x \in S \cup {NoMin} : a <= x
    BY <1>9, <2>1 DEF LatencyInv, Least
  <2>3. b = IF a <= latency THEN a ELSE latency
    BY <1>3, <1>4, <2>1, MinMax
  <2>4. b \in T \cup {NoMin}
    BY <1>10, <2>2, <2>3
  <2>5. ASSUME NEW x \in T \cup {NoMin} PROVE b <= x
    <3>1. CASE x = latency
      BY <1>4, <2>3, <3>1
    <3>2. CASE x \in S \cup {NoMin}
      <4>1. x \in Int /\ a <= x
        BY <1>10, <2>2, <3>2
      <4>2. QED  BY <1>4, <2>3, <4>1
    <3>3. QED  BY <1>10, <2>5, <3>1, <3>2
  <2>6. QED  BY <2>1, <2>4, <2>5 DEF Least
<1>12. Greatest(statistics'.max, T \cup {NoMax})
  <2>a. PICK a \in Int : a = statistics.max
    BY <1>2
  <2>b. PICK b : b = statistics'.max
    OBVIOUS
  <2>1. a = statistics.max /\ b = statistics'.max
    BY <2>a, <2>b
  <2>2. a \in S \cup {NoMax} /\ \A x \in S \cup {NoMax} : a >= x
    BY <1>9, <2>1 DEF LatencyInv, Greatest
  <2>3. b = IF a >= latency THEN a ELSE latency
    BY <1>3, <1>4, <2>1, MinMax
  <2>4. b \in T \cup {NoMax}
    BY <1>10, <2>2, <2>3
  <2>5. ASSUME NEW x \in T \cup {NoMax} PROVE b >= x
    <3>1. CASE x = latency
      BY <1>4, <2>3, <3>1
    <3>2. CASE x \in S \cup {NoMax}
      <4>1. x \in Int /\ a >= x
        BY <1>10, <2>2, <3>2
      <4>2. QED  BY <1>4, <2>3, <4>1
    <3>3. QED  BY <1>10, <2>5, <3>1, <3>2
  <2>6. QED  BY <2>1, <2>4, <2>5 DEF Greatest
<1>13. statistics'.buffers = Len(latencies')
  BY <1>3, <1>6 DEF LatencyInv
<1>14. statistics'.sum = Total(latencies')
  BY <1>3, <1>7 DEF LatencyInv
<1>15. LatencyInv'
  <2>1. Least(statistics.min, Range(latencies) \cup {NoMin})'
    BY <1>9, <1>11 DEF Least
  <2>2. Greatest(statistics.max, Range(latencies) \cup {NoMax})'
    BY <1>9, <1>12 DEF Greatest
  <2>3. QED  BY <1>6, <1>13, <1>14, <2>1, <2>2 DEF LatencyInv
<1>16. QED  BY <1>3, <1>15

LEMMA StatisticsStep ==
  ASSUME IInv, LatencyInv, SampleInv, [Next]_vars
  PROVE  LatencyInv' /\ SampleInv'
<1> USE VisualizerAssumption
<1>t. /\ stereo_samples \in Nat
      /\ statistics \in [min : Int, max : Int, sum : Int, buffers : Nat,
                         samples : Nat]
      /\ audio \in ShowPlaces /\ gtk \in DrawPlaces
  BY DEF IInv, TypeInv
<1>1. ASSUME UNCHANGED <<statVars, stereo_samples>>,
             audio = "sum" <=> audio' = "sum",
             gtk = "samples" <=> gtk' = "samples"
      PROVE  LatencyInv' /\ SampleInv'
  BY <1>1 DEF LatencyInv, SampleInv, statVars
<1>2. CASE Show \/ UpdateBuffer_Lock \/ QueryRender
  <2>1. /\ audio \in {"idle", "lock", "query"}
        /\ audio' \in {"count", "write", "idle"}
    BY <1>2, ShowOrder
    DEF Show, UpdateBuffer_Lock, QueryRender, ShowPlaces
  <2>2. UNCHANGED <<statVars, stereo_samples, gtk>>
    BY <1>2 DEF Show, UpdateBuffer_Lock, QueryRender, Audio, drawVars
  <2>3. QED  BY <1>1, <2>1, <2>2
<1>3. CASE UpdateBuffer_Sample
  <2>1. UNCHANGED statVars
    BY <1>3 DEF UpdateBuffer_Sample
  <2>2. /\ UNCHANGED <<stereo_samples, gtk>>
        /\ audio = "write" /\ audio' \in {"write", "query"}
    <3>1. CASE written + 1 = shown
      <4>1. Audio("write")
        BY <1>3, <3>1 DEF UpdateBuffer_Sample
      <4>2. QED  BY <4>1, ShowOrder DEF Audio, ShowPlaces, drawVars
    <3>2. CASE written + 1 # shown
      BY <1>3, <3>2 DEF UpdateBuffer_Sample, drawVars
    <3>3. QED  BY <3>1, <3>2
  <2>3. QED  BY <1>1, <2>1, <2>2
<1>4. CASE OnDraw \/ Draw_Lock \/ Draw
  <2>1. /\ gtk \in {"idle", "lock", "draw"}
        /\ gtk' \in {"lock", "copy", "idle"}
    BY <1>4, DrawOrder DEF OnDraw, Draw_Lock, Draw, DrawPlaces
  <2>2. UNCHANGED <<statVars, stereo_samples, audio>>
    BY <1>4 DEF OnDraw, Draw_Lock, Draw, Gtk, audioVars
  <2>3. QED  BY <1>1, <2>1, <2>2
<1>5. CASE Draw_Sample
  <2>1. UNCHANGED statVars
    BY <1>5 DEF Draw_Sample
  <2>2. /\ UNCHANGED <<stereo_samples, audio>>
        /\ gtk = "copy" /\ gtk' \in {"copy", "latency"}
    <3>1. CASE Len(image') = BufferSize
      <4>1. Gtk("copy")
        BY <1>5, <3>1 DEF Draw_Sample
      <4>2. QED  BY <4>1, DrawOrder DEF Gtk, DrawPlaces, audioVars
    <3>2. CASE Len(image') # BufferSize
      BY <1>5, <3>2 DEF Draw_Sample, audioVars
    <3>3. QED  BY <3>1, <3>2
  <2>3. QED  BY <1>1, <2>1, <2>2
<1>6. CASE UpdateStatistics_Latency
  <2>1. /\ audio' = "sum" /\ statistics_mutex = "free"
        /\ statistics_mutex' = "audio"
    BY <1>6, ShowOrder
    DEF UpdateStatistics_Latency, StatisticsFree, ShowPlaces
  <2>2. UNCHANGED <<stereo_samples, gtk>>
    BY <1>6 DEF UpdateStatistics_Latency, Audio, drawVars
  <2>3. /\ LatencyInv' /\ statistics'.buffers = statistics.buffers + 1
        /\ statistics'.samples = statistics.samples
    BY <1>6, CountedLatency DEF IInv
  <2>4. PICK b \in Nat, n \in Nat, k \in Nat :
          b = statistics.buffers /\ n = stereo_samples /\ k = statistics.samples
    BY <1>t
  <2>5. k = b * n
    BY <2>1, <2>4 DEF SampleInv
  <2>6. k + n = (b + 1) * n
    BY <2>5
  <2>7. statistics'.samples + stereo_samples' =
          statistics'.buffers * stereo_samples'
    BY <2>2, <2>3, <2>4, <2>6
  <2>8. gtk # "samples"
    BY <2>1 DEF SampleInv
  <2>9. SampleInv'
    BY <2>1, <2>2, <2>7, <2>8 DEF SampleInv
  <2>10. QED  BY <2>3, <2>9
<1>7. CASE UpdateStatistics_Samples
  <2>1. audio = "sum" /\ audio' = "lock" /\ statistics_mutex' = "free"
    BY <1>7, ShowOrder DEF UpdateStatistics_Samples, ShowPlaces
  <2>2. UNCHANGED <<stereo_samples, gtk, latencies>>
    BY <1>7 DEF UpdateStatistics_Samples, Audio, drawVars
  <2>3. /\ statistics'.samples = statistics.samples + stereo_samples
        /\ statistics'.buffers = statistics.buffers
        /\ statistics'.sum = statistics.sum
        /\ statistics'.min = statistics.min /\ statistics'.max = statistics.max
    BY <1>7, <1>t DEF UpdateStatistics_Samples
  <2>4. LatencyInv'
    BY <2>2, <2>3 DEF LatencyInv
  <2>5. SampleInv'
    BY <2>1, <2>2, <2>3 DEF SampleInv
  <2>6. QED  BY <2>4, <2>5
<1>8. CASE ClearStatistics_Latency
  <2>1. /\ gtk' = "samples" /\ statistics_mutex = "free"
        /\ statistics_mutex' = "gtk"
    BY <1>8, DrawOrder DEF ClearStatistics_Latency, StatisticsFree, DrawPlaces
  <2>2. UNCHANGED <<stereo_samples, audio>>
    BY <1>8 DEF ClearStatistics_Latency, Gtk, audioVars
  <2>3. /\ latencies' = <<>> /\ statistics'.buffers = 0
        /\ statistics'.sum = 0 /\ statistics'.min = NoMin
        /\ statistics'.max = NoMax
    BY <1>8 DEF ClearStatistics_Latency, Cleared
  <2>4. (latencies = <<>> /\ statistics.buffers = 0 /\ statistics.sum = 0
         /\ statistics.min = NoMin /\ statistics.max = NoMax => LatencyInv)'
    BY ClearedLatency, PTL
  <2>5. SampleInv'
    BY <2>1, <2>2, <2>3 DEF SampleInv
  <2>6. QED  BY <2>3, <2>4, <2>5
<1>9. CASE ClearStatistics_Samples
  <2>1. /\ gtk = "samples" /\ gtk' = "draw" /\ statistics_mutex' = "free"
    BY <1>9, DrawOrder DEF ClearStatistics_Samples, DrawPlaces
  <2>2. UNCHANGED <<stereo_samples, audio, latencies>>
    BY <1>9 DEF ClearStatistics_Samples, Gtk, audioVars
  <2>3. /\ statistics'.samples = 0
        /\ statistics'.buffers = statistics.buffers
        /\ statistics'.sum = statistics.sum
        /\ statistics'.min = statistics.min /\ statistics'.max = statistics.max
    BY <1>9, <1>t DEF ClearStatistics_Samples
  <2>4. LatencyInv'
    BY <2>2, <2>3 DEF LatencyInv
  <2>5. statistics_mutex = "gtk" /\ statistics.buffers = 0
    BY <2>1 DEF SampleInv
  <2>6. 0 = 0 * stereo_samples
    BY <1>t
  <2>7. SampleInv'
    BY <2>1, <2>2, <2>3, <2>5, <2>6 DEF SampleInv
  <2>8. QED  BY <2>4, <2>7
<1>10. CASE UNCHANGED vars
  <2>1. UNCHANGED <<statVars, stereo_samples, audio, gtk>>
    BY <1>10 DEF vars, audioVars, drawVars
  <2>2. QED  BY <1>1, <2>1
<1>11. QED
  BY <1>2, <1>3, <1>4, <1>5, <1>6, <1>7, <1>8, <1>9, <1>10
  DEF Next, Update, Render

LEMMA StatisticsInit == Init => LatencyInv /\ SampleInv
<1> SUFFICES ASSUME Init PROVE LatencyInv /\ SampleInv
  OBVIOUS
<1>1. LatencyInv
  BY ClearedLatency DEF Init, Cleared
<1>2. stereo_samples \in Nat /\ 0 = 0 * stereo_samples
  BY VisualizerAssumption DEF Init
<1>3. SampleInv
  BY <1>2 DEF Init, Cleared, SampleInv
<1>4. QED  BY <1>1, <1>3

\* The numbers under a picture are those of exactly the packets shown since the
\* last ones, for latencies of any number and order: Draw takes buffers and
\* samples at two moments and Show adds them at two, with the lock kept between.
THEOREM StatisticsKept == Spec => []StatisticsExact
<1>1. IInv /\ LatencyInv /\ SampleInv => StatisticsExact
  <2> SUFFICES ASSUME IInv, LatencyInv, SampleInv, statistics_mutex = "free"
               PROVE  /\ statistics.buffers = Len(latencies)
                      /\ statistics.min = Min(Range(latencies) \cup {NoMin})
                      /\ statistics.max = Max(Range(latencies) \cup {NoMax})
                      /\ statistics.sum = FoldFunction(+, 0, latencies)
                      /\ statistics.samples =
                           statistics.buffers * stereo_samples
                      /\ taken + statistics.samples =
                           IF audio = "count" THEN shown - stereo_samples
                                              ELSE shown
    BY DEF StatisticsExact
  <2>1. Range(latencies) \subseteq Int
    <3>1. \A i \in DOMAIN latencies : latencies[i] \in Latencies
      BY DEF LatencyInv
    <3>2. QED  BY <3>1, VisualizerAssumption DEF Range
  <2>2. /\ Range(latencies) \cup {NoMin} \in SUBSET Int
        /\ Range(latencies) \cup {NoMax} \in SUBSET Int
    BY <2>1, VisualizerAssumption
  <2>3. /\ statistics.min = Min(Range(latencies) \cup {NoMin})
        /\ statistics.max = Max(Range(latencies) \cup {NoMax})
    BY <2>2, Extremes DEF LatencyInv
  <2>4. statistics.sum = FoldFunction(+, 0, latencies)
    BY DEF LatencyInv, Total
  <2>5. statistics.buffers = Len(latencies)
        /\ statistics.samples = statistics.buffers * stereo_samples
    BY DEF LatencyInv, SampleInv
  <2>6. taken + statistics.samples =
          IF audio = "count" THEN shown - stereo_samples ELSE shown
    BY DEF IInv, WrittenInv, SampleInv
  <2>7. QED  BY <2>3, <2>4, <2>5, <2>6
<1>2. QED
  BY <1>1, Invariance, StatisticsInit, StatisticsStep, PTL DEF Spec

-----------------------------------------------------------------------------
(* The ranges.                                                             *)

\* A multiple that is less is less by the factor.
LEMMA RoomForPacket ==
  ASSUME NEW n \in Nat, NEW m \in Nat, NEW s \in Nat \ {0},
         n % s = 0, n < m * s
  PROVE  n + s <= m * s
<1>1. PICK k \in Int : n = s * k
  <2>1. n \div s \in Int /\ n = s * (n \div s) + (n % s)
    OBVIOUS
  <2>2. QED  BY <2>1
<1>2. CASE k >= m
  <2>1. PICK d \in Nat : k = m + d
    <3>1. k - m \in Nat /\ k = m + (k - m)
      BY <1>2
    <3>2. QED  BY <3>1
  <2>2. s * k = m * s + s * d
    BY <2>1
  <2>3. s * d >= 0
    OBVIOUS
  <2>4. QED  BY <1>1, <2>2, <2>3
<1>3. CASE k < m
  <2>1. PICK d \in Nat : m = k + 1 + d
    <3>1. m - k - 1 \in Nat /\ m = k + 1 + (m - k - 1)
      BY <1>3
    <3>2. QED  BY <3>1
  <2>2. m * s = s * k + s + s * d
    BY <2>1
  <2>3. s * d >= 0
    OBVIOUS
  <2>4. QED  BY <1>1, <2>2, <2>3
<1>4. QED  BY <1>2, <1>3

\* What is written and taken has been shown.
LEMMA NotAhead ==
  IInv /\ shown \in Positions => written \in Positions /\ taken \in Positions
<1> SUFFICES ASSUME IInv, shown \in Positions
             PROVE  written \in Positions /\ taken \in Positions
  OBVIOUS
<1>1. /\ stereo_samples \in Nat \ {0} /\ audio \in ShowPlaces
      /\ shown \in Nat /\ written \in Nat /\ taken \in Nat
      /\ statistics.samples \in Nat
  BY DEF IInv, TypeInv
<1>2. PICK top \in Int : top = MaxPackets * stereo_samples
  BY <1>1, VisualizerAssumption
<1>3. shown <= top
  BY <1>2 DEF Positions
<1>4. written <= shown
  BY <1>1 DEF IInv, WrittenInv, ShowPlaces
<1>5. taken <= shown
  BY <1>1 DEF IInv, WrittenInv
<1>6. written \in 0 .. top /\ taken \in 0 .. top
  BY <1>1, <1>2, <1>3, <1>4, <1>5
<1>7. QED  BY <1>2, <1>6 DEF Positions

RangeInv ==
  /\ stereo_samples \in PacketSizes
  /\ shown \in Positions /\ drawn \in Positions
  /\ buffer \in [0 .. BufferSize - 1 -> Positions]
  /\ buffer_mutex \in {"free", "audio", "gtk"}
  /\ queried \in BOOLEAN
  /\ image \in Seq(Positions)

LEMMA RangeInit == Init => RangeInv
<1> SUFFICES ASSUME Init PROVE RangeInv
  OBVIOUS
<1>1. PICK top \in Nat : top = MaxPackets * stereo_samples
  BY VisualizerAssumption DEF Init
<1>2. 0 \in Positions
  BY <1>1 DEF Positions
<1>3. buffer \in [0 .. BufferSize - 1 -> Positions] /\ image \in Seq(Positions)
  BY <1>2 DEF Init
<1>4. QED  BY <1>2, <1>3 DEF Init, RangeInv

LEMMA RangeStep ==
  ASSUME IInv, IInv', RangeInv, [Next]_vars PROVE RangeInv'
<1> USE VisualizerAssumption
<1>1. stereo_samples' = stereo_samples
  BY DEF vars, Next, Update, Render, Show, UpdateStatistics_Latency,
     UpdateStatistics_Samples, UpdateBuffer_Lock, UpdateBuffer_Sample,
     QueryRender, OnDraw, Draw_Lock, Draw_Sample, ClearStatistics_Latency,
     ClearStatistics_Samples, Draw, Audio, Gtk
<1>2. PICK top \in Nat : top = MaxPackets * stereo_samples
  BY DEF IInv, TypeInv
<1>3. Positions = 0 .. top /\ Positions' = 0 .. top
  BY <1>1, <1>2 DEF Positions
<1>4. shown' \in Positions
  <2>1. CASE Show
    <3>1. /\ shown \in Nat /\ shown % stereo_samples = 0
          /\ stereo_samples \in Nat \ {0}
      BY DEF IInv, TypeInv, WrittenInv
    <3>2. shown < MaxPackets * stereo_samples
          /\ shown' = shown + stereo_samples
      BY <2>1 DEF Show
    <3>3. shown + stereo_samples <= MaxPackets * stereo_samples
      BY <3>1, <3>2, RoomForPacket
    <3>4. QED  BY <1>2, <1>3, <3>1, <3>2, <3>3
  <2>2. CASE ~Show
    <3>1. shown' = shown
      BY <2>2
      DEF vars, audioVars, Next, Update, Render, UpdateStatistics_Latency,
          UpdateStatistics_Samples, UpdateBuffer_Lock, UpdateBuffer_Sample,
          QueryRender, OnDraw, Draw_Lock, Draw_Sample, ClearStatistics_Latency,
          ClearStatistics_Samples, Draw, Gtk
    <3>2. QED  BY <3>1 DEF RangeInv
  <2>3. QED  BY <2>1, <2>2
<1>5. written' \in Positions
  <2>1. (IInv /\ shown \in Positions
           => written \in Positions /\ taken \in Positions)'
    BY NotAhead, PTL
  <2>2. QED  BY <1>3, <1>4, <2>1
<1>6. buffer' \in [0 .. BufferSize - 1 -> Positions]
  <2>1. CASE UpdateBuffer_Sample
    <3>1. /\ buffer' = [buffer EXCEPT ![buffer_position] = written + 1]
          /\ written' = written + 1
      BY <2>1 DEF UpdateBuffer_Sample
    <3>2. QED  BY <1>5, <3>1 DEF RangeInv
  <2>2. CASE ~UpdateBuffer_Sample
    <3>1. buffer' = buffer
      BY <2>2
      DEF vars, ringVars, Next, Update, Render, Show, UpdateStatistics_Latency,
          UpdateStatistics_Samples, UpdateBuffer_Lock, QueryRender, OnDraw,
          Draw_Lock, Draw_Sample, ClearStatistics_Latency,
          ClearStatistics_Samples, Draw, Gtk
    <3>2. QED  BY <3>1 DEF RangeInv
  <2>3. QED  BY <2>1, <2>2
<1>7. image' \in Seq(Positions)
  <2>1. CASE Draw_Sample
    <3>1. PICK j : j = (buffer_position + Len(image)) % BufferSize
      OBVIOUS
    <3>2. image' = Append(image, buffer[j])
      BY <2>1, <3>1 DEF Draw_Sample
    <3>3. PICK n \in Int : n = buffer_position + Len(image)
      BY DEF IInv, TypeInv
    <3>4. j \in 0 .. BufferSize - 1
      BY <3>1, <3>3
    <3>5. buffer[j] \in Positions /\ image \in Seq(Positions)
      BY <3>4 DEF RangeInv
    <3>6. QED  BY <3>2, <3>5
  <2>2. CASE ~Draw_Sample
    <3>1. image' = image \/ image' = <<>>
      BY <2>2
      DEF vars, drawVars, Next, Update, Render, Show, UpdateStatistics_Latency,
          UpdateStatistics_Samples, UpdateBuffer_Lock, UpdateBuffer_Sample,
          QueryRender, OnDraw, Draw_Lock, ClearStatistics_Latency,
          ClearStatistics_Samples, Draw, Audio
    <3>2. QED  BY <3>1 DEF RangeInv
  <2>3. QED  BY <2>1, <2>2
<1>8. drawn' \in Positions
  <2>1. CASE Draw
    <3>1. gtk = "draw" /\ drawn' = image[BufferSize]
      BY <2>1 DEF Draw, Gtk
    <3>2. BufferSize \in 1 .. Len(image)
      BY <3>1 DEF IInv, ImageInv
    <3>3. QED  BY <3>1, <3>2 DEF RangeInv
  <2>2. CASE ~Draw
    <3>1. drawn' = drawn
      BY <2>2
      DEF vars, drawVars, Next, Update, Render, Show, UpdateStatistics_Latency,
          UpdateStatistics_Samples, UpdateBuffer_Lock, UpdateBuffer_Sample,
          QueryRender, OnDraw, Draw_Lock, Draw_Sample, ClearStatistics_Latency,
          ClearStatistics_Samples, Audio
    <3>2. QED  BY <3>1 DEF RangeInv
  <2>3. QED  BY <2>1, <2>2
<1>9. buffer_mutex' \in {"free", "audio", "gtk"} /\ queried' \in BOOLEAN
  BY DEF RangeInv, vars, ringVars, Next, Update, Render, Show,
     UpdateStatistics_Latency, UpdateStatistics_Samples, UpdateBuffer_Lock,
     UpdateBuffer_Sample, QueryRender, OnDraw, Draw_Lock, Draw_Sample,
     ClearStatistics_Latency, ClearStatistics_Samples, Draw
<1>10. QED
  BY <1>1, <1>3, <1>4, <1>6, <1>7, <1>8, <1>9 DEF RangeInv

\* The variables stay in their ranges: above all, no position is after the last
\* sample shown, and the ring's position stays in the ring.
THEOREM TypeCorrect == Spec => []TypeOK
<1>1. IInv /\ LatencyInv /\ SampleInv /\ RangeInv => TypeOK
  <2> SUFFICES ASSUME IInv, LatencyInv, SampleInv, RangeInv PROVE TypeOK
    OBVIOUS
  <2>1. audio \in {ShowSteps[i] : i \in DOMAIN ShowSteps}
    <3>1. /\ DOMAIN ShowSteps = {1, 2, 3, 4, 5, 6}
          /\ ShowSteps[1] = "idle" /\ ShowSteps[2] = "count"
          /\ ShowSteps[3] = "sum" /\ ShowSteps[4] = "lock"
          /\ ShowSteps[5] = "write" /\ ShowSteps[6] = "query"
      BY DEF ShowSteps
    <3>2. audio \in ShowPlaces
      BY DEF IInv, TypeInv
    <3>3. QED  BY <3>1, <3>2 DEF ShowPlaces
  <2>2. gtk \in {DrawSteps[i] : i \in DOMAIN DrawSteps}
    <3>1. /\ DOMAIN DrawSteps = {1, 2, 3, 4, 5, 6}
          /\ DrawSteps[1] = "idle" /\ DrawSteps[2] = "lock"
          /\ DrawSteps[3] = "copy" /\ DrawSteps[4] = "latency"
          /\ DrawSteps[5] = "samples" /\ DrawSteps[6] = "draw"
      BY DEF DrawSteps
    <3>2. gtk \in DrawPlaces
      BY DEF IInv, TypeInv
    <3>3. QED  BY <3>1, <3>2 DEF DrawPlaces
  <2>3. written \in Positions /\ taken \in Positions
    BY NotAhead DEF RangeInv
  <2>4. /\ buffer_position \in 0 .. BufferSize - 1
        /\ statistics \in [min : Int, max : Int, sum : Int,
                           buffers : Nat, samples : Nat]
        /\ Len(image) <= BufferSize
    BY DEF IInv, TypeInv, ImageInv
  <2>5. QED
    BY <2>1, <2>2, <2>3, <2>4 DEF TypeOK, RangeInv, LatencyInv, SampleInv
<1>2. Spec => []RangeInv
  BY Invariance, RangeInit, RangeStep, PTL DEF Spec
<1>3. Spec => [](LatencyInv /\ SampleInv)
  BY Invariance, StatisticsInit, StatisticsStep, PTL DEF Spec
<1>4. QED  BY <1>1, <1>2, <1>3, Invariance, PTL
=============================================================================
