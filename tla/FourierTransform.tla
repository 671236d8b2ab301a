--------------------------- MODULE FourierTransform ---------------------------
(***************************************************************************)
(* The Fourier transform of zamt (dft_fftw/src/FourierTransform.cpp): it   *)
(* subscribes a callback to the audio source, which transforms each packet *)
(* and submits the result to a source of its own.                          *)
(*                                                                         *)
(* The scheduler is what it promises, PacketExchange; its workers take the *)
(* earliest packet first and may be in the callback at once.  They share   *)
(* FFTW's buffers and the next timestamp.  Data is the number of the audio *)
(* packet it is of; Mixed where two workers race in the buffers.  An        *)
(* assertion that fails aborts the program, as it does in a Debug build.   *)
(***************************************************************************)
EXTENDS Integers, Sequences, FiniteSets

CONSTANTS Workers,     \* of the scheduler, as many as were asked for
          NumPackets,  \* the pool of the audio source
          NumResults,  \* the pool of the own source: 42
          MaxPackets   \* bounds the audio packets subscribed to

ASSUME FourierAssumption ==
  /\ IsFiniteSet(Workers)
  /\ NumPackets \in Nat \ {0} /\ NumResults \in Nat \ {0}
  /\ MaxPackets \in Nat

VARIABLES
  status, due, reading, subscribed,  \* of the exchange
  main,                   \* where Initialize is
  content,                \* per audio packet: its number
  submitted,              \* audio packets submitted to the callback
  pc, packet, data, time, \* per worker: the callback's location and locals
  input,                  \* the worker object's
  timestamp,              \* the callback's static
  results,                \* results submitted: of what, labelled how
  overlapped              \* two callbacks were under way at once

exchangeVars == <<status, due, reading, subscribed>>
callbackVars == <<pc, packet, data, time, input, timestamp, results,
                  overlapped>>
vars == <<exchangeVars, main, content, submitted, callbackVars>>

Larger == IF NumPackets > NumResults THEN NumPackets ELSE NumResults

Exchange == INSTANCE PacketExchange
              WITH Sources <- {"audio", "dft"}, Packets <- 1 .. Larger,
                   Sinks <- {"dft"}, SourceOf <- [k \in {"dft"} |-> "audio"]

BugOneResultLess == 1 .. NumResults - 1
ResultPool       == 1 .. NumResults
AudioPool        == 1 .. NumPackets

Mixed == 0

\* Nothing goes on.
Aborted == main = "aborted"

\* LiveAudio has registered its source.
Init ==
  /\ Exchange!Init
  /\ main = "subscribe"
  /\ content = [p \in AudioPool |-> Mixed]
  /\ submitted = 0
  /\ pc = [w \in Workers |-> "idle"]
  /\ packet = [w \in Workers |-> 1]
  /\ data = [w \in Workers |-> Mixed]
  /\ time = [w \in Workers |-> 0]
  /\ input = Mixed
  /\ timestamp = 0
  /\ results = <<>>
  /\ overlapped = FALSE

-----------------------------------------------------------------------------
(* Initialize, once the worker object was made and tried out.              *)

Initialize_Subscribe ==
  /\ main = "subscribe"
  /\ main' = "register"
  /\ Exchange!Join("dft")
  /\ UNCHANGED <<content, submitted, callbackVars>>

Initialize_RegisterSource ==
  /\ main = "register"
  /\ main' = "done"
  /\ UNCHANGED <<exchangeVars, content, submitted, callbackVars>>

-----------------------------------------------------------------------------
(* The audio source.                                                       *)

Audio_Acquire(p) ==
  /\ ~Aborted
  /\ submitted < MaxPackets
  /\ \A q \in AudioPool : status["audio"][q] # "filling"
  /\ Exchange!Acquire("audio", p)
  /\ content' = [content EXCEPT ![p] = submitted + 1]
  /\ UNCHANGED <<main, submitted, callbackVars>>

Audio_Submit(p) ==
  /\ ~Aborted
  /\ Exchange!Publish("audio", p)
  /\ submitted' = IF due'["audio"][p] = {} THEN submitted ELSE submitted + 1
  /\ UNCHANGED <<main, content, callbackVars>>

Audio_Reclaim(p) ==
  /\ ~Aborted
  /\ Exchange!Reclaim("audio", p)
  /\ UNCHANGED <<main, content, submitted, callbackVars>>

-----------------------------------------------------------------------------
(* The callback.                                                           *)

BugReleasesFirst == <<"release", "copy", "add", "transform", "acquire", "read",
                      "write", "submit", "finish">>
BugNeverReleases == <<"copy", "add", "transform", "acquire", "read", "write",
                      "submit", "finish">>
BugNoResult      == <<"copy", "release", "add", "transform">>
Steps            == <<"copy", "release", "add", "transform", "acquire", "read",
                      "write", "submit", "finish">>

At(w, l) == pc[w] = l
Locations == {"idle"} \cup {Steps[i] : i \in DOMAIN Steps}

\* The step after this one, if the worker is at this one.
Take(w, l) ==
  /\ ~Aborted
  /\ At(w, l)
  /\ \E i \in DOMAIN Steps :
       /\ Steps[i] = l
       /\ pc' = [pc EXCEPT ![w] =
                   IF i = Len(Steps) THEN "idle" ELSE Steps[i + 1]]
  /\ UNCHANGED <<main, content, submitted, overlapped>>

\* What a worker leaves in a buffer, or finds there.
Outcomes(w, value) ==
  LET Racing == {v \in Workers \ {w} : pc[v] \in {"add", "transform"}}
  IN {value} \cup {Mixed : v \in Racing}

\* As soon as Subscribe has returned, which is before Initialize has.
Callback_Start(w) ==
  /\ ~Aborted
  /\ At(w, "idle")
  /\ \E p \in AudioPool :
       /\ \A q \in AudioPool : due["audio"][q] # {} => content[p] <= content[q]
       /\ Exchange!Give("audio", p, "dft")
       /\ packet' = [packet EXCEPT ![w] = p]
  /\ pc' = [pc EXCEPT ![w] = Steps[1]]
  /\ overlapped' = (overlapped \/ \E v \in Workers : ~At(v, "idle"))
  /\ UNCHANGED <<main, content, submitted, data, time, input, timestamp,
                 results>>

Callback_Copy(w) ==
  /\ Take(w, "copy")
  /\ data' = [data EXCEPT ![w] = content[packet[w]]]
  /\ UNCHANGED <<exchangeVars, packet, time, input, timestamp, results>>

ReleasePacket(w) ==
  /\ Take(w, "release")
  /\ Exchange!Done("audio", packet[w], "dft")
  /\ UNCHANGED <<packet, data, time, input, timestamp, results>>

addData(w) ==
  /\ Take(w, "add")
  /\ input' \in Outcomes(w, data[w])
  /\ UNCHANGED <<exchangeVars, packet, data, time, timestamp, results>>

transform(w) ==
  /\ Take(w, "transform")
  /\ \E d \in Outcomes(w, input) : data' = [data EXCEPT ![w] = d]
  /\ UNCHANGED <<exchangeVars, packet, time, input, timestamp, results>>

ResultFree == \E p \in ResultPool : status["dft"][p] = "free"

\* Finding no source fails an assertion, and so does getting no packet.
GetPacketForSubmission_Fails(w) ==
  /\ At(w, "acquire")
  /\ main # "done" \/ ~ResultFree
  /\ main' = "aborted"
  /\ UNCHANGED <<exchangeVars, content, submitted, callbackVars>>

GetPacketForSubmission(w) ==
  /\ Take(w, "acquire")
  /\ main = "done"
  /\ \E p \in ResultPool :
       Exchange!Acquire("dft", p) /\ packet' = [packet EXCEPT ![w] = p]
  /\ UNCHANGED <<data, time, input, timestamp, results>>

\* timestamp++ reads, then writes.
Timestamp_Read(w) ==
  /\ Take(w, "read")
  /\ time' = [time EXCEPT ![w] = timestamp]
  /\ UNCHANGED <<exchangeVars, packet, data, input, timestamp, results>>

Timestamp_Write(w) ==
  /\ Take(w, "write")
  /\ timestamp' = time[w] + 1
  /\ UNCHANGED <<exchangeVars, packet, data, time, input, results>>

SubmitPacket(w) ==
  /\ Take(w, "submit")
  /\ Exchange!Publish("dft", packet[w])
  /\ results' = Append(results, [of |-> data[w], time |-> time[w]])
  /\ data' = [data EXCEPT ![w] = Mixed]
  /\ time' = [time EXCEPT ![w] = 0]
  /\ UNCHANGED <<packet, input, timestamp>>

\* Nobody is subscribed to results: the packet is free at once.
Submit_Reclaim(w) ==
  /\ Take(w, "finish")
  /\ Exchange!Reclaim("dft", packet[w])
  /\ packet' = [packet EXCEPT ![w] = 1]
  /\ UNCHANGED <<data, time, input, timestamp, results>>

-----------------------------------------------------------------------------

Audio(p) == Audio_Acquire(p) \/ Audio_Submit(p) \/ Audio_Reclaim(p)

Callback(w) ==
  \/ Callback_Start(w) \/ Callback_Copy(w) \/ ReleasePacket(w) \/ addData(w)
  \/ transform(w) \/ GetPacketForSubmission(w) \/ GetPacketForSubmission_Fails(w)
  \/ Timestamp_Read(w) \/ Timestamp_Write(w) \/ SubmitPacket(w)
  \/ Submit_Reclaim(w)

Finished ==
  /\ \/ Aborted
     \/ /\ submitted = MaxPackets
        /\ \A p \in AudioPool : status["audio"][p] = "free"
        /\ \A w \in Workers : At(w, "idle")
  /\ UNCHANGED vars

Next ==
  \/ Initialize_Subscribe \/ Initialize_RegisterSource
  \/ \E p \in AudioPool : Audio(p)
  \/ \E w \in Workers : Callback(w)
  \/ Finished

Spec == Init /\ [][Next]_vars

\* Workers and the main thread go on; nobody has to record audio.
FairSpec ==
  /\ Spec
  /\ \A w \in Workers : WF_vars(Callback(w))
  /\ WF_vars(Initialize_RegisterSource)

-----------------------------------------------------------------------------
(* Properties.                                                             *)

Numbers == 0 .. MaxPackets

\* The variables stay in their ranges: among them, a packet of audio is
\* referenced exactly while a callback may read it.
TypeOK ==
  /\ Exchange!TypeOK
  /\ main \in {"subscribe", "register", "done", "aborted"}
  /\ content \in [AudioPool -> Numbers] /\ submitted \in Numbers
  /\ pc \in [Workers -> Locations]
  /\ packet \in [Workers -> AudioPool \cup ResultPool]
  /\ data \in [Workers -> Numbers] /\ time \in [Workers -> Numbers]
  /\ input \in Numbers /\ timestamp \in Numbers
  /\ results \in Seq([of : Numbers, time : Numbers])
  /\ overlapped \in BOOLEAN
  /\ {p \in AudioPool : reading["audio"][p] # {}} =
       {packet[w] : w \in {v \in Workers : pc[v] \in {"copy", "release"}}}

Holds(w) == pc[w] \in {"read", "write", "submit", "finish"}

\* No result leaks: the pool is empty, so that the assertion on the result packet
\* fails (FourierTransform.cpp:136), only while as many other callbacks as the
\* pool has results are between taking one and giving it back.
EmptyPoolInUse ==
  \A w \in Workers : At(w, "acquire") /\ ~ResultFree =>
    Cardinality({v \in Workers \ {w} : Holds(v)}) >= NumResults

\* As long as no two callbacks overlapped, results come in the order of the
\* audio, one for each packet, of that packet's samples although the packet was
\* given back and filled again meanwhile, and labelled 0, 1, 2...
ResultsInOrder ==
  ~overlapped =>
    \A i \in DOMAIN results : results[i] = [of |-> i, time |-> i - 1]

\* Every packet submitted to the callback leads to a result, even where
\* callbacks overlap and the pool of audio packets runs dry, unless the program
\* aborts.
PacketsTransformed ==
  \A n \in 1 .. MaxPackets : submitted = n ~> Len(results) >= n \/ Aborted

\* The own source is registered when it is looked up (Scheduler.cpp:263) and has
\* a packet (FourierTransform.cpp:136).  Audio that comes before line 147, and
\* more callbacks under way than results, refute it.
NeverAborts == ~Aborted
=============================================================================
