------------------------ MODULE FourierTransformProofs ------------------------
(***************************************************************************)
(* The callback of the Fourier transform with any number of workers and    *)
(* packets: the pool of results is empty only while it is in use, and      *)
(* without overlap results are in order.                                   *)
(***************************************************************************)
EXTENDS FourierTransform, FiniteSetTheorems, TLAPS

Places == {"idle", "copy", "release", "add", "transform", "acquire", "read",
           "write", "submit", "finish"}

\* The order of the callback's steps.
LEMMA StepOrder ==
  ASSUME NEW w \in Workers, NEW l, Take(w, l), pc \in [Workers -> Places]
  PROVE  /\ pc[w] = l
         /\ pc' \in [Workers -> Places]
         /\ \A v \in Workers \ {w} : pc'[v] = pc[v]
         /\ pc'[w] = CASE l = "copy" -> "release"
                       [] l = "release" -> "add"
                       [] l = "add" -> "transform"
                       [] l = "transform" -> "acquire"
                       [] l = "acquire" -> "read"
                       [] l = "read" -> "write"
                       [] l = "write" -> "submit"
                       [] l = "submit" -> "finish"
                       [] l = "finish" -> "idle"
<1>1. pc[w] = l
  BY DEF Take, At
<1>2. PICK i \in DOMAIN Steps :
        /\ Steps[i] = l
        /\ pc' = [pc EXCEPT ![w] = IF i = Len(Steps) THEN "idle"
                                                     ELSE Steps[i + 1]]
  BY DEF Take
<1>3. DOMAIN Steps = 1 .. 9 /\ Len(Steps) = 9
  BY DEF Steps
<1>4. /\ Steps[1] = "copy" /\ Steps[2] = "release" /\ Steps[3] = "add"
      /\ Steps[4] = "transform" /\ Steps[5] = "acquire" /\ Steps[6] = "read"
      /\ Steps[7] = "write" /\ Steps[8] = "submit" /\ Steps[9] = "finish"
  BY DEF Steps
<1>5. i \in {1, 2, 3, 4, 5, 6, 7, 8, 9}
  BY <1>2, <1>3
<1>6. QED  BY <1>1, <1>2, <1>3, <1>4, <1>5 DEF Places

-----------------------------------------------------------------------------

SourceIds == {"audio", "dft"}
PoolIds   == 1 .. Larger

TypeInv ==
  /\ status \in [SourceIds -> [PoolIds -> {"free", "filling", "shared"}]]
  /\ due \in [SourceIds -> [PoolIds -> SUBSET {"dft"}]]
  /\ reading \in [SourceIds -> [PoolIds -> SUBSET {"dft"}]]
  /\ subscribed \in [SourceIds -> SUBSET {"dft"}]
  /\ main \in {"subscribe", "register", "done", "aborted"}
  /\ content \in [AudioPool -> Nat] /\ submitted \in Nat
  /\ pc \in [Workers -> Places]
  /\ packet \in [Workers -> Nat]
  /\ data \in [Workers -> Nat] /\ time \in [Workers -> Nat]
  /\ input \in Nat /\ timestamp \in Nat
  /\ results \in Seq([of : Nat, time : Nat])
  /\ overlapped \in BOOLEAN
  /\ \A w \in Workers : pc[w] \in {"copy", "release"} => packet[w] \in AudioPool

LEMMA PoolsFit ==
  /\ NumPackets \in Nat /\ NumResults \in Nat /\ Larger \in Nat
  /\ AudioPool \subseteq PoolIds /\ ResultPool \subseteq PoolIds
BY FourierAssumption DEF Larger, AudioPool, ResultPool, PoolIds

LEMMA TypeStep ==
  ASSUME TypeInv, [Next]_vars
  PROVE  TypeInv'
<1> USE PoolsFit DEF TypeInv, SourceIds
<1>1. ASSUME Initialize_Subscribe PROVE TypeInv'
  BY <1>1 DEF Initialize_Subscribe, Exchange!Join, callbackVars
<1>2. ASSUME Initialize_RegisterSource PROVE TypeInv'
  BY <1>2 DEF Initialize_RegisterSource, exchangeVars, callbackVars
<1>3. ASSUME NEW p \in AudioPool, Audio(p) PROVE TypeInv'
  <2>1. CASE Audio_Acquire(p)
    BY <2>1 DEF Audio_Acquire, Exchange!Acquire, callbackVars
  <2>2. CASE Audio_Submit(p)
    BY <2>2 DEF Audio_Submit, Exchange!Publish, callbackVars
  <2>3. CASE Audio_Reclaim(p)
    BY <2>3 DEF Audio_Reclaim, Exchange!Reclaim, callbackVars
  <2>4. QED  BY <1>3, <2>1, <2>2, <2>3 DEF Audio
<1>4. ASSUME NEW w \in Workers, Callback(w) PROVE TypeInv'
  <2>1. CASE Callback_Start(w)
    <3>1. Steps[1] = "copy"
      BY DEF Steps
    <3>2. PICK p \in AudioPool : /\ Exchange!Give("audio", p, "dft")
                                 /\ packet' = [packet EXCEPT ![w] = p]
      BY <2>1 DEF Callback_Start
    <3>3. p \in Nat
      BY DEF AudioPool
    <3>4. QED
      BY <2>1, <3>1, <3>2, <3>3 DEF Callback_Start, Exchange!Give, Places
  <2>2. CASE Callback_Copy(w)
    <3>1. At(w, "copy") /\ content[packet[w]] \in Nat
      BY <2>2 DEF Callback_Copy, Take, At
    <3>2. QED  BY <2>2, <3>1, StepOrder DEF Callback_Copy, exchangeVars, Take
  <2>3. CASE ReleasePacket(w)
    <3>1. Take(w, "release")
      BY <2>3 DEF ReleasePacket
    <3>2. /\ pc' \in [Workers -> Places]
          /\ \A v \in Workers \ {w} : pc'[v] = pc[v]
          /\ pc'[w] \notin {"copy", "release"}
      BY <3>1, StepOrder
    <3>3. /\ status' \in [SourceIds -> [PoolIds -> {"free", "filling", "shared"}]]
          /\ reading' \in [SourceIds -> [PoolIds -> SUBSET {"dft"}]]
      BY <2>3 DEF ReleasePacket, Exchange!Done
    <3>4. UNCHANGED <<due, subscribed>>
      BY <2>3 DEF ReleasePacket, Exchange!Done
    <3>5. QED  BY <2>3, <3>1, <3>2, <3>3, <3>4 DEF ReleasePacket, Take
  <2>4. CASE addData(w)
    <3>1. input' \in Nat
      BY <2>4 DEF addData, Outcomes, Mixed
    <3>2. QED  BY <2>4, <3>1, StepOrder DEF addData, exchangeVars, Take
  <2>5. CASE transform(w)
    <3>1. data' \in [Workers -> Nat]
      BY <2>5 DEF transform, Outcomes, Mixed
    <3>2. QED  BY <2>5, <3>1, StepOrder DEF transform, exchangeVars, Take
  <2>6. CASE GetPacketForSubmission(w)
    <3>1. PICK p \in ResultPool :
            Exchange!Acquire("dft", p) /\ packet' = [packet EXCEPT ![w] = p]
      BY <2>6 DEF GetPacketForSubmission
    <3>2. Take(w, "acquire")
      BY <2>6 DEF GetPacketForSubmission
    <3>3. /\ pc' \in [Workers -> Places]
          /\ \A v \in Workers \ {w} : pc'[v] = pc[v]
          /\ pc'[w] \notin {"copy", "release"}
      BY <3>2, StepOrder
    <3>4. p \in Nat
      BY DEF ResultPool
    <3>5. QED
      BY <2>6, <3>1, <3>2, <3>3, <3>4
      DEF GetPacketForSubmission, Exchange!Acquire, Take
  <2>7. CASE Timestamp_Read(w)
    BY <2>7, StepOrder DEF Timestamp_Read, exchangeVars, Take
  <2>8. CASE Timestamp_Write(w)
    <3>1. Take(w, "write")
      BY <2>8 DEF Timestamp_Write
    <3>2. /\ pc' \in [Workers -> Places]
          /\ \A v \in Workers \ {w} : pc'[v] = pc[v]
          /\ pc'[w] \notin {"copy", "release"}
      BY <3>1, StepOrder
    <3>3. timestamp' \in Nat
      BY <2>8 DEF Timestamp_Write
    <3>4. UNCHANGED <<exchangeVars, main, content, submitted, packet, data, time,
                      input, results, overlapped>>
      BY <2>8, <3>1 DEF Timestamp_Write, Take
    <3>5. QED  BY <3>2, <3>3, <3>4 DEF exchangeVars
  <2>9. CASE SubmitPacket(w)
    <3>1. Take(w, "submit")
      BY <2>9 DEF SubmitPacket
    <3>2. /\ pc' \in [Workers -> Places]
          /\ \A v \in Workers \ {w} : pc'[v] = pc[v]
          /\ pc'[w] \notin {"copy", "release"}
      BY <3>1, StepOrder
    <3>3. /\ status' \in [SourceIds -> [PoolIds -> {"free", "filling", "shared"}]]
          /\ due' \in [SourceIds -> [PoolIds -> SUBSET {"dft"}]]
          /\ UNCHANGED <<reading, subscribed>>
      BY <2>9 DEF SubmitPacket, Exchange!Publish
    <3>4. results' \in Seq([of : Nat, time : Nat])
      BY <2>9 DEF SubmitPacket
    <3>5. data' \in [Workers -> Nat] /\ time' \in [Workers -> Nat]
      BY <2>9 DEF SubmitPacket, Mixed
    <3>6. QED
      BY <2>9, <3>1, <3>2, <3>3, <3>4, <3>5 DEF SubmitPacket, Take
  <2>10. CASE Submit_Reclaim(w)
    <3>1. Take(w, "finish")
      BY <2>10 DEF Submit_Reclaim
    <3>2. /\ pc' \in [Workers -> Places]
          /\ \A v \in Workers \ {w} : pc'[v] = pc[v]
          /\ pc'[w] \notin {"copy", "release"}
      BY <3>1, StepOrder
    <3>3. QED  BY <2>10, <3>1, <3>2 DEF Submit_Reclaim, Exchange!Reclaim, Take
  <2>11. CASE GetPacketForSubmission_Fails(w)
    BY <2>11 DEF GetPacketForSubmission_Fails, exchangeVars, callbackVars
  <2>12. QED
    BY <1>4, <2>1, <2>2, <2>3, <2>4, <2>5, <2>6, <2>7, <2>8, <2>9, <2>10, <2>11
    DEF Callback
<1>5. CASE UNCHANGED vars
  BY <1>5 DEF vars, exchangeVars, callbackVars
<1>6. QED  BY <1>1, <1>2, <1>3, <1>4, <1>5 DEF Next, Finished

-----------------------------------------------------------------------------
(* A result that is not free is with a worker.                             *)

PoolInv ==
  \A p \in ResultPool : status["dft"][p] # "free" =>
    \E w \in Workers : Holds(w) /\ packet[w] = p

LEMMA PoolStep ==
  ASSUME TypeInv, PoolInv, [Next]_vars
  PROVE  PoolInv'
<1> USE DEF Holds
<1>0. pc \in [Workers -> Places]
  BY DEF TypeInv
<1>1. ASSUME NEW p \in AudioPool, Audio(p) PROVE PoolInv'
  <2>1. CASE Audio_Acquire(p)
    BY <2>1, PoolsFit DEF Audio_Acquire, Exchange!Acquire, callbackVars, PoolInv, TypeInv, SourceIds
  <2>2. CASE Audio_Submit(p)
    BY <2>2, PoolsFit DEF Audio_Submit, Exchange!Publish, callbackVars, PoolInv, TypeInv, SourceIds
  <2>3. CASE Audio_Reclaim(p)
    BY <2>3, PoolsFit DEF Audio_Reclaim, Exchange!Reclaim, callbackVars, PoolInv, TypeInv, SourceIds
  <2>4. QED  BY <1>1, <2>1, <2>2, <2>3 DEF Audio
\* A worker that does not touch the pool and holds on to what it holds.
<1>2. ASSUME NEW w \in Workers, status'["dft"] = status["dft"],
             Holds(w) => Holds(w)' /\ packet'[w] = packet[w],
             \A v \in Workers \ {w} : pc'[v] = pc[v] /\ packet'[v] = packet[v]
      PROVE  PoolInv'
  <2> SUFFICES ASSUME NEW p \in ResultPool, status'["dft"][p] # "free"
               PROVE  \E v \in Workers : Holds(v)' /\ packet'[v] = p
    BY DEF PoolInv
  <2>1. PICK v \in Workers : Holds(v) /\ packet[v] = p
    BY <1>2 DEF PoolInv
  <2>2. Holds(v)' /\ packet'[v] = p
    <3>1. CASE v = w
      BY <1>2, <2>1, <3>1
    <3>2. CASE v # w
      BY <1>2, <2>1, <3>2
    <3>3. QED  BY <3>1, <3>2
  <2>3. QED  BY <2>2
<1>3. ASSUME NEW w \in Workers, Callback(w) PROVE PoolInv'
  <2>1. CASE Callback_Start(w)
    <3>1. /\ status' = status
          /\ ~Holds(w)
          /\ \A v \in Workers \ {w} : pc'[v] = pc[v] /\ packet'[v] = packet[v]
      BY <2>1 DEF Callback_Start, Exchange!Give, At
    <3>2. QED  BY <1>2, <3>1
  <2>2. CASE Callback_Copy(w)
    <3>1. Take(w, "copy") /\ packet' = packet /\ status' = status
      BY <2>2 DEF Callback_Copy, exchangeVars
    <3>2. /\ pc[w] = "copy" /\ pc'[w] = "release"
          /\ \A v \in Workers \ {w} : pc'[v] = pc[v]
      BY <1>0, <3>1, StepOrder
    <3>3. QED  BY <1>2, <3>1, <3>2
  <2>3. CASE ReleasePacket(w)
    <3>1. Take(w, "release") /\ packet' = packet
      BY <2>3 DEF ReleasePacket
    <3>2. status'["dft"] = status["dft"]
      BY <2>3 DEF ReleasePacket, Exchange!Done
    <3>3. /\ pc[w] = "release" /\ pc'[w] = "add"
          /\ \A v \in Workers \ {w} : pc'[v] = pc[v]
      BY <1>0, <3>1, StepOrder
    <3>4. QED  BY <1>2, <3>1, <3>2, <3>3
  <2>4. CASE addData(w)
    <3>1. Take(w, "add") /\ packet' = packet /\ status' = status
      BY <2>4 DEF addData, exchangeVars
    <3>2. /\ pc[w] = "add" /\ pc'[w] = "transform"
          /\ \A v \in Workers \ {w} : pc'[v] = pc[v]
      BY <1>0, <3>1, StepOrder
    <3>3. QED  BY <1>2, <3>1, <3>2
  <2>5. CASE transform(w)
    <3>1. Take(w, "transform") /\ packet' = packet /\ status' = status
      BY <2>5 DEF transform, exchangeVars
    <3>2. /\ pc[w] = "transform" /\ pc'[w] = "acquire"
          /\ \A v \in Workers \ {w} : pc'[v] = pc[v]
      BY <1>0, <3>1, StepOrder
    <3>3. QED  BY <1>2, <3>1, <3>2
  <2>6. CASE GetPacketForSubmission(w)
    <3>1. PICK p \in ResultPool :
            Exchange!Acquire("dft", p) /\ packet' = [packet EXCEPT ![w] = p]
      BY <2>6 DEF GetPacketForSubmission
    <3>2. Take(w, "acquire")
      BY <2>6 DEF GetPacketForSubmission
    <3>3. /\ pc[w] = "acquire" /\ pc'[w] = "read"
          /\ \A v \in Workers \ {w} : pc'[v] = pc[v]
      BY <1>0, <3>2, StepOrder
    <3>4. \A q \in ResultPool \ {p} : status'["dft"][q] = status["dft"][q]
      BY <3>1, PoolsFit DEF Exchange!Acquire, TypeInv, SourceIds
    <3>5. SUFFICES ASSUME NEW q \in ResultPool, status'["dft"][q] # "free"
                   PROVE  \E v \in Workers : Holds(v)' /\ packet'[v] = q
      BY DEF PoolInv
    <3>6. packet'[w] = p /\ \A v \in Workers \ {w} : packet'[v] = packet[v]
      BY <3>1 DEF TypeInv
    <3>7. CASE q = p
      BY <3>3, <3>6, <3>7
    <3>8. CASE q # p
      <4>1. PICK v \in Workers : Holds(v) /\ packet[v] = q
        BY <3>4, <3>5, <3>8 DEF PoolInv
      <4>2. QED  BY <3>3, <3>6, <4>1
    <3>9. QED  BY <3>7, <3>8
  <2>7. CASE Timestamp_Read(w)
    <3>1. Take(w, "read") /\ packet' = packet /\ status' = status
      BY <2>7 DEF Timestamp_Read, exchangeVars
    <3>2. /\ pc[w] = "read" /\ pc'[w] = "write"
          /\ \A v \in Workers \ {w} : pc'[v] = pc[v]
      BY <1>0, <3>1, StepOrder
    <3>3. QED  BY <1>2, <3>1, <3>2
  <2>8. CASE Timestamp_Write(w)
    <3>1. Take(w, "write") /\ packet' = packet /\ status' = status
      BY <2>8 DEF Timestamp_Write, exchangeVars
    <3>2. /\ pc[w] = "write" /\ pc'[w] = "submit"
          /\ \A v \in Workers \ {w} : pc'[v] = pc[v]
      BY <1>0, <3>1, StepOrder
    <3>3. QED  BY <1>2, <3>1, <3>2
  <2>9. CASE SubmitPacket(w)
    <3>1. Take(w, "submit") /\ packet' = packet
      BY <2>9 DEF SubmitPacket
    <3>2. /\ pc[w] = "submit" /\ pc'[w] = "finish"
          /\ \A v \in Workers \ {w} : pc'[v] = pc[v]
      BY <1>0, <3>1, StepOrder
    <3>3. \A q \in ResultPool : q # packet[w] =>
            status'["dft"][q] = status["dft"][q]
      BY <2>9, PoolsFit DEF SubmitPacket, Exchange!Publish, TypeInv, SourceIds
    <3>4. SUFFICES ASSUME NEW q \in ResultPool, status'["dft"][q] # "free"
                   PROVE  \E v \in Workers : Holds(v)' /\ packet'[v] = q
      BY DEF PoolInv
    <3>5. CASE q = packet[w]
      BY <3>1, <3>2, <3>5
    <3>6. CASE q # packet[w]
      <4>1. PICK v \in Workers : Holds(v) /\ packet[v] = q
        BY <3>3, <3>4, <3>6 DEF PoolInv
      <4>2. QED  BY <3>1, <3>2, <3>6, <4>1
    <3>7. QED  BY <3>5, <3>6
  <2>10. CASE Submit_Reclaim(w)
    <3>1. Take(w, "finish") /\ packet' = [packet EXCEPT ![w] = 1]
      BY <2>10 DEF Submit_Reclaim
    <3>2. \A v \in Workers \ {w} : pc'[v] = pc[v]
      BY <1>0, <3>1, StepOrder
    <3>3. \A q \in ResultPool :
            status'["dft"][q] = IF q = packet[w] THEN "free" ELSE status["dft"][q]
      BY <2>10, PoolsFit
      DEF Submit_Reclaim, Exchange!Reclaim, TypeInv, SourceIds
    <3>4. SUFFICES ASSUME NEW q \in ResultPool, status'["dft"][q] # "free"
                   PROVE  \E v \in Workers : Holds(v)' /\ packet'[v] = q
      BY DEF PoolInv
    <3>5. q # packet[w] /\ status["dft"][q] # "free"
      BY <3>3, <3>4
    <3>6. PICK v \in Workers : Holds(v) /\ packet[v] = q
      BY <3>5 DEF PoolInv
    <3>7. QED  BY <3>1, <3>2, <3>5, <3>6 DEF TypeInv
  <2>11. CASE GetPacketForSubmission_Fails(w)
    <3>1. status' = status /\ pc' = pc /\ packet' = packet
      BY <2>11 DEF GetPacketForSubmission_Fails, exchangeVars, callbackVars
    <3>2. QED  BY <1>2, <3>1
  <2>12. QED
    BY <1>3, <2>1, <2>2, <2>3, <2>4, <2>5, <2>6, <2>7, <2>8, <2>9, <2>10, <2>11
    DEF Callback
<1>4. ASSUME UNCHANGED <<status, pc, packet>> PROVE PoolInv'
  BY <1>4 DEF PoolInv
<1>5. QED
  BY <1>1, <1>3, <1>4
  DEF Next, Initialize_Subscribe, Exchange!Join, Initialize_RegisterSource,
      Finished, vars, exchangeVars, callbackVars

\* By the pigeonhole: every result that is not free is with another worker than
\* the one that is to acquire one.
LEMMA HoldersSuffice ==
  ASSUME TypeInv, PoolInv, NEW w \in Workers, ~Holds(w), ~ResultFree
  PROVE  Cardinality({v \in Workers \ {w} : Holds(v)}) >= NumResults
<1> DEFINE Holders == {v \in Workers \ {w} : Holds(v)}
           f == [p \in ResultPool |-> CHOOSE v \in Holders : packet[v] = p]
<1>1. \A p \in ResultPool : f[p] \in Holders /\ packet[f[p]] = p
  BY DEF PoolInv, ResultFree
<1>2. f \in [ResultPool -> Holders]
  BY <1>1
<1>3. IsFiniteSet(Holders)
  BY FourierAssumption, FS_Subset
<1>4. Cardinality(Holders) \in Nat
  BY <1>3, FS_CardinalityType
<1>5. IsFiniteSet(ResultPool) /\ Cardinality(ResultPool) = NumResults
  BY PoolsFit, FS_Interval DEF ResultPool
<1> HIDE DEF f, Holders
<1>6. ASSUME Cardinality(Holders) < NumResults PROVE FALSE
  <2>1. \E p, q \in ResultPool : p # q /\ f[p] = f[q]
    BY <1>2, <1>3, <1>5, <1>6, FS_PigeonHole
  <2>2. QED  BY <1>1, <2>1
<1>7. Cardinality(Holders) >= NumResults
  BY <1>4, <1>6, PoolsFit
<1>8. QED  BY <1>7 DEF Holders

LEMMA ExchangeInit ==
  ASSUME Init
  PROVE  /\ status = [s \in SourceIds |-> [p \in PoolIds |-> "free"]]
         /\ due = [s \in SourceIds |-> [p \in PoolIds |-> {}]]
         /\ reading = [s \in SourceIds |-> [p \in PoolIds |-> {}]]
         /\ subscribed = [s \in SourceIds |-> {}]
BY DEF Init, Exchange!Init, SourceIds, PoolIds

LEMMA TypeInit == Init => TypeInv
<1> SUFFICES ASSUME Init PROVE TypeInv
  OBVIOUS
<1>1. /\ status \in [SourceIds -> [PoolIds -> {"free", "filling", "shared"}]]
      /\ due \in [SourceIds -> [PoolIds -> SUBSET {"dft"}]]
      /\ reading \in [SourceIds -> [PoolIds -> SUBSET {"dft"}]]
      /\ subscribed \in [SourceIds -> SUBSET {"dft"}]
  BY ExchangeInit
<1>2. pc \in [Workers -> Places] /\ \A w \in Workers : pc[w] = "idle"
  BY DEF Init, Places
<1>3. /\ content \in [AudioPool -> Nat] /\ packet \in [Workers -> Nat]
      /\ data \in [Workers -> Nat] /\ time \in [Workers -> Nat]
  BY DEF Init, Mixed
<1>4. results \in Seq([of : Nat, time : Nat])
  BY DEF Init
<1>5. QED  BY <1>1, <1>2, <1>3, <1>4 DEF Init, TypeInv, Mixed

\* No result leaks, with any number of workers and results: whoever finds the
\* pool empty, and aborts the program, finds all of it with other callbacks
\* (EmptyPoolInUse of FourierTransform; FourierTransform.cpp:134-136).
THEOREM ResultsInUse == Spec => []EmptyPoolInUse
<1> DEFINE IInv == TypeInv /\ PoolInv
<1>1. Init => IInv
  BY TypeInit, ExchangeInit, PoolsFit DEF PoolInv, SourceIds
<1>2. IInv /\ [Next]_vars => IInv'
  BY TypeStep, PoolStep
<1>3. IInv => EmptyPoolInUse
  <2> SUFFICES ASSUME IInv, NEW w \in Workers, At(w, "acquire"), ~ResultFree
               PROVE  Cardinality({v \in Workers \ {w} : Holds(v)}) >= NumResults
    BY DEF EmptyPoolInUse
  <2>1. ~Holds(w)
    BY DEF Holds, At
  <2>2. QED  BY <2>1, HoldersSuffice
<1>4. QED  BY <1>1, <1>2, <1>3, PTL DEF Spec

-----------------------------------------------------------------------------
(* Results in order.                                                       *)

\* Between the callback's start and the submission of its result.
Pre == {"copy", "release", "add", "transform", "acquire", "read", "write",
        "submit"}

\* Packets of audio handed to the callback so far.
Handed == Len(results) + (IF \E w \in Workers : pc[w] \in Pre THEN 1 ELSE 0)

Due(p)     == due["audio"][p] # {}
Filling(p) == status["audio"][p] = "filling"

\* The packets due to the callback are those submitted and not yet handed to
\* it, each once.
QueueInv ==
  /\ Handed <= submitted
  /\ \A p \in AudioPool : Due(p) =>
       /\ status["audio"][p] = "shared"
       /\ Handed < content[p] /\ content[p] <= submitted
  /\ \A n \in Nat : Handed < n /\ n <= submitted =>
       \E p \in AudioPool : Due(p) /\ content[p] = n
  /\ \A p, q \in AudioPool : Due(p) /\ Due(q) /\ content[p] = content[q] => p = q
  /\ \A p \in AudioPool : Filling(p) => content[p] = submitted + 1
  /\ \A p, q \in AudioPool : Filling(p) /\ Filling(q) => p = q
  /\ \A p \in AudioPool : reading["audio"][p] # {} =>
       status["audio"][p] = "shared" /\ ~Due(p)

\* The one worker in the callback works on the next packet.
WorkInv ==
  LET next == Len(results) + 1
  IN /\ \A v, w \in Workers : pc[v] # "idle" /\ pc[w] # "idle" => v = w
     /\ \A i \in DOMAIN results : results[i] = [of |-> i, time |-> i - 1]
     /\ \A w \in Workers :
          /\ pc[w] = "copy" => /\ reading["audio"][packet[w]] # {}
                               /\ content[packet[w]] = next
          /\ pc[w] \in Pre \ {"copy", "transform"} => data[w] = next
          /\ pc[w] = "transform" => input = next
          /\ pc[w] \in {"write", "submit"} => time[w] = next - 1
     /\ timestamp = IF \E w \in Workers : pc[w] = "submit" THEN next ELSE next - 1

OrderInv == ~overlapped => QueueInv /\ WorkInv

\* The callback's part of the invariant needs of the audio source only the
\* packet that is being copied.
LEMMA WorkKept ==
  ASSUME WorkInv, UNCHANGED callbackVars,
         \A w \in Workers : pc[w] = "copy" =>
           /\ reading'["audio"][packet[w]] = reading["audio"][packet[w]]
           /\ content'[packet[w]] = content[packet[w]]
  PROVE  WorkInv'
BY DEF WorkInv, callbackVars, Pre

LEMMA AudioOrder ==
  ASSUME TypeInv, OrderInv, NEW p \in AudioPool, Audio(p)
  PROVE  OrderInv'
<1> USE PoolsFit
<1>1. UNCHANGED callbackVars
  BY DEF Audio, Audio_Acquire, Audio_Submit, Audio_Reclaim
<1>2. SUFFICES ASSUME QueueInv, WorkInv
               PROVE  QueueInv' /\ WorkInv'
  BY <1>1 DEF OrderInv, callbackVars
<1>3. Handed' = Handed
  BY <1>1 DEF Handed, callbackVars
<1>4. Handed \in Nat /\ submitted \in Nat /\ content \in [AudioPool -> Nat]
  BY DEF Handed, TypeInv
<1>5. \A w \in Workers : pc[w] = "copy" => packet[w] \in AudioPool
  BY DEF TypeInv
<1>6. CASE Audio_Acquire(p)
  <2>1. /\ status["audio"][p] = "free"
        /\ \A q \in AudioPool : ~Filling(q)
        /\ \A q \in AudioPool :
             /\ status'["audio"][q] = IF q = p THEN "filling"
                                              ELSE status["audio"][q]
             /\ content'[q] = IF q = p THEN submitted + 1 ELSE content[q]
        /\ due' = due /\ reading' = reading /\ submitted' = submitted
    BY <1>6 DEF Audio_Acquire, Exchange!Acquire, Filling, TypeInv, SourceIds
  <2>2. ~Due(p) /\ reading["audio"][p] = {}
    BY <2>1, <1>2 DEF QueueInv
  <2>3. QueueInv'
    BY <1>2, <1>3, <1>4, <2>1, <2>2 DEF QueueInv, Due, Filling
  <2>4. WorkInv'
    BY <1>1, <1>2, <1>5, <2>1, <2>2, WorkKept DEF WorkInv
  <2>5. QED  BY <2>3, <2>4
<1>7. CASE Audio_Submit(p)
  <2>1. /\ Filling(p)
        /\ \A q \in AudioPool :
             /\ status'["audio"][q] = IF q = p THEN "shared"
                                              ELSE status["audio"][q]
             /\ due'["audio"][q] = IF q = p THEN subscribed["audio"]
                                           ELSE due["audio"][q]
        /\ submitted' = IF due'["audio"][p] = {} THEN submitted
                                               ELSE submitted + 1
        /\ reading' = reading /\ content' = content
    BY <1>7 DEF Audio_Submit, Exchange!Publish, Filling, TypeInv, SourceIds
  <2>2. ~Due(p) /\ reading["audio"][p] = {} /\ content[p] = submitted + 1
    BY <1>2, <2>1 DEF QueueInv, Filling
  <2>3. \A q \in AudioPool \ {p} : ~Filling(q)
    BY <1>2, <2>1 DEF QueueInv
  <2>4. QueueInv'
    <3>1. CASE due'["audio"][p] = {}
      BY <1>2, <1>3, <1>4, <2>1, <2>2, <2>3, <3>1 DEF QueueInv, Due, Filling
    <3>2. CASE due'["audio"][p] # {}
      <4>1. /\ submitted' = submitted + 1
            /\ \A q \in AudioPool : Due(q)' <=> Due(q) \/ q = p
            /\ \A q \in AudioPool : ~Filling(q)'
        BY <2>1, <2>3, <3>2 DEF Due, Filling
      <4>2. \A q \in AudioPool : Due(q) => content[q] <= submitted
        BY <1>2 DEF QueueInv
      <4>3. \A n \in Nat : Handed < n /\ n <= submitted + 1 =>
              \E q \in AudioPool : Due(q)' /\ content[q] = n
        <5> SUFFICES ASSUME NEW n \in Nat, Handed < n, n <= submitted + 1
                     PROVE  \E q \in AudioPool : Due(q)' /\ content[q] = n
          OBVIOUS
        <5>1. CASE n = submitted + 1
          BY <2>2, <4>1, <5>1
        <5>2. CASE n <= submitted
          BY <1>2, <4>1, <5>2 DEF QueueInv
        <5>3. QED  BY <1>4, <5>1, <5>2
      <4>4. \A q, r \in AudioPool :
              Due(q)' /\ Due(r)' /\ content[q] = content[r] => q = r
        BY <1>2, <1>4, <2>2, <4>1, <4>2 DEF QueueInv
      <4>5. \A q \in AudioPool : Due(q)' =>
              /\ status'["audio"][q] = "shared"
              /\ Handed < content[q] /\ content[q] <= submitted + 1
        BY <1>2, <1>4, <2>1, <2>2, <4>1 DEF QueueInv
      <4>6. \A q \in AudioPool : reading["audio"][q] # {} =>
              status'["audio"][q] = "shared" /\ ~Due(q)'
        BY <1>2, <2>1, <2>2, <4>1 DEF QueueInv
      <4>7. QED
        BY <1>2, <1>3, <1>4, <2>1, <4>1, <4>3, <4>4, <4>5, <4>6 DEF QueueInv
    <3>3. QED  BY <3>1, <3>2
  <2>5. WorkInv'
    BY <1>1, <1>2, <2>1, WorkKept
  <2>6. QED  BY <2>4, <2>5
<1>8. CASE Audio_Reclaim(p)
  <2>1. /\ ~Due(p) /\ reading["audio"][p] = {}
        /\ \A q \in AudioPool :
             status'["audio"][q] = IF q = p THEN "free" ELSE status["audio"][q]
        /\ due' = due /\ reading' = reading /\ submitted' = submitted
        /\ content' = content
    BY <1>8 DEF Audio_Reclaim, Exchange!Reclaim, Due, TypeInv, SourceIds
  <2>2. QueueInv'
    BY <1>2, <1>3, <1>4, <2>1 DEF QueueInv, Due, Filling
  <2>3. WorkInv'
    BY <1>1, <1>2, <2>1, WorkKept
  <2>4. QED  BY <2>2, <2>3
<1>9. QED  BY <1>6, <1>7, <1>8 DEF Audio

\* A worker starts while the others are idle, with the next packet.
LEMMA StartOrder ==
  ASSUME TypeInv, OrderInv, NEW w \in Workers, Callback_Start(w)
  PROVE  OrderInv'
<1>1. SUFFICES ASSUME ~overlapped' PROVE QueueInv' /\ WorkInv'
  BY DEF OrderInv
<1>2. /\ \A v \in Workers : pc[v] = "idle"
      /\ QueueInv /\ WorkInv
  BY <1>1 DEF Callback_Start, OrderInv, At
<1>3. PICK p \in AudioPool :
        /\ \A q \in AudioPool : Due(q) => content[p] <= content[q]
        /\ Exchange!Give("audio", p, "dft")
        /\ packet' = [packet EXCEPT ![w] = p]
  BY DEF Callback_Start, Due
<1>4. /\ content' = content /\ submitted' = submitted /\ data' = data
      /\ time' = time /\ input' = input /\ timestamp' = timestamp
      /\ results' = results
  BY DEF Callback_Start
<1>5. Steps[1] = "copy"
  BY DEF Steps
<1>6. /\ pc'[w] = "copy" /\ packet'[w] = p
      /\ \A v \in Workers \ {w} : pc'[v] = "idle"
  BY <1>2, <1>3, <1>5 DEF Callback_Start, TypeInv
<1>7. /\ status' = status
      /\ Due(p)
      /\ \A q \in AudioPool : Due(q)' <=> Due(q) /\ q # p
      /\ reading'["audio"][p] # {}
      /\ \A q \in AudioPool : q # p => reading'["audio"][q] = reading["audio"][q]
  BY <1>3, PoolsFit DEF Exchange!Give, Due, TypeInv, SourceIds
<1>8. Len(results) \in Nat /\ submitted \in Nat /\ content \in [AudioPool -> Nat]
  BY DEF TypeInv
<1>9. Handed = Len(results) /\ Handed' = Handed + 1
  BY <1>2, <1>4, <1>6, <1>8 DEF Handed, Pre
<1>10. content[p] = Handed + 1
  <2>1. Handed < content[p] /\ content[p] <= submitted
    BY <1>2, <1>7 DEF QueueInv
  <2>2. Handed + 1 \in Nat /\ Handed < Handed + 1 /\ Handed + 1 <= submitted
    BY <1>8, <1>9, <2>1
  <2>3. PICK q \in AudioPool : Due(q) /\ content[q] = Handed + 1
    BY <1>2, <2>2 DEF QueueInv
  <2>4. QED  BY <1>3, <1>8, <1>9, <2>1, <2>3
<1>11. QueueInv'
  <2>1. content[p] <= submitted /\ status["audio"][p] = "shared"
    BY <1>2, <1>7 DEF QueueInv
  <2>2. Handed' <= submitted'
    BY <1>4, <1>8, <1>9, <1>10, <2>1
  <2>3. \A q \in AudioPool : Due(q)' =>
          /\ status'["audio"][q] = "shared"
          /\ Handed' < content'[q] /\ content'[q] <= submitted'
    BY <1>2, <1>4, <1>7, <1>8, <1>9, <1>10 DEF QueueInv
  <2>4. \A n \in Nat : Handed' < n /\ n <= submitted' =>
          \E q \in AudioPool : Due(q)' /\ content'[q] = n
    BY <1>2, <1>4, <1>7, <1>8, <1>9, <1>10 DEF QueueInv
  <2>5. \A q, r \in AudioPool :
          Due(q)' /\ Due(r)' /\ content'[q] = content'[r] => q = r
    BY <1>2, <1>4, <1>7 DEF QueueInv
  <2>6. /\ \A q \in AudioPool : Filling(q)' => content'[q] = submitted' + 1
        /\ \A q, r \in AudioPool : Filling(q)' /\ Filling(r)' => q = r
    BY <1>2, <1>4, <1>7 DEF QueueInv, Filling
  <2>7. \A q \in AudioPool : reading'["audio"][q] # {} =>
          status'["audio"][q] = "shared" /\ ~Due(q)'
    BY <1>2, <1>7, <2>1 DEF QueueInv
  <2>8. QED  BY <2>2, <2>3, <2>4, <2>5, <2>6, <2>7 DEF QueueInv
<1>12. WorkInv'
  <2>1. timestamp = Len(results)
    BY <1>2, <1>8 DEF WorkInv
  <2>2. \A i \in DOMAIN results : results[i] = [of |-> i, time |-> i - 1]
    BY <1>2 DEF WorkInv
  <2>3. QED
    BY <1>4, <1>6, <1>7, <1>8, <1>9, <1>10, <2>1, <2>2 DEF WorkInv, Pre
<1>13. QED  BY <1>11, <1>12

\* A step within the callback that leaves packets and results alone.
LEMMA QueueKept ==
  ASSUME QueueInv, Handed' = Handed,
         UNCHANGED <<exchangeVars, content, submitted>>
  PROVE  QueueInv'
BY DEF QueueInv, Due, Filling, exchangeVars

LEMMA InnerOrder ==
  ASSUME TypeInv, OrderInv, NEW w \in Workers, Callback(w), ~Callback_Start(w),
         ~GetPacketForSubmission_Fails(w)
  PROVE  OrderInv'
<1>1. overlapped' = overlapped /\ content' = content /\ submitted' = submitted
  BY DEF Callback, Callback_Copy, ReleasePacket, addData, transform,
     GetPacketForSubmission, Timestamp_Read, Timestamp_Write, SubmitPacket,
     Submit_Reclaim, Take
<1>2. SUFFICES ASSUME QueueInv, WorkInv PROVE QueueInv' /\ WorkInv'
  BY <1>1 DEF OrderInv
<1>3. pc[w] # "idle"
  BY DEF Callback, Callback_Copy, ReleasePacket, addData, transform,
     GetPacketForSubmission, Timestamp_Read, Timestamp_Write, SubmitPacket,
     Submit_Reclaim, Take, At
<1>4. \A v \in Workers \ {w} : pc[v] = "idle"
  BY <1>2, <1>3 DEF WorkInv
<1>5. ASSUME NEW d PROVE Outcomes(w, d) = {d}
  BY <1>4 DEF Outcomes
<1>6. /\ Len(results) \in Nat /\ submitted \in Nat
      /\ timestamp = IF pc[w] = "submit" THEN Len(results) + 1 ELSE Len(results)
      /\ \A i \in DOMAIN results : results[i] = [of |-> i, time |-> i - 1]
  <2>1. Len(results) \in Nat /\ submitted \in Nat
    BY DEF TypeInv
  <2>2. (\E v \in Workers : pc[v] = "submit") <=> pc[w] = "submit"
    BY <1>4
  <2>3. timestamp = IF pc[w] = "submit" THEN Len(results) + 1
                                       ELSE Len(results) + 1 - 1
    BY <1>2, <2>2 DEF WorkInv
  <2>4. \A i \in DOMAIN results : results[i] = [of |-> i, time |-> i - 1]
    BY <1>2 DEF WorkInv
  <2>5. QED  BY <2>1, <2>3, <2>4
\* The next location is still before the submission.
<1>7. ASSUME pc[w] \in Pre, pc'[w] \in Pre, results' = results,
             \A v \in Workers \ {w} : pc'[v] = pc[v]
      PROVE  Handed' = Handed
  BY <1>7 DEF Handed
<1>8. CASE Callback_Copy(w)
  <2>1. Take(w, "copy")
    BY <1>8 DEF Callback_Copy
  <2>2. /\ pc[w] = "copy" /\ pc'[w] = "release"
        /\ \A v \in Workers \ {w} : pc'[v] = pc[v]
    BY <2>1, StepOrder DEF TypeInv
  <2>3. data'[w] = Len(results) + 1
    BY <1>2, <1>8, <2>2 DEF Callback_Copy, WorkInv, TypeInv
  <2>4. QueueInv'
    BY <1>1, <1>2, <1>7, <1>8, <2>2, QueueKept DEF Callback_Copy, Pre
  <2>5. WorkInv'
    BY <1>4, <1>6, <1>8, <2>2, <2>3 DEF Callback_Copy, WorkInv, Pre
  <2>6. QED  BY <2>4, <2>5
<1>9. CASE ReleasePacket(w)
  <2>1. Take(w, "release")
    BY <1>9 DEF ReleasePacket
  <2>2. /\ pc[w] = "release" /\ pc'[w] = "add"
        /\ \A v \in Workers \ {w} : pc'[v] = pc[v]
    BY <2>1, StepOrder DEF TypeInv
  <2>3. packet[w] \in AudioPool /\ packet' = packet
    BY <1>9, <2>2 DEF TypeInv, ReleasePacket
  <2>4. /\ due' = due
        /\ reading["audio"][packet[w]] # {}
        /\ \A q \in AudioPool :
             /\ q # packet[w] => /\ status'["audio"][q] = status["audio"][q]
                                 /\ reading'["audio"][q] = reading["audio"][q]
             /\ status'["audio"][q] \in {"free", status["audio"][q]}
        /\ reading'["audio"][packet[w]] = {}
    BY <1>9, <2>3, PoolsFit DEF ReleasePacket, Exchange!Done, TypeInv, SourceIds
  <2>5. Handed' = Handed
    BY <1>7, <1>9, <2>2 DEF ReleasePacket, Pre
  <2>6. ~Due(packet[w])
    BY <1>2, <2>3, <2>4 DEF QueueInv
  <2>7. QueueInv'
    BY <1>1, <1>2, <2>3, <2>4, <2>5, <2>6 DEF QueueInv, Due, Filling
  <2>8. data[w] = Len(results) + 1
    BY <1>2, <2>2 DEF WorkInv, Pre
  <2>9. WorkInv'
    BY <1>4, <1>6, <1>9, <2>2, <2>8 DEF ReleasePacket, WorkInv, Pre
  <2>10. QED  BY <2>7, <2>9
<1>10. CASE addData(w)
  <2>1. Take(w, "add")
    BY <1>10 DEF addData
  <2>2. /\ pc[w] = "add" /\ pc'[w] = "transform"
        /\ \A v \in Workers \ {w} : pc'[v] = pc[v]
    BY <2>1, StepOrder DEF TypeInv
  <2>3. input' = Len(results) + 1
    BY <1>2, <1>5, <1>10, <2>2 DEF addData, WorkInv, Pre
  <2>4. QueueInv'
    BY <1>1, <1>2, <1>7, <1>10, <2>2, QueueKept DEF addData, Pre
  <2>5. WorkInv'
    BY <1>4, <1>6, <1>10, <2>2, <2>3 DEF addData, WorkInv, Pre
  <2>6. QED  BY <2>4, <2>5
<1>11. CASE transform(w)
  <2>1. Take(w, "transform")
    BY <1>11 DEF transform
  <2>2. /\ pc[w] = "transform" /\ pc'[w] = "acquire"
        /\ \A v \in Workers \ {w} : pc'[v] = pc[v]
    BY <2>1, StepOrder DEF TypeInv
  <2>3. data'[w] = Len(results) + 1
    BY <1>2, <1>5, <1>11, <2>2 DEF transform, WorkInv, TypeInv
  <2>4. QueueInv'
    BY <1>1, <1>2, <1>7, <1>11, <2>2, QueueKept DEF transform, Pre
  <2>5. WorkInv'
    BY <1>4, <1>6, <1>11, <2>2, <2>3 DEF transform, WorkInv, Pre
  <2>6. QED  BY <2>4, <2>5
<1>12. CASE GetPacketForSubmission(w)
  <2>1. Take(w, "acquire")
    BY <1>12 DEF GetPacketForSubmission
  <2>2. /\ pc[w] = "acquire" /\ pc'[w] = "read"
        /\ \A v \in Workers \ {w} : pc'[v] = pc[v]
    BY <2>1, StepOrder DEF TypeInv
  <2>3. /\ status'["audio"] = status["audio"]
        /\ due' = due /\ reading' = reading
    BY <1>12 DEF GetPacketForSubmission, Exchange!Acquire, TypeInv, SourceIds
  <2>4. Handed' = Handed
    BY <1>7, <1>12, <2>2 DEF GetPacketForSubmission, Pre
  <2>5. QueueInv'
    BY <1>1, <1>2, <2>3, <2>4 DEF QueueInv, Due, Filling
  <2>6. data[w] = Len(results) + 1
    BY <1>2, <2>2 DEF WorkInv, Pre
  <2>7. WorkInv'
    BY <1>4, <1>6, <1>12, <2>2, <2>6 DEF GetPacketForSubmission, WorkInv, Pre
  <2>8. QED  BY <2>5, <2>7
<1>13. CASE Timestamp_Read(w)
  <2>1. Take(w, "read")
    BY <1>13 DEF Timestamp_Read
  <2>2. /\ pc[w] = "read" /\ pc'[w] = "write"
        /\ \A v \in Workers \ {w} : pc'[v] = pc[v]
    BY <2>1, StepOrder DEF TypeInv
  <2>3. data[w] = Len(results) + 1 /\ time'[w] = Len(results)
    BY <1>2, <1>6, <1>13, <2>2 DEF Timestamp_Read, WorkInv, TypeInv, Pre
  <2>4. QueueInv'
    BY <1>1, <1>2, <1>7, <1>13, <2>2, QueueKept DEF Timestamp_Read, Pre
  <2>5. WorkInv'
    BY <1>4, <1>6, <1>13, <2>2, <2>3 DEF Timestamp_Read, WorkInv, Pre
  <2>6. QED  BY <2>4, <2>5
<1>14. CASE Timestamp_Write(w)
  <2>1. Take(w, "write")
    BY <1>14 DEF Timestamp_Write
  <2>2. /\ pc[w] = "write" /\ pc'[w] = "submit"
        /\ \A v \in Workers \ {w} : pc'[v] = pc[v]
    BY <2>1, StepOrder DEF TypeInv
  <2>3. data[w] = Len(results) + 1 /\ time[w] = Len(results)
    BY <1>2, <1>6, <2>2 DEF WorkInv, Pre
  <2>4. QueueInv'
    BY <1>1, <1>2, <1>7, <1>14, <2>2, QueueKept DEF Timestamp_Write, Pre
  <2>5. WorkInv'
    BY <1>4, <1>6, <1>14, <2>2, <2>3 DEF Timestamp_Write, WorkInv, Pre
  <2>6. QED  BY <2>4, <2>5
<1>15. CASE SubmitPacket(w)
  <2>1. Take(w, "submit")
    BY <1>15 DEF SubmitPacket
  <2>2. /\ pc[w] = "submit" /\ pc'[w] = "finish"
        /\ \A v \in Workers \ {w} : pc'[v] = pc[v]
    BY <2>1, StepOrder DEF TypeInv
  <2>3. data[w] = Len(results) + 1 /\ time[w] = Len(results)
    BY <1>2, <1>6, <2>2 DEF WorkInv, Pre
  <2>4. /\ results' = Append(results, [of |-> data[w], time |-> time[w]])
        /\ timestamp' = timestamp /\ input' = input
    BY <1>15 DEF SubmitPacket
  <2>5. /\ Len(results') = Len(results) + 1
        /\ \A i \in DOMAIN results' :
             results'[i] = [of |-> i, time |-> i - 1]
    BY <1>6, <2>3, <2>4 DEF TypeInv
  <2>6. Handed' = Handed
    BY <1>4, <1>6, <2>2, <2>5 DEF Handed, Pre
  <2>7. /\ status'["audio"] = status["audio"]
        /\ due'["audio"] = due["audio"] /\ reading' = reading
    BY <1>15 DEF SubmitPacket, Exchange!Publish, TypeInv, SourceIds
  <2>8. QueueInv'
    BY <1>1, <1>2, <2>6, <2>7 DEF QueueInv, Due, Filling
  <2>9. WorkInv'
    BY <1>4, <1>6, <2>2, <2>4, <2>5 DEF WorkInv, Pre
  <2>10. QED  BY <2>8, <2>9
<1>16. CASE Submit_Reclaim(w)
  <2>1. Take(w, "finish")
    BY <1>16 DEF Submit_Reclaim
  <2>2. /\ pc[w] = "finish" /\ pc'[w] = "idle"
        /\ \A v \in Workers \ {w} : pc'[v] = pc[v]
    BY <2>1, StepOrder DEF TypeInv
  <2>3. results' = results /\ timestamp' = timestamp
    BY <1>16 DEF Submit_Reclaim
  <2>4. Handed' = Handed
    BY <1>4, <2>2, <2>3 DEF Handed, Pre
  <2>5. /\ status'["audio"] = status["audio"] /\ due' = due
        /\ reading' = reading
    BY <1>16 DEF Submit_Reclaim, Exchange!Reclaim, TypeInv, SourceIds
  <2>6. QueueInv'
    BY <1>1, <1>2, <2>4, <2>5 DEF QueueInv, Due, Filling
  <2>7. WorkInv'
    BY <1>4, <1>6, <2>2, <2>3 DEF WorkInv, Pre
  <2>8. QED  BY <2>6, <2>7
<1>17. QED
  BY <1>8, <1>9, <1>10, <1>11, <1>12, <1>13, <1>14, <1>15, <1>16 DEF Callback

\* As long as no two callbacks overlapped, each packet's result follows that of
\* the packet before and bears the next timestamp.
THEOREM OrderKept == Spec => []ResultsInOrder
<1> DEFINE IInv == TypeInv /\ OrderInv
<1>1. Init => IInv
  <2> SUFFICES ASSUME Init PROVE OrderInv
    BY TypeInit
  <2>1. /\ \A p \in AudioPool : /\ status["audio"][p] = "free"
                               /\ due["audio"][p] = {}
                               /\ reading["audio"][p] = {}
        /\ results = <<>> /\ submitted = 0 /\ timestamp = 0
        /\ \A w \in Workers : pc[w] = "idle"
    <3>1. \A p \in AudioPool : p \in PoolIds
      BY PoolsFit
    <3>2. \A p \in PoolIds : /\ status["audio"][p] = "free"
                             /\ due["audio"][p] = {}
                             /\ reading["audio"][p] = {}
      BY ExchangeInit DEF SourceIds
    <3>3. QED  BY <3>1, <3>2 DEF Init
  <2>2. Handed = 0 /\ Len(results) = 0
    BY <2>1 DEF Handed, Pre
  <2>3. QueueInv
    BY <2>1, <2>2 DEF QueueInv, Due, Filling
  <2>4. WorkInv
    BY <2>1, <2>2 DEF WorkInv, Pre
  <2>5. QED  BY <2>3, <2>4 DEF OrderInv
<1>2. IInv /\ [Next]_vars => IInv'
  <2> SUFFICES ASSUME TypeInv, OrderInv, [Next]_vars PROVE OrderInv'
    BY TypeStep
  <2>1. ASSUME UNCHANGED <<status, due, reading, content, submitted>>,
               UNCHANGED callbackVars
        PROVE  OrderInv'
    BY <2>1 DEF OrderInv, QueueInv, WorkInv, Handed, Due, Filling, Pre,
       callbackVars
  <2>2. ASSUME NEW w \in Workers, Callback(w) PROVE OrderInv'
    <3>1. CASE GetPacketForSubmission_Fails(w)
      BY <2>1, <3>1 DEF GetPacketForSubmission_Fails, exchangeVars
    <3>2. QED  BY <2>2, <3>1, StartOrder, InnerOrder
  <2>3. QED
    BY <2>1, <2>2, AudioOrder
    DEF Next, Initialize_Subscribe, Exchange!Join, Initialize_RegisterSource,
        Finished, vars, exchangeVars
<1>3. IInv => ResultsInOrder
  BY DEF OrderInv, WorkInv, ResultsInOrder
<1>4. QED  BY <1>1, <1>2, <1>3, PTL DEF Spec

-----------------------------------------------------------------------------
(* The ranges.                                                             *)

\* What the exchange promises of its own: only a shared packet concerns a sink,
\* and it is due or read.
ExchangeInv ==
  \A s \in SourceIds, p \in PoolIds :
    /\ status[s][p] # "shared" => due[s][p] = {} /\ reading[s][p] = {}
    /\ due[s][p] \cap reading[s][p] = {}

\* The audio source fills one packet at a time, within the bound.
Bounds ==
  /\ content \in [AudioPool -> Numbers] /\ submitted \in Numbers
  /\ data \in [Workers -> Numbers] /\ input \in Numbers
  /\ packet \in [Workers -> AudioPool \cup ResultPool]
  /\ \A p \in AudioPool : Filling(p) => submitted < MaxPackets
  /\ \A p, q \in AudioPool : Filling(p) /\ Filling(q) => p = q

Reads(w) == pc[w] \in {"copy", "release"}

\* A packet of audio is read by one worker, and referenced while it is.
ReadInv ==
  /\ \A w \in Workers : Reads(w) => reading["audio"][packet[w]] # {}
  /\ \A p \in AudioPool : reading["audio"][p] # {} =>
       \E w \in Workers : Reads(w) /\ packet[w] = p
  /\ \A v, w \in Workers :
       Reads(v) /\ Reads(w) /\ packet[v] = packet[w] => v = w

LEMMA PoolIdsOf ==
  ASSUME Bounds, NEW w \in Workers
  PROVE  packet[w] \in PoolIds
BY PoolsFit DEF Bounds

LEMMA OperationKeeps ==
  ASSUME TypeInv, ExchangeInv, NEW s \in SourceIds, NEW p \in PoolIds,
         \/ Exchange!Acquire(s, p) \/ Exchange!Publish(s, p)
         \/ Exchange!Reclaim(s, p)
         \/ Exchange!Give(s, p, "dft") \/ Exchange!Done(s, p, "dft")
  PROVE  ExchangeInv'
<1> USE DEF TypeInv, ExchangeInv
<1>1. CASE Exchange!Acquire(s, p)
  BY <1>1 DEF Exchange!Acquire
<1>2. CASE Exchange!Publish(s, p)
  BY <1>2 DEF Exchange!Publish
<1>3. CASE Exchange!Reclaim(s, p)
  BY <1>3 DEF Exchange!Reclaim
<1>4. CASE Exchange!Give(s, p, "dft")
  BY <1>4 DEF Exchange!Give
<1>5. CASE Exchange!Done(s, p, "dft")
  <2>1. /\ due' = due
        /\ reading' = [reading EXCEPT ![s][p] = @ \ {"dft"}]
        /\ status' \in {status, [status EXCEPT ![s][p] = "free"]}
        /\ status' # status => due[s][p] = {}
    BY <1>5 DEF Exchange!Done, Exchange!IsLast
  <2>2. reading[s][p] \ {"dft"} = {}
    OBVIOUS
  <2>3. \A t \in SourceIds, q \in PoolIds :
          /\ reading'[t][q] \subseteq reading[t][q]
          /\ (t = s /\ q = p) => reading'[t][q] = {}
    BY <2>1, <2>2
  <2>4. \A t \in SourceIds, q \in PoolIds :
          status'[t][q] = status[t][q] \/ (t = s /\ q = p /\ due[s][p] = {})
    BY <2>1
  <2>5. ASSUME NEW t \in SourceIds, NEW q \in PoolIds
        PROVE  /\ status'[t][q] # "shared" => due[t][q] = {} /\ reading'[t][q] = {}
               /\ due[t][q] \cap reading'[t][q] = {}
    <3>1. CASE t = s /\ q = p
      <4>1. reading'[t][q] = {}
        BY <2>3, <3>1
      <4>2. status[s][p] # "shared" => due[s][p] = {}
        OBVIOUS
      <4>3. QED  BY <2>4, <3>1, <4>1, <4>2
    <3>2. CASE ~(t = s /\ q = p)
      <4>1. status'[t][q] = status[t][q] /\ reading'[t][q] \subseteq reading[t][q]
        BY <2>3, <2>4, <3>2
      <4>2. /\ status[t][q] # "shared" => due[t][q] = {} /\ reading[t][q] = {}
            /\ due[t][q] \cap reading[t][q] = {}
        OBVIOUS
      <4>3. QED  BY <4>1, <4>2
    <3>3. QED  BY <3>1, <3>2
  <2>6. QED  BY <2>1, <2>5
<1>6. QED  BY <1>1, <1>2, <1>3, <1>4, <1>5

LEMMA ExchangeStep ==
  ASSUME TypeInv, Bounds, ExchangeInv, [Next]_vars
  PROVE  ExchangeInv'
<1>1. ASSUME NEW p \in AudioPool, Audio(p) PROVE ExchangeInv'
  BY <1>1, OperationKeeps, PoolsFit
  DEF Audio, Audio_Acquire, Audio_Submit, Audio_Reclaim, SourceIds
<1>2. ASSUME NEW w \in Workers, Callback(w) PROVE ExchangeInv'
  <2>1. CASE Callback_Start(w)
    BY <2>1, OperationKeeps, PoolsFit DEF Callback_Start, SourceIds
  <2>2. CASE ReleasePacket(w)
    BY <2>2, OperationKeeps, PoolIdsOf DEF ReleasePacket, SourceIds
  <2>3. CASE GetPacketForSubmission(w)
    BY <2>3, OperationKeeps, PoolsFit DEF GetPacketForSubmission, SourceIds
  <2>4. CASE SubmitPacket(w) \/ Submit_Reclaim(w)
    BY <2>4, OperationKeeps, PoolIdsOf DEF SubmitPacket, Submit_Reclaim, SourceIds
  <2>5. CASE Callback_Copy(w) \/ addData(w) \/ transform(w) \/ Timestamp_Read(w)
               \/ Timestamp_Write(w) \/ GetPacketForSubmission_Fails(w)
    BY <2>5
    DEF Callback_Copy, addData, transform, Timestamp_Read, Timestamp_Write,
        GetPacketForSubmission_Fails, exchangeVars, ExchangeInv
  <2>6. QED  BY <1>2, <2>1, <2>2, <2>3, <2>4, <2>5 DEF Callback
<1>3. CASE UNCHANGED <<status, due, reading>>
  BY <1>3 DEF ExchangeInv
<1>4. QED
  BY <1>1, <1>2, <1>3
  DEF Next, Initialize_Subscribe, Exchange!Join, Initialize_RegisterSource,
      Finished, vars, exchangeVars

LEMMA BoundsStep ==
  ASSUME TypeInv, ExchangeInv, Bounds, [Next]_vars
  PROVE  Bounds'
<1> USE DEF Bounds, Filling
<1>1. MaxPackets \in Nat /\ Mixed \in Numbers
  BY FourierAssumption DEF Mixed, Numbers
<1>2. ASSUME NEW p \in AudioPool, Audio(p) PROVE Bounds'
  <2>0. UNCHANGED <<data, input, packet>>
    BY <1>2 DEF Audio, Audio_Acquire, Audio_Submit, Audio_Reclaim, callbackVars
  <2>1. CASE Audio_Acquire(p)
    <3>1. submitted + 1 \in Numbers /\ submitted < MaxPackets
      BY <1>1, <2>1 DEF Audio_Acquire, Numbers
    <3>2. content' \in [AudioPool -> Numbers] /\ submitted' = submitted
      BY <2>1, <3>1 DEF Audio_Acquire
    <3>3. \A q \in AudioPool : Filling(q)' => q = p
      BY <2>1, PoolsFit DEF Audio_Acquire, Exchange!Acquire, TypeInv, SourceIds
    <3>4. QED  BY <2>0, <3>1, <3>2, <3>3
  <2>2. CASE Audio_Submit(p)
    <3>1. Filling(p) /\ \A q \in AudioPool : ~Filling(q)'
      BY <2>2, PoolsFit DEF Audio_Submit, Exchange!Publish, TypeInv, SourceIds
    <3>2. submitted' \in Numbers /\ content' = content
      BY <1>1, <2>2, <3>1 DEF Audio_Submit, Numbers
    <3>3. QED  BY <2>0, <3>1, <3>2
  <2>3. CASE Audio_Reclaim(p)
    <3>1. \A q \in AudioPool : Filling(q)' => Filling(q)
      BY <2>3, PoolsFit DEF Audio_Reclaim, Exchange!Reclaim, TypeInv, SourceIds
    <3>2. UNCHANGED <<content, submitted>>
      BY <2>3 DEF Audio_Reclaim
    <3>3. QED  BY <2>0, <3>1, <3>2
  <2>4. QED  BY <1>2, <2>1, <2>2, <2>3 DEF Audio
<1>3. ASSUME NEW w \in Workers, Callback(w), ~GetPacketForSubmission_Fails(w)
      PROVE  Bounds'
  <2>1. \A q \in AudioPool : Filling(q)' => Filling(q)
    <3>1. CASE Callback_Start(w)
      BY <3>1 DEF Callback_Start, Exchange!Give
    <3>2. CASE ReleasePacket(w)
      <4>1. packet[w] \in PoolIds
        BY PoolIdsOf
      <4>2. \A q \in PoolIds : status'["audio"][q] \in {"free", status["audio"][q]}
        BY <3>2, <4>1 DEF ReleasePacket, Exchange!Done, TypeInv, SourceIds
      <4>3. QED  BY <4>2, PoolsFit
    <3>3. CASE GetPacketForSubmission(w) \/ SubmitPacket(w) \/ Submit_Reclaim(w)
      <4>1. status'["audio"] = status["audio"]
        BY <3>3 DEF GetPacketForSubmission, SubmitPacket, Submit_Reclaim,
           Exchange!Acquire, Exchange!Publish, Exchange!Reclaim, TypeInv, SourceIds
      <4>2. QED  BY <4>1
    <3>4. CASE Callback_Copy(w) \/ addData(w) \/ transform(w)
                 \/ Timestamp_Read(w) \/ Timestamp_Write(w)
      BY <3>4 DEF Callback_Copy, addData, transform, Timestamp_Read,
         Timestamp_Write, exchangeVars
    <3>5. QED  BY <1>3, <3>1, <3>2, <3>3, <3>4 DEF Callback
  <2>2. UNCHANGED <<content, submitted>>
    BY <1>3 DEF Callback, Callback_Start, Callback_Copy, ReleasePacket, addData,
       transform, GetPacketForSubmission, Timestamp_Read, Timestamp_Write,
       SubmitPacket, Submit_Reclaim, Take
  <2>3. data' \in [Workers -> Numbers] /\ input' \in Numbers
    <3>1. CASE Callback_Copy(w)
      <4>1. content[packet[w]] \in Numbers
        BY <3>1 DEF Callback_Copy, Take, At, TypeInv
      <4>2. QED  BY <3>1, <4>1 DEF Callback_Copy
    <3>2. CASE addData(w)
      BY <1>1, <3>2 DEF addData, Outcomes
    <3>3. CASE transform(w)
      BY <1>1, <3>3 DEF transform, Outcomes
    <3>4. CASE SubmitPacket(w)
      BY <1>1, <3>4 DEF SubmitPacket
    <3>5. CASE \/ Callback_Start(w) \/ ReleasePacket(w) \/ GetPacketForSubmission(w)
               \/ Timestamp_Read(w) \/ Timestamp_Write(w) \/ Submit_Reclaim(w)
      BY <3>5 DEF Callback_Start, ReleasePacket, GetPacketForSubmission,
         Timestamp_Read, Timestamp_Write, Submit_Reclaim
    <3>6. QED  BY <1>3, <3>1, <3>2, <3>3, <3>4, <3>5 DEF Callback
  <2>4. packet' \in [Workers -> AudioPool \cup ResultPool]
    <3>1. CASE Callback_Start(w)
      BY <3>1 DEF Callback_Start
    <3>2. CASE GetPacketForSubmission(w)
      BY <3>2 DEF GetPacketForSubmission
    <3>3. CASE Submit_Reclaim(w)
      <4>1. 1 \in ResultPool
        BY FourierAssumption DEF ResultPool
      <4>2. QED  BY <3>3, <4>1 DEF Submit_Reclaim
    <3>4. CASE \/ Callback_Copy(w) \/ ReleasePacket(w) \/ addData(w)
               \/ transform(w) \/ Timestamp_Read(w) \/ Timestamp_Write(w)
               \/ SubmitPacket(w)
      BY <3>4 DEF Callback_Copy, ReleasePacket, addData, transform,
         Timestamp_Read, Timestamp_Write, SubmitPacket
    <3>5. QED  BY <1>3, <3>1, <3>2, <3>3, <3>4 DEF Callback
  <2>5. QED  BY <2>1, <2>2, <2>3, <2>4
<1>4. CASE UNCHANGED <<status, content, submitted, callbackVars>>
  BY <1>4 DEF callbackVars
<1>5. QED
  BY <1>2, <1>3, <1>4
  DEF Next, Initialize_Subscribe, Exchange!Join, Initialize_RegisterSource,
      GetPacketForSubmission_Fails, Finished, vars, exchangeVars

\* A step that neither starts nor finishes reading.
LEMMA ReadKept ==
  ASSUME ReadInv,
         \A p \in AudioPool : reading'["audio"][p] = reading["audio"][p],
         \A w \in Workers : /\ Reads(w)' <=> Reads(w)
                            /\ Reads(w) => /\ packet'[w] = packet[w]
                                           /\ packet[w] \in AudioPool
  PROVE  ReadInv'
BY DEF ReadInv

LEMMA ReadStep ==
  ASSUME TypeInv, ExchangeInv, Bounds, ReadInv, [Next]_vars
  PROVE  ReadInv'
<1>0. pc \in [Workers -> Places]
      /\ \A w \in Workers : Reads(w) => packet[w] \in AudioPool
  BY DEF TypeInv, Reads
<1>1. ASSUME NEW p \in AudioPool, Audio(p) PROVE ReadInv'
  BY <1>0, <1>1, ReadKept
  DEF Audio, Audio_Acquire, Audio_Submit, Audio_Reclaim, Exchange!Acquire,
      Exchange!Publish, Exchange!Reclaim, callbackVars, Reads
<1>2. ASSUME NEW w \in Workers, Callback(w), ~GetPacketForSubmission_Fails(w)
      PROVE  ReadInv'
  <2>1. CASE Callback_Start(w)
    <3>1. PICK p \in AudioPool : /\ Exchange!Give("audio", p, "dft")
                                 /\ packet' = [packet EXCEPT ![w] = p]
      BY <2>1 DEF Callback_Start
    <3>2. /\ reading["audio"][p] = {} /\ reading'["audio"][p] # {}
          /\ \A q \in AudioPool : q # p =>
               reading'["audio"][q] = reading["audio"][q]
      BY <3>1, PoolsFit DEF Exchange!Give, ExchangeInv, TypeInv, SourceIds
    <3>3. /\ ~Reads(w) /\ Reads(w)' /\ packet'[w] = p
          /\ \A v \in Workers \ {w} : /\ Reads(v)' <=> Reads(v)
                                      /\ packet'[v] = packet[v]
      <4>1. Steps[1] = "copy"
        BY DEF Steps
      <4>2. pc[w] = "idle" /\ pc' = [pc EXCEPT ![w] = "copy"]
        BY <2>1, <4>1 DEF Callback_Start, At
      <4>3. QED  BY <1>0, <3>1, <4>2 DEF Reads, Bounds
    <3>4. \A v \in Workers \ {w} : Reads(v) => packet[v] # p
      BY <3>2 DEF ReadInv
    <3>5. \A v \in Workers : Reads(v)' => reading'["audio"][packet'[v]] # {}
      BY <1>0, <3>2, <3>3, <3>4 DEF ReadInv
    <3>6. \A q \in AudioPool : reading'["audio"][q] # {} =>
            \E v \in Workers : Reads(v)' /\ packet'[v] = q
      <4> SUFFICES ASSUME NEW q \in AudioPool, reading'["audio"][q] # {}
                   PROVE  \E v \in Workers : Reads(v)' /\ packet'[v] = q
        OBVIOUS
      <4>1. CASE q = p
        BY <3>3, <4>1
      <4>2. CASE q # p
        <5>1. PICK v \in Workers : Reads(v) /\ packet[v] = q
          BY <3>2, <4>2 DEF ReadInv
        <5>2. QED  BY <3>3, <5>1
      <4>3. QED  BY <4>1, <4>2
    <3>7. \A u, v \in Workers :
            Reads(u)' /\ Reads(v)' /\ packet'[u] = packet'[v] => u = v
      BY <3>3, <3>4 DEF ReadInv
    <3>8. QED  BY <3>5, <3>6, <3>7 DEF ReadInv
  <2>2. CASE ReleasePacket(w)
    <3>1. Take(w, "release") /\ packet' = packet
      BY <2>2 DEF ReleasePacket
    <3>2. /\ Reads(w) /\ ~Reads(w)'
          /\ \A v \in Workers \ {w} : Reads(v)' <=> Reads(v)
      BY <1>0, <3>1, StepOrder DEF Reads
    <3>3. packet[w] \in AudioPool
      BY <1>0, <3>2
    <3>4. /\ reading'["audio"][packet[w]] = {}
          /\ \A q \in AudioPool : q # packet[w] =>
               reading'["audio"][q] = reading["audio"][q]
      BY <2>2, <3>3, PoolsFit DEF ReleasePacket, Exchange!Done, TypeInv, SourceIds
    <3>5. \A v \in Workers \ {w} : Reads(v) => packet[v] # packet[w]
      BY <3>2 DEF ReadInv
    <3>6. \A v \in Workers : Reads(v)' => reading'["audio"][packet'[v]] # {}
      BY <1>0, <3>1, <3>2, <3>4, <3>5 DEF ReadInv
    <3>7. \A q \in AudioPool : reading'["audio"][q] # {} =>
            \E v \in Workers : Reads(v)' /\ packet'[v] = q
      BY <3>1, <3>2, <3>4 DEF ReadInv
    <3>8. \A u, v \in Workers :
            Reads(u)' /\ Reads(v)' /\ packet'[u] = packet'[v] => u = v
      BY <3>1, <3>2 DEF ReadInv
    <3>9. QED  BY <3>6, <3>7, <3>8 DEF ReadInv
  <2>3. ASSUME NEW l \in Places \ {"idle", "release"}, Take(w, l),
               reading'["audio"] = reading["audio"],
               \A v \in Workers : Reads(v) => packet'[v] = packet[v]
        PROVE  ReadInv'
    <3>1. pc[w] = l
      BY <2>3 DEF Take, At
    <3>2. Reads(w)' <=> Reads(w)
      BY <1>0, <2>3, <3>1, StepOrder DEF Reads, Places
    <3>3. \A v \in Workers \ {w} : Reads(v)' <=> Reads(v)
      BY <1>0, <2>3, StepOrder DEF Reads
    <3>4. QED  BY <1>0, <2>3, <3>2, <3>3, ReadKept
  <2>4. CASE \/ Callback_Copy(w) \/ addData(w) \/ transform(w)
             \/ Timestamp_Read(w) \/ Timestamp_Write(w)
    BY <2>3, <2>4 DEF Callback_Copy, addData, transform, Timestamp_Read,
       Timestamp_Write, exchangeVars, Places
  <2>5. CASE GetPacketForSubmission(w)
    <3>1. Take(w, "acquire") /\ reading' = reading
          /\ \A v \in Workers \ {w} : packet'[v] = packet[v]
      BY <2>5 DEF GetPacketForSubmission, Exchange!Acquire, Bounds
    <3>2. ~Reads(w)
      BY <3>1 DEF Take, At, Reads
    <3>3. QED  BY <2>3, <3>1, <3>2 DEF Places
  <2>6. CASE SubmitPacket(w)
    BY <2>3, <2>6 DEF SubmitPacket, Exchange!Publish, Places
  <2>7. CASE Submit_Reclaim(w)
    <3>1. Take(w, "finish") /\ reading' = reading
          /\ \A v \in Workers \ {w} : packet'[v] = packet[v]
      BY <2>7 DEF Submit_Reclaim, Exchange!Reclaim, Bounds
    <3>2. ~Reads(w)
      BY <3>1 DEF Take, At, Reads
    <3>3. QED  BY <2>3, <3>1, <3>2 DEF Places
  <2>8. QED  BY <1>2, <2>1, <2>2, <2>4, <2>5, <2>6, <2>7 DEF Callback
<1>3. CASE UNCHANGED <<reading, pc, packet>>
  BY <1>0, <1>3, ReadKept DEF Reads
<1>4. QED
  BY <1>1, <1>2, <1>3
  DEF Next, Initialize_Subscribe, Exchange!Join, Initialize_RegisterSource,
      GetPacketForSubmission_Fails, Finished, vars, exchangeVars, callbackVars

\* The workers that have yet to write the timestamp.
Writing == {"copy", "release", "add", "transform", "acquire", "read", "write"}
Writers == {w \in Workers : pc[w] \in Writing}
DueSet  == {p \in AudioPool : Due(p)}

Outstanding == Cardinality(DueSet) + Cardinality(Writers)

\* A timestamp is written once for each packet submitted, also where workers
\* read the same one, so that none exceeds the packets.
CountInv ==
  /\ IsFiniteSet(Writers)
  /\ timestamp + Outstanding <= submitted
  /\ \A w \in Workers : time[w] + Outstanding <= submitted
  /\ results \in Seq([of : Numbers, time : Numbers])

LEMMA CountIs ==
  ASSUME IsFiniteSet(Writers)
  PROVE  /\ IsFiniteSet(DueSet)
         /\ Cardinality(DueSet) \in Nat /\ Cardinality(Writers) \in Nat
         /\ Outstanding \in Nat
<1>1. IsFiniteSet(AudioPool)
  BY PoolsFit, FS_Interval DEF AudioPool
<1>2. IsFiniteSet(DueSet)
  BY <1>1, FS_Subset DEF DueSet
<1>3. Cardinality(DueSet) \in Nat /\ Cardinality(Writers) \in Nat
  BY <1>2, FS_CardinalityType
<1>4. QED  BY <1>2, <1>3 DEF Outstanding

LEMMA TimesFit ==
  ASSUME TypeInv, Bounds, CountInv
  PROVE  /\ timestamp \in Numbers /\ time \in [Workers -> Numbers]
<1>1. Outstanding \in Nat
  BY CountIs DEF CountInv
<1>2. submitted \in Nat /\ submitted <= MaxPackets /\ MaxPackets \in Nat
  BY FourierAssumption DEF Bounds, Numbers
<1>3. \A n \in Nat : n + Outstanding <= submitted => n \in Numbers
  BY <1>1, <1>2 DEF Numbers
<1>4. QED  BY <1>3 DEF TypeInv, CountInv

\* A step that neither takes nor gives anything to write.
LEMMA CountKept ==
  ASSUME TypeInv, CountInv, DueSet' = DueSet, Writers' = Writers,
         submitted' = submitted, timestamp' = timestamp,
         \A w \in Workers : time'[w] \in {time[w], timestamp, 0},
         results' \in Seq([of : Numbers, time : Numbers])
  PROVE  CountInv'
<1>1. Outstanding' = Outstanding /\ Outstanding \in Nat
  BY CountIs DEF Outstanding, CountInv
<1>2. ASSUME NEW w \in Workers PROVE time'[w] + Outstanding <= submitted
  <2>1. timestamp \in Nat /\ submitted \in Nat
    BY DEF TypeInv
  <2>2. 0 + Outstanding <= submitted
    BY <1>1, <2>1 DEF CountInv
  <2>3. QED  BY <2>2 DEF CountInv
<1>3. QED  BY <1>1, <1>2 DEF CountInv

LEMMA AudioCount ==
  ASSUME TypeInv, ExchangeInv, CountInv, NEW p \in AudioPool, Audio(p)
  PROVE  CountInv'
<1>0. /\ UNCHANGED <<pc, time, timestamp, results>>
      /\ Writers' = Writers
  BY DEF Audio, Audio_Acquire, Audio_Submit, Audio_Reclaim, callbackVars, Writers
<1>1. CASE Audio_Acquire(p) \/ Audio_Reclaim(p)
  <2>1. UNCHANGED <<due, submitted>>
    BY <1>1 DEF Audio_Acquire, Audio_Reclaim, Exchange!Acquire, Exchange!Reclaim
  <2>2. DueSet' = DueSet
    BY <2>1 DEF DueSet, Due
  <2>3. QED  BY <1>0, <2>1, <2>2, CountKept DEF CountInv
<1>2. CASE Audio_Submit(p)
  <2>1. p \in PoolIds /\ ~Due(p)
    BY <1>2, PoolsFit
    DEF Audio_Submit, Exchange!Publish, ExchangeInv, Due, SourceIds
  <2>2. \A q \in AudioPool : q # p => (Due(q)' <=> Due(q))
    BY <1>2, PoolsFit DEF Audio_Submit, Exchange!Publish, TypeInv, Due, SourceIds
  <2>3. CASE ~Due(p)'
    <3>1. DueSet' = DueSet
      BY <2>1, <2>2, <2>3 DEF DueSet
    <3>2. submitted' = submitted
      BY <1>2, <2>3 DEF Audio_Submit, Due
    <3>3. QED  BY <1>0, <3>1, <3>2, CountKept DEF CountInv
  <2>4. CASE Due(p)'
    <3>1. DueSet' = DueSet \cup {p} /\ p \notin DueSet
      BY <2>1, <2>2, <2>4 DEF DueSet
    <3>2. Cardinality(DueSet') = Cardinality(DueSet) + 1
      BY <3>1, CountIs, FS_AddElement DEF CountInv
    <3>3. submitted' = submitted + 1
      BY <1>2, <2>4 DEF Audio_Submit, Due
    <3>4. PICK k \in Nat : k = Outstanding /\ Outstanding' = k + 1
      BY <1>0, <3>2, CountIs DEF Outstanding, CountInv
    <3>5. /\ timestamp \in Nat /\ submitted \in Nat /\ time \in [Workers -> Nat]
          /\ timestamp + k <= submitted
          /\ \A w \in Workers : time[w] + k <= submitted
      BY <3>4 DEF TypeInv, CountInv
    <3>6. /\ timestamp + (k + 1) <= submitted + 1
          /\ \A w \in Workers : time[w] + (k + 1) <= submitted + 1
      BY <3>5
    <3>7. QED  BY <1>0, <3>3, <3>4, <3>6 DEF CountInv
  <2>5. QED  BY <2>3, <2>4
<1>3. QED  BY <1>1, <1>2 DEF Audio

LEMMA StartCount ==
  ASSUME TypeInv, ExchangeInv, CountInv, NEW w \in Workers, Callback_Start(w)
  PROVE  CountInv'
<1>1. PICK p \in AudioPool : Exchange!Give("audio", p, "dft")
  BY DEF Callback_Start
<1>2. /\ Due(p) /\ ~Due(p)'
      /\ \A q \in AudioPool : q # p => (Due(q)' <=> Due(q))
  BY <1>1, PoolsFit DEF Exchange!Give, TypeInv, Due, SourceIds
<1>3. DueSet' = DueSet \ {p} /\ p \in DueSet
  BY <1>2 DEF DueSet
<1>4. Cardinality(DueSet') = Cardinality(DueSet) - 1
  BY <1>3, CountIs, FS_RemoveElement DEF CountInv
<1>5. Writers' = Writers \cup {w} /\ w \notin Writers
  <2>1. Steps[1] = "copy"
    BY DEF Steps
  <2>2. pc[w] = "idle" /\ pc' = [pc EXCEPT ![w] = "copy"]
    BY <2>1 DEF Callback_Start, At
  <2>3. \A v \in Workers : pc'[v] = IF v = w THEN "copy" ELSE pc[v]
    BY <2>2 DEF TypeInv
  <2>4. QED  BY <2>2, <2>3 DEF Writers, Writing
<1>6. IsFiniteSet(Writers') /\ Cardinality(Writers') = Cardinality(Writers) + 1
  BY <1>5, FS_AddElement DEF CountInv
<1>7. Outstanding' = Outstanding
  BY <1>4, <1>6, CountIs DEF Outstanding, CountInv
<1>8. UNCHANGED <<submitted, time, timestamp, results>>
  BY DEF Callback_Start
<1>9. QED  BY <1>6, <1>7, <1>8 DEF CountInv

LEMMA WriteCount ==
  ASSUME TypeInv, CountInv, NEW w \in Workers, Timestamp_Write(w)
  PROVE  CountInv'
<1>1. Take(w, "write") /\ timestamp' = time[w] + 1
      /\ UNCHANGED <<due, submitted, time, results>>
  BY DEF Timestamp_Write, Take, exchangeVars
<1>2. DueSet' = DueSet
  BY <1>1 DEF DueSet, Due
<1>3. Writers' = Writers \ {w} /\ w \in Writers
  <2>1. /\ pc[w] = "write" /\ pc'[w] = "submit"
        /\ \A v \in Workers \ {w} : pc'[v] = pc[v]
    BY <1>1, StepOrder DEF TypeInv
  <2>2. QED  BY <2>1 DEF Writers, Writing
<1>4. IsFiniteSet(Writers') /\ Cardinality(Writers') = Cardinality(Writers) - 1
  BY <1>3, FS_RemoveElement DEF CountInv
<1>5. PICK k \in Nat : Outstanding = k /\ Outstanding' = k - 1
  BY <1>2, <1>4, CountIs DEF Outstanding, CountInv
<1>6. /\ time \in [Workers -> Nat] /\ submitted \in Nat
      /\ \A v \in Workers : time[v] + k <= submitted
  BY <1>5 DEF TypeInv, CountInv
<1>7. /\ (time[w] + 1) + (k - 1) <= submitted
      /\ \A v \in Workers : time[v] + (k - 1) <= submitted
  BY <1>6
<1>8. QED  BY <1>1, <1>4, <1>5, <1>7 DEF CountInv

LEMMA CountStep ==
  ASSUME TypeInv, ExchangeInv, Bounds, CountInv, [Next]_vars
  PROVE  CountInv'
<1>0. pc \in [Workers -> Places]
  BY DEF TypeInv
<1>1. ASSUME NEW w \in Workers, Callback(w), ~GetPacketForSubmission_Fails(w)
      PROVE  CountInv'
  \* A step on which the timestamp has still to be written afterwards, or has
  \* been written before.
  <2>1. ASSUME NEW l \in Places \ {"idle", "write"}, Take(w, l),
               due'["audio"] = due["audio"], timestamp' = timestamp,
               \A v \in Workers : time'[v] \in {time[v], timestamp, 0},
               results' \in Seq([of : Numbers, time : Numbers])
        PROVE  CountInv'
    <3>1. pc[w] = l
      BY <2>1 DEF Take, At
    <3>2. pc'[w] \in Writing <=> pc[w] \in Writing
      BY <1>0, <2>1, <3>1, StepOrder DEF Writing, Places
    <3>3. \A v \in Workers \ {w} : pc'[v] = pc[v]
      BY <1>0, <2>1, StepOrder
    <3>4. Writers' = Writers
      BY <3>2, <3>3 DEF Writers
    <3>5. DueSet' = DueSet
      BY <2>1 DEF DueSet, Due
    <3>6. submitted' = submitted
      BY <2>1 DEF Take
    <3>7. QED  BY <2>1, <3>4, <3>5, <3>6, CountKept
  <2> results \in Seq([of : Numbers, time : Numbers])
    BY DEF CountInv
  <2>2. CASE Callback_Start(w)
    BY <2>2, StartCount
  <2>3. CASE Timestamp_Write(w)
    BY <2>3, WriteCount
  <2>4. CASE Callback_Copy(w) \/ addData(w) \/ transform(w)
    BY <2>1, <2>4 DEF Callback_Copy, addData, transform, exchangeVars, Places
  <2>5. CASE Timestamp_Read(w)
    <3>1. Take(w, "read") /\ UNCHANGED <<due, timestamp, results>>
      BY <2>5 DEF Timestamp_Read, exchangeVars
    <3>2. \A v \in Workers : time'[v] \in {time[v], timestamp, 0}
      BY <2>5 DEF Timestamp_Read, TypeInv
    <3>3. QED  BY <2>1, <3>1, <3>2 DEF Places
  <2>6. CASE ReleasePacket(w)
    BY <2>1, <2>6 DEF ReleasePacket, Exchange!Done, Places
  <2>7. CASE GetPacketForSubmission(w)
    BY <2>1, <2>7 DEF GetPacketForSubmission, Exchange!Acquire, Places
  <2>8. CASE Submit_Reclaim(w)
    BY <2>1, <2>8 DEF Submit_Reclaim, Exchange!Reclaim, Places
  <2>9. CASE SubmitPacket(w)
    <3>1. Take(w, "submit") /\ due'["audio"] = due["audio"]
          /\ timestamp' = timestamp
      BY <2>9 DEF SubmitPacket, Exchange!Publish, TypeInv, SourceIds
    <3>2. \A v \in Workers : time'[v] \in {time[v], timestamp, 0}
      BY <2>9 DEF SubmitPacket, TypeInv
    <3>3. [of |-> data[w], time |-> time[w]] \in [of : Numbers, time : Numbers]
      BY TimesFit DEF Bounds
    <3>4. results' \in Seq([of : Numbers, time : Numbers])
      BY <2>9, <3>3 DEF SubmitPacket
    <3>5. QED  BY <2>1, <3>1, <3>2, <3>4 DEF Places
  <2>10. QED
    BY <1>1, <2>2, <2>3, <2>4, <2>5, <2>6, <2>7, <2>8, <2>9 DEF Callback
<1>2. CASE UNCHANGED <<due, submitted, pc, time, timestamp, results>>
  <2>1. DueSet' = DueSet /\ Writers' = Writers
    BY <1>2 DEF DueSet, Due, Writers
  <2>2. QED  BY <1>2, <2>1, CountKept DEF CountInv
<1>3. QED
  BY <1>1, <1>2, AudioCount
  DEF Next, Initialize_Subscribe, Exchange!Join, Initialize_RegisterSource,
      GetPacketForSubmission_Fails, Finished, vars, exchangeVars, callbackVars

\* The variables stay in their ranges: among them, a packet of audio is
\* referenced exactly while a callback may read it, and no timestamp exceeds the
\* number of packets, with any number of workers (TypeOK of FourierTransform).
THEOREM TypeCorrect == Spec => []TypeOK
<1> DEFINE Inv == /\ TypeInv /\ ExchangeInv /\ Bounds /\ ReadInv /\ CountInv
<1>1. Init => Inv
  <2> SUFFICES ASSUME Init PROVE Inv
    OBVIOUS
  <2>1. /\ \A s \in SourceIds, p \in PoolIds :
             status[s][p] = "free" /\ due[s][p] = {} /\ reading[s][p] = {}
        /\ "audio" \in SourceIds
    BY ExchangeInit DEF SourceIds
  <2>2. /\ \A w \in Workers : pc[w] = "idle"
        /\ timestamp = 0 /\ submitted = 0 /\ results = <<>>
        /\ \A w \in Workers : time[w] = 0
    BY DEF Init
  <2>3. ExchangeInv
    BY <2>1 DEF ExchangeInv
  <2>4. Bounds
    <3>1. 0 \in Numbers /\ 1 \in ResultPool
      BY FourierAssumption DEF Numbers, ResultPool
    <3>2. \A p \in AudioPool : ~Filling(p)
      BY <2>1, PoolsFit DEF Filling
    <3>3. QED  BY <3>1, <3>2 DEF Init, Bounds, Mixed
  <2>5. ReadInv
    BY <2>1, <2>2, PoolsFit DEF ReadInv, Reads
  <2>6. CountInv
    <3>1. DueSet = {} /\ Writers = {}
      BY <2>1, <2>2, PoolsFit DEF DueSet, Due, Writers, Writing
    <3>2. IsFiniteSet(Writers) /\ Outstanding = 0
      BY <3>1, FS_EmptySet DEF Outstanding
    <3>3. QED  BY <2>2, <3>2 DEF CountInv
  <2>7. QED  BY TypeInit, <2>3, <2>4, <2>5, <2>6
<1>2. Inv /\ [Next]_vars => Inv'
  BY TypeStep, ExchangeStep, BoundsStep, ReadStep, CountStep
<1>3. Inv => TypeOK
  <2> SUFFICES ASSUME Inv PROVE TypeOK
    OBVIOUS
  <2>1. Exchange!TypeOK
    BY DEF TypeInv, ExchangeInv, Exchange!TypeOK, Exchange!Status, SourceIds,
       PoolIds
  <2>2. Locations = Places
    <3>1. DOMAIN Steps = {1, 2, 3, 4, 5, 6, 7, 8, 9}
      BY DEF Steps
    <3>2. QED  BY <3>1 DEF Locations, Places, Steps
  <2>3. {p \in AudioPool : reading["audio"][p] # {}} =
          {packet[w] : w \in {v \in Workers : pc[v] \in {"copy", "release"}}}
    <3>1. ASSUME NEW p \in AudioPool, reading["audio"][p] # {}
          PROVE  \E w \in {v \in Workers : pc[v] \in {"copy", "release"}} :
                   p = packet[w]
      BY <3>1 DEF ReadInv, Reads
    <3>2. ASSUME NEW w \in Workers, pc[w] \in {"copy", "release"}
          PROVE  packet[w] \in AudioPool /\ reading["audio"][packet[w]] # {}
      BY <3>2 DEF ReadInv, Reads, TypeInv
    <3>3. QED  BY <3>1, <3>2
  <2>4. timestamp \in Numbers /\ time \in [Workers -> Numbers]
    BY TimesFit
  <2>5. QED  BY <2>1, <2>2, <2>3, <2>4 DEF TypeOK, TypeInv, Bounds, CountInv
<1>4. QED  BY <1>1, <1>2, <1>3, PTL DEF Spec
=============================================================================
