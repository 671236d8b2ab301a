--------------------------- MODULE SchedulerProofs ---------------------------
(***************************************************************************)
(* The scheduler, for every number of workers, clients, sources, packets   *)
(* and sinks.                                                              *)
(*                                                                         *)
(* First the packet bookkeeping.  A packet's reference count is the number *)
(* of sinks that may still read it; that it stays so while submissions,    *)
(* dispatches and releases interleave rests on four facts that are proved  *)
(* together: who holds a source's lock (LockInv), that a task is in one    *)
(* place only (TaskInv), what the free stack holds (PoolInv), and what a   *)
(* packet that is being filled or submitted may already be referenced by   *)
(* (FillInv).                                                              *)
(*                                                                         *)
(* Then what the scheduler promises its users: no task is started after    *)
(* Shutdown, ids of subscriptions stay valid, no wake-up is lost, earlier  *)
(* tasks are taken first, and the scheduler implements the packet          *)
(* exchange.  That adds who holds the mutex of a queue (MutexInv), whose   *)
(* slot an id denotes (IdInv), that tasks and wake-ups balance (WaitInv),  *)
(* that a sink has at most one task per packet (OnceInv), and how a        *)
(* source's tasks lie in time (OrderInv).                                  *)
(***************************************************************************)
EXTENDS Scheduler, FiniteSetTheorems, SequenceTheorems, TLAPS

Publications  == {"enqueue_UI", "enqueue_workers", "notify"}
DispatchSteps == {"loop", "lock", "test", "wait", "waiting", "pop", "done",
                  "destroy_notify", "join", "destroyed"}

\* What a thread must have to be where it is.
CallInv ==
  \A t \in Threads :
    /\ pc[t] \in Publications \cup {"submit"} => filling[t] # NoPacket
    /\ pc[t] = "release" => t \in owed
    /\ t \in owed => running[t] # NoTask
    /\ pc[t] \in DispatchSteps => running[t] = NoTask
    /\ t \in waiting => pc[t] = "waiting"
    /\ pc[t] \in {"wait", "waiting"} => t \in Workers
    /\ t \in Clients => running[t] = NoTask /\ pc[t] \notin DispatchSteps

\* A source is locked across steps only by the thread that publishes to it.
LockInv ==
  \A t \in Threads :
    pc[t] \in Publications => source_mtx[filling[t].source_id] = t

\* A packet is on the free stack, and once, if and only if it is not in use.
PoolInv ==
  \A s \in Sources :
    /\ \A i, j \in DOMAIN free_packets[s] :
         free_packets[s][i] = free_packets[s][j] => i = j
    /\ \A p \in Packets :
         packet_usages[s][p] <=> \A i \in DOMAIN free_packets[s] :
                                   free_packets[s][i] # p

\* A task is queued, or its callback has to release, or its packet was kept;
\* the queues hold the tasks of different sinks.
TaskInv ==
  /\ \A k \in tasks["UI"] : k.sink \in UISinks
  /\ \A k \in tasks["workers"] : k.sink \notin UISinks
  /\ \A q \in Queues : tasks[q] \cap unreleased = {}
  /\ \A t \in owed :
       running[t] \notin tasks["UI"] \cup tasks["workers"] \cup unreleased
  /\ \A t, u \in owed : running[t] = running[u] => t = u

Fills(t, s, p) ==
  filling[t] # NoPacket /\ filling[t].source_id = s /\ filling[t].packet = p

\* A packet has one producer, and no reader before it is published; while it
\* is being published its readers are sinks of the queues already served.
FillInv ==
  \A s \in Sources, p \in Packets, t \in Threads :
    Fills(t, s, p) =>
      /\ packet_usages[s][p]
      /\ \A u \in Threads : Fills(u, s, p) => u = t
      /\ pc[t] \notin {"enqueue_workers", "notify"} => References(s, p) = {}
      /\ pc[t] = "enqueue_workers" =>
           \A k \in References(s, p) : k.sink \in UISinks

\* The count is exact, and a packet in use is being filled or referenced.
RefInv ==
  \A s \in Sources, p \in Packets :
    /\ IsFiniteSet(References(s, p))
    /\ packet_refcounts[s][p] = Cardinality(References(s, p))
    /\ References(s, p) # {} => packet_usages[s][p]
    /\ packet_usages[s][p] =>
         References(s, p) # {} \/ \E t \in Threads : Fills(t, s, p)

IInv == TypeOK /\ CallInv /\ LockInv /\ PoolInv /\ TaskInv /\ FillInv /\ RefInv

-----------------------------------------------------------------------------

LEMMA FillingFacts ==
  ASSUME TypeOK, NEW t \in Threads, filling[t] # NoPacket
  PROVE  /\ filling[t] \in FillingType
         /\ filling[t].timestamp \in Nat
         /\ filling[t].source_id \in Sources /\ filling[t].packet \in Packets
  BY DEF TypeOK, FillingType

LEMMA RunningFacts ==
  ASSUME TypeOK, NEW t \in Threads, running[t] # NoTask
  PROVE  /\ running[t] \in TaskType /\ running[t].source_id \in Sources
         /\ running[t].packet \in Packets /\ running[t].sink \in Sinks
  BY DEF TypeOK, TaskType

LEMMA NoTaskIsNone == NoTask \notin TaskType /\ NoPacket \notin FillingType
  BY SourceAssumption DEF NoTask, NoPacket, TaskType, FillingType, Packets

LEMMA SinksFinite ==
  ASSUME TypeOK, NEW s \in Sources
  PROVE  /\ Subscribed(s) \subseteq Sinks
         /\ IsFiniteSet(UISubscribers(s)) /\ IsFiniteSet(NormalSubscribers(s))
         /\ Cardinality(UISubscribers(s)) \in Nat
         /\ Cardinality(NormalSubscribers(s)) \in Nat
<1>1. Subscribed(s) \subseteq Sinks
  BY DEF Subscribed, TypeOK
<1>2. UISubscribers(s) \subseteq Sinks /\ NormalSubscribers(s) \subseteq Sinks
  BY <1>1 DEF UISubscribers, NormalSubscribers
<1>3. IsFiniteSet(UISubscribers(s)) /\ IsFiniteSet(NormalSubscribers(s))
  BY <1>2, SourceAssumption, FS_Subset
<1>4. QED  BY <1>1, <1>3, FS_CardinalityType

LEMMA TasksForType ==
  ASSUME NEW f \in FillingType, NEW sinks \in SUBSET Sinks
  PROVE  TasksFor(f, sinks) \subseteq TaskType
  BY DEF TasksFor, TaskType, FillingType

LEMMA RemoveLast ==
  ASSUME NEW stack \in Seq(Packets), stack # <<>>
  PROVE  /\ Len(stack) \in Nat \ {0} /\ stack[Len(stack)] \in Packets
         /\ SubSeq(stack, 1, Len(stack) - 1) \in Seq(Packets)
         /\ Len(SubSeq(stack, 1, Len(stack) - 1)) = Len(stack) - 1
         /\ \A i \in 1 .. Len(stack) - 1 :
              SubSeq(stack, 1, Len(stack) - 1)[i] = stack[i]
<1>1. Len(stack) \in Nat \ {0} /\ stack[Len(stack)] \in Packets
  OBVIOUS
<1> DEFINE n == Len(stack) - 1
<1>2. n \in Int /\ \A i \in 1 .. n : stack[i] \in Packets
  BY <1>1
<1>3. /\ SubSeq(stack, 1, n) \in Seq(Packets)
      /\ Len(SubSeq(stack, 1, n)) = IF 1 <= n THEN n - 1 + 1 ELSE 0
      /\ \A i \in 1 .. n - 1 + 1 : SubSeq(stack, 1, n)[i] = stack[1 + i - 1]
  BY <1>2, SubSeqProperties
<1> DEFINE shorter == SubSeq(stack, 1, n)
<1> HIDE DEF shorter
<1>4. n \in Nat /\ n + 1 = Len(stack)
  BY <1>1
<1>5. Len(shorter) = n
  BY <1>3, <1>4 DEF shorter
<1>6. \A i \in 1 .. n : shorter[i] = stack[i]
  <2>1. \A i \in 1 .. n - 1 + 1 : shorter[i] = stack[1 + i - 1]
    BY <1>3 DEF shorter
  <2> HIDE DEF n
  <2>2. QED  BY <1>4, <2>1
<1>7. QED  BY <1>1, <1>3, <1>5, <1>6 DEF shorter

\* The steps that touch neither packets, tasks nor who fills what, and move no
\* thread into or out of a publication.
LEMMA Neutral ==
  ASSUME LockInv, PoolInv, TaskInv, FillInv, RefInv,
         UNCHANGED <<source_mtx, sourceVars, tasks, filling, running, owed,
                     unreleased>>,
         \A t \in Threads : \/ pc'[t] = pc[t]
                            \/ pc[t] \notin Publications /\ pc'[t] \notin Publications
  PROVE  LockInv' /\ PoolInv' /\ TaskInv' /\ FillInv' /\ RefInv'
<1>1. /\ \A s, p : References(s, p)' = References(s, p)
      /\ \A t, s, p : Fills(t, s, p)' = Fills(t, s, p)
  BY DEF References, Fills
<1>2. LockInv'
  BY DEF LockInv, Publications
<1>3. PoolInv'
  BY DEF PoolInv, sourceVars
<1>4. TaskInv'
  BY DEF TaskInv
<1>5. FillInv'
  BY <1>1 DEF FillInv, sourceVars, Publications
<1>6. RefInv'
  BY <1>1 DEF RefInv, sourceVars
<1>7. QED  BY <1>2, <1>3, <1>4, <1>5, <1>6

-----------------------------------------------------------------------------

\* A thread that releases holds a reference, so the count is not zero.
LEMMA ReleaseFacts ==
  ASSUME IInv, NEW t \in Threads, pc[t] = "release"
  PROVE  LET s == running[t].source_id
             p == running[t].packet
         IN /\ s \in Sources /\ p \in Packets
            /\ running[t] \in References(s, p)
            /\ packet_refcounts[s][p] \in Nat \ {0}
            /\ packet_usages[s][p]
<1> DEFINE s == running[t].source_id
           p == running[t].packet
<1>1. t \in owed /\ running[t] # NoTask
  BY DEF IInv, CallInv
<1>2. s \in Sources /\ p \in Packets
  BY <1>1, RunningFacts DEF IInv
<1>3. running[t] \in References(s, p)
  BY <1>1 DEF References
<1>4. /\ IsFiniteSet(References(s, p)) /\ packet_usages[s][p]
      /\ packet_refcounts[s][p] = Cardinality(References(s, p))
  BY <1>2, <1>3 DEF IInv, RefInv
<1>5. packet_refcounts[s][p] \in Nat \ {0}
  BY <1>3, <1>4, FS_EmptySet, FS_CardinalityType
<1>6. QED  BY <1>2, <1>3, <1>4, <1>5

LEMMA TypeCall ==
  ASSUME IInv, NEW t \in Threads, Call(t)
  PROVE  TypeOK'
<1> USE DEF IInv
<1>1. ASSUME NEW s \in Sources, GetPacketForSubmission(t, s) PROVE TypeOK'
  <2> DEFINE free == free_packets[s]
             top  == free[Len(free)]
             new  == [timestamp |-> Timestamps[s][produced[s] + 1],
                      source_id |-> s, packet |-> top]
  <2>1. CASE free = <<>>
    BY <1>1, <2>1 DEF GetPacketForSubmission, TypeOK, queueVars, subVars
  <2>2. CASE free # <<>>
    <3>1. free \in Seq(Packets)
      BY DEF TypeOK
    <3>2. top \in Packets /\ SubSeq(free, 1, Len(free) - 1) \in Seq(Packets)
      BY <2>2, <3>1, RemoveLast
    <3>0. produced[s] \in Nat /\ produced[s] < Len(Timestamps[s])
      BY <1>1 DEF GetPacketForSubmission, TypeOK
    <3>3. /\ Timestamps[s] \in Seq(Nat)
          /\ produced[s] + 1 \in 1 .. Len(Timestamps[s])
      BY <3>0, SourceAssumption
    <3>4. Timestamps[s][produced[s] + 1] \in Nat
      BY <3>3
    <3>5. new \in FillingType
      BY <3>2, <3>4 DEF FillingType
    <3>6. /\ free_packets' = [free_packets EXCEPT ![s] = SubSeq(free, 1, Len(free) - 1)]
          /\ packet_usages' = [packet_usages EXCEPT ![s][top] = TRUE]
          /\ filling' = [filling EXCEPT ![t] = new]
          /\ produced' = [produced EXCEPT ![s] = @ + 1]
      BY <1>1, <2>2 DEF GetPacketForSubmission
    <3> HIDE DEF free, top, new
    <3>7. /\ free_packets' \in [Sources -> Seq(Packets)]
          /\ packet_usages' \in [Sources -> [Packets -> BOOLEAN]]
          /\ filling' \in [Threads -> FillingType \cup {NoPacket}]
          /\ produced' \in [Sources -> Nat]
      BY <3>2, <3>5, <3>6 DEF TypeOK
    <3>8. QED
      BY <1>1, <3>7 DEF GetPacketForSubmission, TypeOK, queueVars, subVars
  <2>3. QED  BY <2>1, <2>2
<1>2. CASE SubmitPacket(t)
  BY <1>2 DEF SubmitPacket, Goto, TypeOK, Locations, sourceVars, queueVars,
     subVars, callVars
<1>3. CASE ReleasePacket(t)
  BY <1>3 DEF ReleasePacket, Goto, TypeOK, Locations, sourceVars, queueVars,
     subVars, callVars
<1>4. ASSUME NEW k \in Sinks, Subscribe(t, k) PROVE TypeOK'
  <2> DEFINE subs == subscriptions[SourceOf[k]]
  <2>1. SourceOf[k] \in Sources /\ subs \in Seq(Sinks \cup {NoSink})
    BY SourceAssumption DEF TypeOK
  <2>2. PICK i \in 1 .. Len(subs) + 1 :
          /\ subscriptions' = [subscriptions EXCEPT ![SourceOf[k]] = Put(subs, i, k)]
          /\ new_id' = [new_id EXCEPT ![t] = [sink |-> k, id |-> i]]
    BY <1>4 DEF Subscribe
  <2>3. Put(subs, i, k) \in Seq(Sinks \cup {NoSink})
    BY <2>1, ExceptSeq, AppendProperties DEF Put
  <2>4. [sink |-> k, id |-> i] \in NewIdType
    BY <2>1 DEF NewIdType, NoId
  <2>5. /\ subscriptions' \in [Sources -> Seq(Sinks \cup {NoSink})]
        /\ new_id' \in [Threads -> NewIdType \cup {NoNewId}]
    BY <2>1, <2>2, <2>3, <2>4 DEF TypeOK
  <2>6. QED
    BY <1>4, <2>5 DEF Subscribe, Goto, TypeOK, Locations, sourceVars, queueVars,
       callVars
<1>5. ASSUME NEW k \in Sinks, Unsubscribe(t, k) PROVE TypeOK'
  <2> DEFINE subs == subscriptions[SourceOf[k]]
  <2>1. SourceOf[k] \in Sources /\ subs \in Seq(Sinks \cup {NoSink})
    BY SourceAssumption DEF TypeOK
  <2>2. Clear(subs, subscription_id[k]) \in Seq(Sinks \cup {NoSink})
    <3>1. CASE subscription_id[k] \in 1 .. Len(subs)
      BY <2>1, <3>1, ExceptSeq DEF Clear
    <3>2. CASE subscription_id[k] \notin 1 .. Len(subs)
      <4>1. Clear(subs, subscription_id[k]) = subs
        BY <2>1, <3>2 DEF Clear
      <4>2. QED  BY <2>1, <4>1
    <3>3. QED  BY <3>1, <3>2
  <2>3. subscriptions' \in [Sources -> Seq(Sinks \cup {NoSink})]
    BY <1>5, <2>1, <2>2 DEF Unsubscribe, TypeOK
  <2>4. subscription_id' \in [Sinks -> Nat]
    BY <1>5 DEF Unsubscribe, TypeOK, NoId
  <2>5. QED
    BY <1>5, <2>3, <2>4 DEF Unsubscribe, TypeOK, sourceVars, queueVars, callVars
<1>6. CASE Shutdown(t)
  BY <1>6 DEF Shutdown, SetShutdownFlag, Goto, TypeOK, Locations, sourceVars,
     queueVars, subVars, callVars
<1>7. CASE CallbackReturns(t)
  <2>1. running[t] \in TaskType
    BY <1>7 DEF CallbackReturns, TypeOK
  <2>2. unreleased' \subseteq TaskType
    BY <1>7, <2>1 DEF CallbackReturns, TypeOK
  <2>3. /\ owed' \subseteq Threads
        /\ running' \in [Threads -> TaskType \cup {NoTask}]
        /\ pc' \in [Threads -> Locations]
    BY <1>7 DEF CallbackReturns, Goto, AfterRound, TypeOK, Locations
  <2>4. QED
    BY <1>7, <2>2, <2>3 DEF CallbackReturns, TypeOK, sourceVars, queueVars, subVars
<1>8. QED
  BY <1>1, <1>2, <1>3, <1>4, <1>5, <1>6, <1>7 DEF Call

LEMMA TypeEnqueue ==
  ASSUME IInv, NEW t \in Threads, pc[t] \in Publications,
         NEW q \in Queues, NEW sinks \in SUBSET Sinks, Cardinality(sinks) \in Nat,
         Enqueue(t, q, sinks), pc' \in [Threads -> Locations]
  PROVE  TypeOK'
<1> DEFINE f == filling[t]
<1>1. f \in FillingType /\ f.source_id \in Sources /\ f.packet \in Packets
  BY FillingFacts DEF IInv, CallInv
<1>2. tasks' \in [Queues -> SUBSET TaskType]
  BY <1>1, TasksForType DEF Enqueue, IInv, TypeOK
<1>3. packet_refcounts' \in [Sources -> [Packets -> Nat]]
  BY <1>1 DEF Enqueue, AddReferences, IInv, TypeOK
<1>4. QED
  BY <1>2, <1>3 DEF Enqueue, IInv, TypeOK, subVars, callVars

LEMMA TypePutBack ==
  ASSUME TypeOK, NEW s \in Sources, NEW p \in Packets,
         PutBack(s, p) \/ UNCHANGED <<free_packets, packet_usages>>
  PROVE  /\ free_packets' \in [Sources -> Seq(Packets)]
         /\ packet_usages' \in [Sources -> [Packets -> BOOLEAN]]
<1>1. Append(free_packets[s], p) \in Seq(Packets)
  BY AppendProperties DEF TypeOK
<1>2. CASE PutBack(s, p)
  <2>1. /\ free_packets' = [free_packets EXCEPT ![s] = Append(free_packets[s], p)]
        /\ packet_usages' = [packet_usages EXCEPT ![s][p] = FALSE]
    BY <1>2 DEF PutBack
  <2> DEFINE longer == Append(free_packets[s], p)
  <2> HIDE DEF longer
  <2>2. free_packets' = [free_packets EXCEPT ![s] = longer]
    BY <2>1 DEF longer
  <2>3. longer \in Seq(Packets)
    BY <1>1 DEF longer
  <2>4. QED  BY <2>1, <2>2, <2>3 DEF TypeOK
<1>3. QED  BY <1>2 DEF TypeOK

LEMMA TypeProceed ==
  ASSUME IInv, NEW t \in Threads, TakeMutex(t) \/ Proceed(t)
  PROVE  TypeOK'
<1> USE DEF IInv
<1>1. CASE Submit_Lock(t)
  <2> DEFINE s == filling[t].source_id
             p == filling[t].packet
  <2>1. s \in Sources /\ p \in Packets
    BY <1>1, FillingFacts DEF Submit_Lock, CallInv
  <2>2. Cardinality(NormalSubscribers(s)) \in Nat
    BY <2>1, SinksFinite
  <2>3. /\ source_mtx' = [source_mtx EXCEPT ![s] = t]
        /\ packet_refcounts' = [packet_refcounts EXCEPT ![s][p] = 0]
        /\ notifies' = [notifies EXCEPT ![t] = Cardinality(NormalSubscribers(s))]
    BY <1>1 DEF Submit_Lock
  <2> HIDE DEF s, p
  <2>4. /\ source_mtx' \in [Sources -> Threads \cup {NoThread}]
        /\ packet_refcounts' \in [Sources -> [Packets -> Nat]]
        /\ notifies' \in [Threads -> Nat]
    BY <2>1, <2>2, <2>3 DEF TypeOK
  <2>5. QED
    BY <1>1, <2>4 DEF Submit_Lock, Goto, TypeOK, Locations, queueVars, subVars
<1>2. CASE Submit_EnqueueUI(t)
  <2>1. filling[t].source_id \in Sources
    BY <1>2, FillingFacts DEF Submit_EnqueueUI, CallInv, Publications
  <2>2. pc' \in [Threads -> Locations]
    BY <1>2 DEF Submit_EnqueueUI, Goto, TypeOK, Locations
  <2>3. QED
    BY <1>2, <2>1, <2>2, SinksFinite, TypeEnqueue
    DEF Submit_EnqueueUI, Queues, UISubscribers, Publications
<1>3. CASE Submit_EnqueueWorkers(t)
  <2>1. filling[t].source_id \in Sources
    BY <1>3, FillingFacts DEF Submit_EnqueueWorkers, CallInv, Publications
  <2>2. pc' \in [Threads -> Locations]
    BY <1>3 DEF Submit_EnqueueWorkers, Goto, TypeOK, Locations
  <2>3. QED
    BY <1>3, <2>1, <2>2, SinksFinite, TypeEnqueue
    DEF Submit_EnqueueWorkers, Queues, NormalSubscribers, Publications
<1>4. CASE Submit_NotifyOne(t)
  <2>1. notifies' \in [Threads -> Nat]
    BY <1>4 DEF Submit_NotifyOne, TypeOK
  <2>2. pc' \in [Threads -> Locations] /\ waiting' \subseteq Workers
    BY <1>4 DEF Submit_NotifyOne, Goto, TypeOK, Locations
  <2>3. QED
    BY <1>4, <2>1, <2>2 DEF Submit_NotifyOne, TypeOK, sourceVars, subVars
<1>5. CASE Submit_Finish(t)
  <2> DEFINE s == filling[t].source_id
             p == filling[t].packet
  <2>1. s \in Sources /\ p \in Packets
    BY <1>5, FillingFacts DEF Submit_Finish, CallInv, Publications
  <2>2. /\ free_packets' \in [Sources -> Seq(Packets)]
        /\ packet_usages' \in [Sources -> [Packets -> BOOLEAN]]
    BY <1>5, <2>1, TypePutBack DEF Submit_Finish
  <2>3. /\ source_mtx' \in [Sources -> Threads \cup {NoThread}]
        /\ filling' \in [Threads -> FillingType \cup {NoPacket}]
        /\ pc' \in [Threads -> Locations]
    BY <1>5 DEF Submit_Finish, Goto, TypeOK, Locations
  <2>4. QED
    BY <1>5, <2>2, <2>3 DEF Submit_Finish, TypeOK, queueVars, subVars
<1>6. CASE Release_Locked(t)
  <2> DEFINE s == running[t].source_id
             p == running[t].packet
  <2>1. /\ s \in Sources /\ p \in Packets
        /\ packet_refcounts[s][p] \in Nat \ {0}
    BY <1>6, ReleaseFacts DEF Release_Locked
  <2>2. /\ free_packets' \in [Sources -> Seq(Packets)]
        /\ packet_usages' \in [Sources -> [Packets -> BOOLEAN]]
    BY <1>6, <2>1, TypePutBack DEF Release_Locked
  <2>3. packet_refcounts' = [packet_refcounts EXCEPT ![s][p] = @ - 1]
    BY <1>6 DEF Release_Locked
  <2> HIDE DEF s, p
  <2>4. packet_refcounts' \in [Sources -> [Packets -> Nat]]
    BY <2>1, <2>3 DEF TypeOK
  <2>5. QED
    BY <1>6, <2>2, <2>4 DEF Release_Locked, Goto, TypeOK, Locations, queueVars,
       subVars
<1>7. CASE Subscribe_Return(t)
  <2>1. new_id[t].id \in Nat
    BY DEF TypeOK, NewIdType, NoNewId, NoId
  <2>2. subscription_id' \in [Sinks -> Nat]
    BY <1>7, <2>1 DEF Subscribe_Return, TypeOK
  <2>3. QED
    BY <1>7, <2>2 DEF Subscribe_Return, Goto, TypeOK, Locations, sourceVars,
       queueVars, callVars
<1>8. CASE Dispatch_Loop(t)
  BY <1>8 DEF Dispatch_Loop, Goto, TypeOK, Locations, sourceVars, queueVars,
     subVars, callVars
<1>9. CASE Dispatch_Lock(t)
  BY <1>9 DEF Dispatch_Lock, Goto, TypeOK, Locations, sourceVars, subVars, callVars
<1>10. CASE Dispatch_Test(t)
  <2>1. /\ pc' \in [Threads -> Locations]
        /\ queue_mtx' \in [Queues -> Threads \cup {NoThread}]
    BY <1>10 DEF Dispatch_Test, Goto, AfterRound, TypeOK, Locations
  <2>2. QED
    BY <1>10, <2>1 DEF Dispatch_Test, TypeOK, sourceVars, subVars, callVars
<1>11. CASE Dispatch_Wait(t)
  <2>1. t \in Workers
    BY <1>11 DEF Dispatch_Wait, CallInv
  <2>2. QED
    BY <1>11, <2>1 DEF Dispatch_Wait, Goto, TypeOK, Locations, sourceVars,
       subVars, callVars
<1>12. CASE Dispatch_Pop(t)
  <2>1. Queue(t) \in Queues
    BY DEF Queue, Queues
  <2>2. PICK k \in tasks[Queue(t)] :
          /\ tasks' = [tasks EXCEPT ![Queue(t)] = @ \ {k}]
          /\ running' = [running EXCEPT ![t] = k]
    BY <1>12 DEF Dispatch_Pop, Top
  <2>3. /\ tasks' \in [Queues -> SUBSET TaskType]
        /\ running' \in [Threads -> TaskType \cup {NoTask}]
    BY <2>1, <2>2 DEF TypeOK
  <2>4. QED
    BY <1>12, <2>3 DEF Dispatch_Pop, Goto, TypeOK, Locations, sourceVars, subVars
<1>13. CASE Shutdown_NotifyAll(t)
  <2>1. pc' \in [Threads -> Locations]
    BY <1>13 DEF Shutdown_NotifyAll, TypeOK, Locations
  <2>2. QED
    BY <1>13, <2>1 DEF Shutdown_NotifyAll, TypeOK, sourceVars, subVars, callVars
<1>14. QED
  BY <1>1, <1>2, <1>3, <1>4, <1>5, <1>6, <1>7, <1>8, <1>9, <1>10, <1>11, <1>12,
     <1>13 DEF TakeMutex, Proceed

LEMMA TypeOther ==
  ASSUME IInv, \/ \E w \in Workers : SpuriousWakeup(w)
               \/ DoUITaskStep \/ Destroy \/ Destroy_Join
  PROVE  TypeOK'
<1> USE DEF IInv, Goto, sourceVars, queueVars, subVars, callVars
<1>1. ASSUME NEW w \in Workers, SpuriousWakeup(w) PROVE TypeOK'
  <2>1. /\ pc' = [pc EXCEPT ![w] = "lock"]
        /\ waiting' = waiting \ {w}
        /\ UNCHANGED <<source_mtx, sourceVars, tasks, queue_mtx, subVars,
                       callVars, shutdown_initiated>>
    BY <1>1 DEF SpuriousWakeup
  <2>2. pc' \in [Threads -> Locations] /\ waiting' \subseteq Workers
    BY <2>1 DEF TypeOK, Locations
  <2>3. QED  BY <2>1, <2>2 DEF TypeOK
<1>2. CASE DoUITaskStep
  <2>1. /\ pc' = [pc EXCEPT ![UI] = "loop"]
        /\ UNCHANGED <<source_mtx, sourceVars, queueVars, subVars, callVars,
                       shutdown_initiated>>
    BY <1>2 DEF DoUITaskStep
  <2>2. pc' \in [Threads -> Locations]
    BY <2>1 DEF TypeOK, Locations
  <2>3. QED  BY <2>1, <2>2 DEF TypeOK
<1>3. CASE Destroy
  BY <1>3 DEF Destroy, SetShutdownFlag, TypeOK, Locations
<1>4. CASE Destroy_Join
  BY <1>4 DEF Destroy_Join, TypeOK, Locations
<1>5. QED  BY <1>1, <1>2, <1>3, <1>4

-----------------------------------------------------------------------------

\* Where a thread goes, it has what it needs there: only the thread that steps
\* and the sleepers it wakes move.
LEMMA CallStep ==
  ASSUME IInv, TypeOK', Next
  PROVE  CallInv'
<1> USE ThreadAssumption, NoTaskIsNone
    DEF IInv, CallInv, Publications, DispatchSteps, InClientCode
<1>1. ASSUME NEW t \in Threads, NEW s \in Sources, GetPacketForSubmission(t, s)
      PROVE  CallInv'
  <2>1. /\ UNCHANGED <<pc, owed, running, waiting>>
        /\ \A u \in Threads : filling'[u] = filling[u] \/ (u = t /\ pc[t] = "client")
    BY <1>1 DEF GetPacketForSubmission, queueVars, TypeOK
  <2>2. QED  BY <2>1
<1>2. ASSUME NEW t \in Threads, SubmitPacket(t) PROVE CallInv'
  BY <1>2 DEF SubmitPacket, Goto, TypeOK, callVars, queueVars
<1>3. ASSUME NEW t \in Threads, ReleasePacket(t) PROVE CallInv'
  BY <1>3 DEF ReleasePacket, Goto, TypeOK, callVars, queueVars
<1>4. ASSUME NEW t \in Threads, NEW k \in Sinks, Subscribe(t, k) PROVE CallInv'
  BY <1>4 DEF Subscribe, Goto, TypeOK, callVars, queueVars
<1>5. ASSUME NEW t \in Threads, NEW k \in Sinks, Unsubscribe(t, k) PROVE CallInv'
  BY <1>5 DEF Unsubscribe, callVars, queueVars
<1>6. ASSUME NEW t \in Threads, Shutdown(t) PROVE CallInv'
  BY <1>6 DEF Shutdown, SetShutdownFlag, Goto, TypeOK, callVars, queueVars
<1>7. ASSUME NEW t \in Threads, CallbackReturns(t) PROVE CallInv'
  <2>1. /\ running' = [running EXCEPT ![t] = NoTask]
        /\ owed' = owed \ {t}
        /\ pc' = [pc EXCEPT ![t] = AfterRound(t)]
        /\ UNCHANGED <<filling, waiting>>
        /\ t \notin Clients /\ pc[t] = "client"
    BY <1>7 DEF CallbackReturns, Goto, queueVars
  <2>2. QED  BY <2>1 DEF TypeOK, AfterRound
<1>8. ASSUME NEW t \in Threads, Submit_Lock(t) PROVE CallInv'
  BY <1>8 DEF Submit_Lock, Goto, TypeOK, queueVars
<1>9. ASSUME NEW t \in Threads, Submit_EnqueueUI(t) PROVE CallInv'
  <2>1. /\ UNCHANGED <<filling, running, owed, waiting>>
        /\ pc[t] = "enqueue_UI" /\ pc' = [pc EXCEPT ![t] = "enqueue_workers"]
    BY <1>9 DEF Submit_EnqueueUI, Enqueue, Goto, callVars
  <2>2. QED  BY <2>1 DEF TypeOK
<1>10. ASSUME NEW t \in Threads, Submit_EnqueueWorkers(t) PROVE CallInv'
  <2>1. /\ UNCHANGED <<filling, running, owed, waiting>>
        /\ pc[t] = "enqueue_workers" /\ pc' = [pc EXCEPT ![t] = "notify"]
    BY <1>10 DEF Submit_EnqueueWorkers, Enqueue, Goto, callVars
  <2>2. QED  BY <2>1 DEF TypeOK
<1>11. ASSUME NEW t \in Threads, Submit_NotifyOne(t) PROVE CallInv'
  <2>1. UNCHANGED <<filling, running, owed>>
    BY <1>11 DEF Submit_NotifyOne
  <2>2. CASE UNCHANGED <<waiting, pc>>
    BY <2>1, <2>2
  <2>3. ASSUME NEW w \in waiting, waiting' = waiting \ {w}, Goto(w, "lock")
        PROVE  CallInv'
    BY <2>1, <2>3 DEF Goto, TypeOK
  <2>4. QED  BY <1>11, <2>2, <2>3 DEF Submit_NotifyOne
<1>12. ASSUME NEW t \in Threads, Submit_Finish(t) PROVE CallInv'
  <2>1. /\ UNCHANGED <<running, owed, waiting>>
        /\ filling' = [filling EXCEPT ![t] = NoPacket]
        /\ pc[t] = "notify" /\ pc' = [pc EXCEPT ![t] = "client"]
    BY <1>12 DEF Submit_Finish, Goto, queueVars
  <2>2. QED  BY <2>1 DEF TypeOK
<1>13. ASSUME NEW t \in Threads, Release_Locked(t) PROVE CallInv'
  BY <1>13 DEF Release_Locked, Goto, TypeOK, queueVars
<1>14. ASSUME NEW t \in Threads, Subscribe_Return(t) PROVE CallInv'
  BY <1>14 DEF Subscribe_Return, Goto, TypeOK, callVars, queueVars
<1>15. ASSUME NEW t \in Threads, Dispatch_Loop(t) PROVE CallInv'
  BY <1>15 DEF Dispatch_Loop, Goto, TypeOK, callVars, queueVars
<1>16. ASSUME NEW t \in Threads, Dispatch_Lock(t) PROVE CallInv'
  BY <1>16 DEF Dispatch_Lock, Goto, TypeOK, callVars
<1>17. ASSUME NEW t \in Threads, Dispatch_Test(t) PROVE CallInv'
  <2>1. /\ UNCHANGED <<filling, running, owed, waiting>>
        /\ pc[t] = "test"
        /\ \/ Goto(t, "pop") \/ (t # UI /\ Goto(t, "wait"))
           \/ Goto(t, AfterRound(t))
    BY <1>17 DEF Dispatch_Test, callVars
  <2>2. t # UI => t \in Workers
    BY <2>1 DEF Threads
  <2>3. QED  BY <2>1, <2>2 DEF Goto, TypeOK, AfterRound
<1>18. ASSUME NEW t \in Threads, Dispatch_Wait(t) PROVE CallInv'
  BY <1>18 DEF Dispatch_Wait, Goto, TypeOK, callVars
<1>19. ASSUME NEW t \in Threads, Dispatch_Pop(t) PROVE CallInv'
  <2>1. PICK k \in tasks[Queue(t)] : running' = [running EXCEPT ![t] = k]
    BY <1>19 DEF Dispatch_Pop, Top
  <2>2. k # NoTask
    BY DEF TypeOK, Queue, Queues
  <2>3. /\ owed' = owed \cup {t} /\ pc[t] = "pop" /\ Goto(t, "client")
        /\ UNCHANGED <<filling, waiting>> /\ t \notin Clients
    BY <1>19 DEF Dispatch_Pop
  <2>4. QED  BY <2>1, <2>2, <2>3 DEF Goto, TypeOK
<1>20. ASSUME NEW t \in Threads, Shutdown_NotifyAll(t) PROVE CallInv'
  <2>1. /\ UNCHANGED <<filling, running, owed>> /\ waiting' = {}
        /\ pc[t] \in {"notify_all", "destroy_notify"}
        /\ \A u \in Threads : pc'[u] = IF u \in waiting THEN "lock"
                                       ELSE IF u # t THEN pc[u]
                                       ELSE IF pc[t] = "notify_all" THEN "client"
                                       ELSE "join"
    BY <1>20 DEF Shutdown_NotifyAll, callVars
  <2>2. QED  BY <2>1
<1>21. ASSUME NEW w \in Workers, SpuriousWakeup(w) PROVE CallInv'
  BY <1>21 DEF SpuriousWakeup, Goto, TypeOK, callVars, Threads
<1>22. CASE DoUITaskStep
  BY <1>22 DEF DoUITaskStep, Goto, TypeOK, callVars, queueVars, Threads
<1>23. CASE Destroy
  BY <1>23 DEF Destroy, SetShutdownFlag, Unused, Goto, TypeOK, callVars,
     queueVars, Threads
<1>24. CASE Destroy_Join
  BY <1>24 DEF Destroy_Join, Goto, TypeOK, callVars, queueVars, Threads
<1>25. CASE Destroyed
  BY <1>25 DEF Destroyed, vars, callVars, queueVars
<1>26. QED
  BY <1>1, <1>2, <1>3, <1>4, <1>5, <1>6, <1>7, <1>8, <1>9, <1>10, <1>11, <1>12,
     <1>13, <1>14, <1>15, <1>16, <1>17, <1>18, <1>19, <1>20, <1>21, <1>22,
     <1>23, <1>24, <1>25 DEF Next, Call, TakeMutex, Proceed

-----------------------------------------------------------------------------

Bookkeeping == LockInv /\ PoolInv /\ TaskInv /\ FillInv /\ RefInv

LEMMA NeutralStep ==
  ASSUME IInv, NEW t \in Threads,
         \/ SubmitPacket(t) \/ ReleasePacket(t) \/ Shutdown(t)
         \/ \E k \in Sinks : Subscribe(t, k) \/ Unsubscribe(t, k)
         \/ Submit_NotifyOne(t) \/ Subscribe_Return(t) \/ Shutdown_NotifyAll(t)
         \/ Dispatch_Loop(t) \/ Dispatch_Lock(t) \/ Dispatch_Test(t)
         \/ Dispatch_Wait(t) \/ SpuriousWakeup(t)
         \/ DoUITaskStep \/ Destroy \/ Destroy_Join
  PROVE  Bookkeeping'
<1> DEFINE Kept == UNCHANGED <<source_mtx, sourceVars, tasks, filling, running,
                               owed, unreleased>>
           Moves == \A u \in Threads :
                      \/ pc'[u] = pc[u]
                      \/ pc[u] \notin Publications /\ pc'[u] \notin Publications
<1>1. ASSUME Kept, Moves PROVE Bookkeeping'
  BY <1>1, Neutral DEF Bookkeeping, IInv
<1> USE DEF Goto, queueVars, subVars, callVars, Publications
<1>2. pc \in [Threads -> Locations] /\ waiting \subseteq Threads
  BY DEF IInv, TypeOK, Threads
<1>3. CASE SubmitPacket(t) \/ ReleasePacket(t) \/ Shutdown(t)
  BY <1>1, <1>2, <1>3
  DEF SubmitPacket, ReleasePacket, Shutdown, SetShutdownFlag, InClientCode
<1>4. CASE \E k \in Sinks : Subscribe(t, k) \/ Unsubscribe(t, k)
  BY <1>1, <1>2, <1>4 DEF Subscribe, Unsubscribe, InClientCode
<1>5. CASE Subscribe_Return(t)
  BY <1>1, <1>2, <1>5 DEF Subscribe_Return
<1>6. CASE \/ Dispatch_Loop(t) \/ Dispatch_Lock(t) \/ Dispatch_Test(t)
           \/ Dispatch_Wait(t)
  BY <1>1, <1>2, <1>6
  DEF Dispatch_Loop, Dispatch_Lock, Dispatch_Test, Dispatch_Wait, AfterRound
<1>7. CASE Submit_NotifyOne(t)
  <2>1. \A w \in waiting : pc[w] = "waiting"
    BY <1>2 DEF IInv, CallInv
  <2>2. QED  BY <1>1, <1>2, <1>7, <2>1 DEF Submit_NotifyOne
<1>8. CASE SpuriousWakeup(t)
  <2>1. pc[t] = "waiting"
    BY <1>8 DEF SpuriousWakeup, IInv, CallInv
  <2>2. QED  BY <1>1, <1>2, <1>8, <2>1 DEF SpuriousWakeup
<1>9. CASE Shutdown_NotifyAll(t)
  <2>1. \A w \in waiting : pc[w] = "waiting"
    BY <1>2 DEF IInv, CallInv
  <2>2. QED  BY <1>1, <1>9, <2>1 DEF Shutdown_NotifyAll
<1>10. CASE DoUITaskStep \/ Destroy \/ Destroy_Join
  BY <1>1, <1>2, <1>10
  DEF DoUITaskStep, Destroy, Destroy_Join, SetShutdownFlag, InClientCode
<1>11. QED
  BY <1>3, <1>4, <1>5, <1>6, <1>7, <1>8, <1>9, <1>10

LEMMA TasksForCount ==
  ASSUME NEW f, NEW sinks, IsFiniteSet(sinks)
  PROVE  /\ IsFiniteSet(TasksFor(f, sinks))
         /\ Cardinality(TasksFor(f, sinks)) = Cardinality(sinks)
<1> DEFINE task(k) == [timestamp |-> f.timestamp, source_id |-> f.source_id,
                       packet |-> f.packet, sink |-> k]
           g == [k \in sinks |-> task(k)]
<1>1. g \in Bijection(sinks, TasksFor(f, sinks))
  <2>1. g \in [sinks -> TasksFor(f, sinks)]
    BY DEF TasksFor
  <2>2. \A k \in sinks : g[k].sink = k
    OBVIOUS
  <2>3. \A k, l \in sinks : g[k] = g[l] => k = l
    BY <2>2
  <2>4. \A x \in TasksFor(f, sinks) : \E k \in sinks : g[k] = x
    BY DEF TasksFor
  <2>5. QED  BY <2>1, <2>3, <2>4 DEF Bijection, Injection, Surjection, IsInjective
<1>2. ExistsBijection(sinks, TasksFor(f, sinks))
  BY <1>1 DEF ExistsBijection
<1>3. QED  BY <1>2, FS_Bijection

\* Moving a task from a queue to a thread, or from a thread to the tasks that
\* are never released, changes no packet's references.
LEMMA SameReferences ==
  ASSUME LockInv, PoolInv, FillInv, RefInv, TaskInv',
         UNCHANGED <<source_mtx, sourceVars, filling>>,
         \A s, p : References(s, p)' = References(s, p),
         \A u \in Threads : \/ pc'[u] = pc[u]
                            \/ pc[u] \notin Publications /\ pc'[u] \notin Publications
  PROVE  Bookkeeping'
<1>1. \A t, s, p : Fills(t, s, p)' = Fills(t, s, p)
  BY DEF Fills
<1>2. LockInv'
  BY DEF LockInv, Publications
<1>3. PoolInv'
  BY DEF PoolInv, sourceVars
<1>4. FillInv'
  BY <1>1 DEF FillInv, sourceVars, Publications
<1>5. RefInv'
  BY <1>1 DEF RefInv, sourceVars
<1>6. QED  BY <1>2, <1>3, <1>4, <1>5 DEF Bookkeeping

LEMMA PopStep ==
  ASSUME IInv, NEW t \in Threads, Dispatch_Pop(t)
  PROVE  Bookkeeping'
<1> DEFINE q == Queue(t)
<1>1. q \in Queues /\ Queues = {"UI", "workers"}
  BY DEF Queue, Queues
<1>2. PICK k \in tasks[q] : /\ tasks' = [tasks EXCEPT ![q] = @ \ {k}]
                            /\ running' = [running EXCEPT ![t] = k]
  BY DEF Dispatch_Pop, Top
<1>3. /\ owed' = owed \cup {t} /\ pc' = [pc EXCEPT ![t] = "client"]
      /\ pc[t] = "pop"
      /\ UNCHANGED <<source_mtx, sourceVars, filling, unreleased>>
  BY DEF Dispatch_Pop, Goto
<1>4. t \notin owed
  BY <1>3 DEF IInv, CallInv, DispatchSteps
<1> HIDE DEF q
<1>5. /\ tasks'["UI"] \cup tasks'["workers"] \cup {k} = tasks["UI"] \cup tasks["workers"]
      /\ k \notin tasks'["UI"] \cup tasks'["workers"]
      /\ \A r \in Queues : tasks'[r] \subseteq tasks[r]
  BY <1>1, <1>2 DEF IInv, TypeOK, TaskInv
<1>6. /\ owed \subseteq Threads /\ running'[t] = k
      /\ \A u \in owed : running'[u] = running[u]
  BY <1>2, <1>4 DEF IInv, TypeOK
<1>7. {running'[u] : u \in owed'} = {running[u] : u \in owed} \cup {k}
  BY <1>3, <1>4, <1>6
<1>8. \A s, p : References(s, p)' = References(s, p)
  BY <1>3, <1>5, <1>7 DEF References
<1>9. TaskInv'
  <2>1. k \notin unreleased /\ \A u \in owed : running[u] # k
    BY <1>1, <1>2 DEF IInv, TaskInv
  <2>2. \A u \in owed' :
          running'[u] \notin tasks'["UI"] \cup tasks'["workers"] \cup unreleased
    BY <1>1, <1>3, <1>5, <1>6, <2>1 DEF IInv, TaskInv
  <2>3. \A u, v \in owed' : running'[u] = running'[v] => u = v
    BY <1>3, <1>6, <2>1 DEF IInv, TaskInv
  <2>4. \A r \in Queues : tasks'[r] \cap unreleased' = {}
    BY <1>3, <1>5 DEF IInv, TaskInv
  <2>5. QED  BY <1>1, <1>3, <1>5, <2>2, <2>3, <2>4 DEF IInv, TaskInv
<1>10. QED
  BY <1>3, <1>8, <1>9, SameReferences DEF IInv, TypeOK, Publications

LEMMA ReturnStep ==
  ASSUME IInv, NEW t \in Threads, CallbackReturns(t)
  PROVE  Bookkeeping'
<1>1. /\ owed' = owed \ {t}
      /\ unreleased' = unreleased \cup (IF t \in owed THEN {running[t]} ELSE {})
      /\ running' = [running EXCEPT ![t] = NoTask]
      /\ pc[t] = "client" /\ pc' = [pc EXCEPT ![t] = AfterRound(t)]
      /\ UNCHANGED <<source_mtx, sourceVars, tasks, filling>>
  BY DEF CallbackReturns, InClientCode, Goto, queueVars
<1>2. owed \subseteq Threads /\ \A u \in owed' : running'[u] = running[u]
  BY <1>1 DEF IInv, TypeOK
<1>3. unreleased \cup {running[u] : u \in owed} =
        unreleased' \cup {running'[u] : u \in owed'}
  BY <1>1, <1>2
<1>4. \A s, p : References(s, p)' = References(s, p)
  BY <1>1, <1>3 DEF References
<1>5. TaskInv'
  <2>1. \A q \in Queues : tasks'[q] \cap unreleased' = {}
    BY <1>1 DEF IInv, TaskInv, Queues
  <2>2. \A u \in owed' :
          running'[u] \notin tasks'["UI"] \cup tasks'["workers"] \cup unreleased'
    BY <1>1, <1>2 DEF IInv, TaskInv
  <2>3. QED  BY <1>1, <1>2, <2>1, <2>2 DEF IInv, TaskInv
<1>6. QED
  BY <1>1, <1>4, <1>5, SameReferences
  DEF IInv, TypeOK, Publications, AfterRound

LEMMA SubmitLockStep ==
  ASSUME IInv, NEW t \in Threads, Submit_Lock(t)
  PROVE  Bookkeeping'
<1> DEFINE s == filling[t].source_id
           p == filling[t].packet
<1>1. /\ pc[t] = "submit" /\ pc' = [pc EXCEPT ![t] = "enqueue_UI"]
      /\ source_mtx[s] = NoThread /\ source_mtx' = [source_mtx EXCEPT ![s] = t]
      /\ packet_refcounts' = [packet_refcounts EXCEPT ![s][p] = 0]
      /\ UNCHANGED <<free_packets, packet_usages, tasks, filling, running, owed,
                     unreleased>>
  BY DEF Submit_Lock, SourceUnlocked, Goto, queueVars
<1>2. filling[t] # NoPacket /\ s \in Sources /\ p \in Packets
  BY <1>1, FillingFacts DEF IInv, CallInv
<1>3. References(s, p) = {}
  BY <1>1, <1>2 DEF IInv, FillInv, Fills
<1>4. /\ \A r, n : References(r, n)' = References(r, n)
      /\ \A u, r, n : Fills(u, r, n)' = Fills(u, r, n)
  BY <1>1 DEF References, Fills
<1> HIDE DEF s, p
<1>5. \A r \in Sources, n \in Packets :
        packet_refcounts'[r][n] = IF r = s /\ n = p THEN 0 ELSE packet_refcounts[r][n]
  BY <1>1, <1>2 DEF IInv, TypeOK
<1>6. LockInv'
  <2> SUFFICES ASSUME NEW u \in Threads, pc'[u] \in Publications
               PROVE  source_mtx'[filling[u].source_id] = u
    BY <1>1 DEF LockInv
  <2>1. CASE u = t
    BY <1>1, <1>2, <2>1 DEF IInv, TypeOK, s
  <2>2. CASE u # t
    <3>1. pc[u] \in Publications
      BY <1>1, <2>2 DEF IInv, TypeOK
    <3>2. source_mtx[filling[u].source_id] = u /\ u # NoThread
      BY <3>1, ThreadAssumption DEF IInv, LockInv, Threads
    <3>3. QED  BY <1>1, <3>2 DEF IInv, TypeOK
  <2>3. QED  BY <2>1, <2>2
<1>7. PoolInv'
  BY <1>1 DEF IInv, PoolInv
<1>8. TaskInv'
  BY <1>1 DEF IInv, TaskInv
<1>9. FillInv'
  <2>1. \A u \in Threads :
          \/ pc'[u] = pc[u]
          \/ u = t /\ pc[u] = "submit" /\ pc'[u] = "enqueue_UI"
    BY <1>1 DEF IInv, TypeOK
  <2>2. QED  BY <1>1, <1>4, <2>1 DEF IInv, FillInv
<1>10. RefInv'
  BY <1>1, <1>3, <1>4, <1>5, FS_EmptySet DEF IInv, RefInv
<1>11. QED  BY <1>6, <1>7, <1>8, <1>9, <1>10 DEF Bookkeeping

LEMMA EnqueueStep ==
  ASSUME IInv, NEW t \in Threads, pc[t] \in Publications, NEW q \in Queues,
         NEW s \in Sources, NEW p \in Packets, Fills(t, s, p),
         NEW sinks \in SUBSET Sinks, IsFiniteSet(sinks),
         Enqueue(t, q, sinks),
         q = "UI" => sinks \subseteq UISinks,
         q = "workers" => sinks \cap UISinks = {},
         \A k \in References(s, p) : k.sink \notin sinks,
         pc' = [pc EXCEPT ![t] = IF q = "UI" THEN "enqueue_workers" ELSE "notify"],
         pc[t] = IF q = "UI" THEN "enqueue_UI" ELSE "enqueue_workers"
  PROVE  Bookkeeping'
<1> DEFINE f == filling[t]
           new == TasksFor(f, sinks)
<1>1. f # NoPacket /\ f.source_id = s /\ f.packet = p
  BY DEF Fills
<1>2. /\ tasks' = [tasks EXCEPT ![q] = @ \cup new]
      /\ packet_refcounts' =
           [packet_refcounts EXCEPT ![s][p] = @ + Cardinality(sinks)]
      /\ UNCHANGED <<source_mtx, free_packets, packet_usages, filling, running,
                     owed, unreleased>>
  BY <1>1 DEF Enqueue, AddReferences, callVars
<1>3. /\ IsFiniteSet(new) /\ Cardinality(new) = Cardinality(sinks)
      /\ Cardinality(sinks) \in Nat
      /\ \A k \in new : k.source_id = s /\ k.packet = p /\ k.sink \in sinks
  BY <1>1, TasksForCount, FS_CardinalityType DEF TasksFor
<1>4. \A k \in new : k \notin References(s, p)
  BY <1>3
<1> HIDE DEF new, f
<1>5. /\ tasks'["UI"] \cup tasks'["workers"] =
           (tasks["UI"] \cup tasks["workers"]) \cup new
      /\ \A r \in Queues : tasks'[r] = IF r = q THEN tasks[r] \cup new ELSE tasks[r]
  BY <1>2 DEF IInv, TypeOK, Queues
<1> DEFINE old == tasks["UI"] \cup tasks["workers"] \cup unreleased
                    \cup {running[u] : u \in owed}
<1>6. /\ \A r, n : References(r, n) = {k \in old : k.source_id = r /\ k.packet = n}
      /\ \A r, n : References(r, n)' =
           {k \in old \cup new : k.source_id = r /\ k.packet = n}
  <2>1. tasks'["UI"] \cup tasks'["workers"] \cup unreleased'
          \cup {running'[u] : u \in owed'} = old \cup new
    BY <1>2, <1>5
  <2> HIDE DEF old
  <2>2. QED  BY <2>1 DEF References, old
<1> HIDE DEF old
<1>7. /\ References(s, p)' = References(s, p) \cup new
      /\ \A r, n : (r # s \/ n # p) => References(r, n)' = References(r, n)
  BY <1>3, <1>6
<1>8. \A k \in new : k \notin old
  BY <1>3, <1>4, <1>6
<1>9. \A u, r, n : Fills(u, r, n)' = Fills(u, r, n)
  BY <1>2 DEF Fills
<1>11. LockInv'
  <2>1. \A u \in Threads : pc'[u] \in Publications => pc[u] \in Publications
    BY DEF IInv, TypeOK
  <2>2. QED  BY <1>2, <2>1 DEF IInv, LockInv
<1>12. PoolInv'
  BY <1>2 DEF IInv, PoolInv
<1>13. TaskInv'
  <2>1. /\ \A k \in tasks'["UI"] : k.sink \in UISinks
        /\ \A k \in tasks'["workers"] : k.sink \notin UISinks
    BY <1>3, <1>5 DEF IInv, TaskInv, Queues
  <2>2. \A r \in Queues : tasks'[r] \cap unreleased' = {}
    BY <1>2, <1>5, <1>8 DEF IInv, TaskInv, old
  <2>3. \A u \in owed' :
          running'[u] \notin tasks'["UI"] \cup tasks'["workers"] \cup unreleased'
    BY <1>2, <1>5, <1>8 DEF IInv, TaskInv, old
  <2>4. QED  BY <1>2, <2>1, <2>2, <2>3 DEF IInv, TaskInv
<1>14. FillInv'
  <2> SUFFICES ASSUME NEW r \in Sources, NEW n \in Packets, NEW u \in Threads,
                      Fills(u, r, n)
               PROVE  /\ packet_usages[r][n]
                      /\ \A v \in Threads : Fills(v, r, n) => v = u
                      /\ pc'[u] \notin {"enqueue_workers", "notify"} =>
                           References(r, n)' = {}
                      /\ pc'[u] = "enqueue_workers" =>
                           \A k \in References(r, n)' : k.sink \in UISinks
    BY <1>2, <1>9 DEF FillInv
  <2>1. packet_usages[r][n] /\ \A v \in Threads : Fills(v, r, n) => v = u
    BY DEF IInv, FillInv
  <2>2. CASE r = s /\ n = p
    <3>1. u = t
      BY <2>1, <2>2
    <3>2. pc'[t] = IF q = "UI" THEN "enqueue_workers" ELSE "notify"
      BY DEF IInv, TypeOK
    <3>3. q = "UI" => References(s, p) = {}
      BY <1>1 DEF IInv, FillInv
    <3>4. q = "UI" => \A k \in References(s, p)' : k.sink \in UISinks
      BY <1>3, <1>7, <3>3
    <3>5. QED  BY <2>1, <2>2, <3>1, <3>2, <3>4
  <2>3. CASE r # s \/ n # p
    <3>1. u # t
      BY <1>1, <2>3 DEF Fills
    <3>2. pc'[u] = pc[u]
      BY <3>1 DEF IInv, TypeOK
    <3>3. QED  BY <1>7, <2>3, <3>2 DEF IInv, FillInv
  <2>4. QED  BY <2>2, <2>3
<1>15. RefInv'
  <2> SUFFICES ASSUME NEW r \in Sources, NEW n \in Packets
               PROVE  /\ IsFiniteSet(References(r, n)')
                      /\ packet_refcounts'[r][n] = Cardinality(References(r, n)')
                      /\ References(r, n)' # {} => packet_usages[r][n]
                      /\ packet_usages[r][n] =>
                           References(r, n)' # {} \/ \E u \in Threads : Fills(u, r, n)
    BY <1>2, <1>9 DEF RefInv
  <2>1. CASE r = s /\ n = p
    <3>1. /\ IsFiniteSet(References(s, p))
          /\ packet_refcounts[s][p] = Cardinality(References(s, p))
      BY <1>1 DEF IInv, RefInv
    <3>2. References(s, p) \cap new = {}
      BY <1>4
    <3>3. /\ IsFiniteSet(References(s, p) \cup new)
          /\ Cardinality(References(s, p) \cup new) =
               Cardinality(References(s, p)) + Cardinality(new)
      <4>1. Cardinality(References(s, p) \cap new) = 0
        BY <3>2, FS_EmptySet
      <4>2. Cardinality(References(s, p)) \in Nat /\ Cardinality(new) \in Nat
        BY <1>3, <3>1, FS_CardinalityType
      <4>3. /\ IsFiniteSet(References(s, p) \cup new)
            /\ Cardinality(References(s, p) \cup new) =
                 Cardinality(References(s, p)) + Cardinality(new)
                   - Cardinality(References(s, p) \cap new)
        BY <1>3, <3>1, FS_Union
      <4>4. QED  BY <4>1, <4>2, <4>3
    <3>4. packet_refcounts'[s][p] = packet_refcounts[s][p] + Cardinality(sinks)
      BY <1>1, <1>2 DEF IInv, TypeOK
    <3>5. packet_usages[s][p]
      BY <1>1 DEF IInv, FillInv
    <3>6. QED  BY <1>3, <1>7, <2>1, <3>1, <3>3, <3>4, <3>5
  <2>2. CASE r # s \/ n # p
    <3>1. packet_refcounts'[r][n] = packet_refcounts[r][n]
      BY <1>1, <1>2, <2>2 DEF IInv, TypeOK
    <3>2. QED  BY <1>7, <2>2, <3>1 DEF IInv, RefInv
  <2>3. QED  BY <2>1, <2>2
<1>16. QED  BY <1>11, <1>12, <1>13, <1>14, <1>15 DEF Bookkeeping

LEMMA SubmitEnqueueStep ==
  ASSUME IInv, NEW t \in Threads,
         Submit_EnqueueUI(t) \/ Submit_EnqueueWorkers(t)
  PROVE  Bookkeeping'
<1> DEFINE s == filling[t].source_id
           p == filling[t].packet
<1>1. pc[t] \in {"enqueue_UI", "enqueue_workers"} /\ pc[t] \in Publications
  BY DEF Submit_EnqueueUI, Submit_EnqueueWorkers, Publications
<1>2. filling[t] # NoPacket /\ s \in Sources /\ p \in Packets
  BY <1>1, FillingFacts DEF IInv, CallInv
<1>3. Fills(t, s, p)
  BY <1>2 DEF Fills
<1> HIDE DEF s, p
<1>4. /\ UISubscribers(s) \subseteq UISinks
      /\ NormalSubscribers(s) \cap UISinks = {}
      /\ UISubscribers(s) \subseteq Sinks /\ NormalSubscribers(s) \subseteq Sinks
      /\ IsFiniteSet(UISubscribers(s)) /\ IsFiniteSet(NormalSubscribers(s))
  BY <1>2, SinksFinite DEF UISubscribers, NormalSubscribers, IInv
<1>5. CASE Submit_EnqueueUI(t)
  <2>1. References(s, p) = {}
    BY <1>2, <1>3, <1>5 DEF Submit_EnqueueUI, IInv, FillInv
  <2>2. /\ Enqueue(t, "UI", UISubscribers(s)) /\ "UI" \in Queues
        /\ pc[t] = "enqueue_UI" /\ pc' = [pc EXCEPT ![t] = "enqueue_workers"]
    BY <1>5 DEF Submit_EnqueueUI, Queues, Goto, s
  <2>3. QED  BY <1>1, <1>2, <1>3, <1>4, <2>1, <2>2, EnqueueStep
<1>6. CASE Submit_EnqueueWorkers(t)
  <2>1. \A k \in References(s, p) : k.sink \in UISinks
    BY <1>2, <1>3, <1>6 DEF Submit_EnqueueWorkers, IInv, FillInv
  <2>2. /\ Enqueue(t, "workers", NormalSubscribers(s)) /\ "workers" \in Queues
        /\ pc[t] = "enqueue_workers" /\ pc' = [pc EXCEPT ![t] = "notify"]
    BY <1>6 DEF Submit_EnqueueWorkers, Queues, Goto, s
  <2>3. \A k \in References(s, p) : k.sink \notin NormalSubscribers(s)
    BY <1>4, <2>1
  <2>4. QED  BY <1>1, <1>2, <1>3, <1>4, <2>2, <2>3, EnqueueStep
<1>7. QED  BY <1>5, <1>6

LEMMA AcquireStep ==
  ASSUME IInv, NEW t \in Threads, NEW s \in Sources, GetPacketForSubmission(t, s)
  PROVE  Bookkeeping'
<1> DEFINE free == free_packets[s]
<1>1. /\ pc[t] = "client" /\ filling[t] = NoPacket
      /\ UNCHANGED <<source_mtx, packet_refcounts, tasks, running, owed,
                     unreleased, pc>>
  BY DEF GetPacketForSubmission, InClientCode, queueVars
<1>2. CASE free = <<>>
  <2>1. UNCHANGED <<free_packets, packet_usages, filling>>
    BY <1>2 DEF GetPacketForSubmission
  <2>2. QED  BY <1>1, <2>1, Neutral DEF Bookkeeping, IInv, sourceVars
<1>3. CASE free # <<>>
  <2>1. free \in Seq(Packets)
    BY DEF IInv, TypeOK
  <2>2. PICK top \in Packets : top = free[Len(free)]
    BY <1>3, <2>1, RemoveLast
  <2>3. /\ free_packets' = [free_packets EXCEPT ![s] = SubSeq(free, 1, Len(free) - 1)]
        /\ packet_usages' = [packet_usages EXCEPT ![s][top] = TRUE]
    BY <1>3, <2>2 DEF GetPacketForSubmission
  <2>4. \E new : /\ new.source_id = s /\ new.packet = top
                 /\ filling' = [filling EXCEPT ![t] = new]
                 /\ new # NoPacket
    BY <1>3, <2>2, NoTaskIsNone DEF GetPacketForSubmission, NoPacket, Packets
  <2>5. PICK new : /\ new.source_id = s /\ new.packet = top
                   /\ filling' = [filling EXCEPT ![t] = new]
                   /\ new # NoPacket
    BY <2>4
  <2>6. /\ ~packet_usages[s][top] /\ References(s, top) = {}
        /\ \A u \in Threads : ~Fills(u, s, top)
    <3>1. Len(free) \in DOMAIN free
      BY <1>3, <2>1
    <3>2. ~packet_usages[s][top]
      BY <2>2, <3>1 DEF IInv, PoolInv
    <3>3. QED  BY <3>2 DEF IInv, RefInv, FillInv
  <2>7. \A u \in Threads, r \in Sources, n \in Packets :
          Fills(u, r, n)' <=> Fills(u, r, n) \/ (u = t /\ r = s /\ n = top)
    BY <1>1, <2>5 DEF Fills, IInv, TypeOK
  <2>8. \A r, n : References(r, n)' = References(r, n)
    BY <1>1 DEF References
  <2>9. \A r \in Sources, n \in Packets :
          packet_usages'[r][n] <=> packet_usages[r][n] \/ (r = s /\ n = top)
    BY <2>3 DEF IInv, TypeOK
  <2>10. LockInv'
    BY <1>1, <2>5 DEF IInv, TypeOK, LockInv, Publications
  <2>11. PoolInv'
    <3> SUFFICES ASSUME NEW r \in Sources
                 PROVE  /\ \A i, j \in DOMAIN free_packets'[r] :
                             free_packets'[r][i] = free_packets'[r][j] => i = j
                        /\ \A n \in Packets :
                             packet_usages'[r][n] <=>
                               \A i \in DOMAIN free_packets'[r] :
                                 free_packets'[r][i] # n
      BY DEF PoolInv
    <3>1. CASE r # s
      <4>1. free_packets'[r] = free_packets[r]
        BY <2>3, <3>1 DEF IInv, TypeOK
      <4>2. \A n \in Packets : packet_usages'[r][n] <=> packet_usages[r][n]
        BY <2>9, <3>1
      <4>3. QED  BY <4>1, <4>2 DEF IInv, PoolInv
    <3>2. CASE r = s
      <4> DEFINE less == SubSeq(free, 1, Len(free) - 1)
                 n    == Len(free) - 1
      <4>1. /\ Len(free) \in Nat \ {0} /\ less \in Seq(Packets) /\ Len(less) = n
            /\ \A i \in 1 .. n : less[i] = free[i]
        BY <1>3, <2>1, RemoveLast
      <4>2. DOMAIN less = 1 .. n /\ DOMAIN free = 1 .. n + 1 /\ n \in Nat
        BY <2>1, <4>1
      <4>3. free_packets'[r] = less
        BY <2>3, <3>2 DEF IInv, TypeOK
      <4> HIDE DEF less
      <4>4. /\ \A i, j \in 1 .. n + 1 : free[i] = free[j] => i = j
            /\ \A m \in Packets :
                 packet_usages[s][m] <=> \A i \in 1 .. n + 1 : free[i] # m
        BY <4>2 DEF IInv, PoolInv
      <4>5. free[n + 1] = top
        BY <2>2, <4>1
      <4> HIDE DEF n, free
      <4>6. \A m \in Packets :
              packet_usages'[s][m] <=> \A i \in 1 .. n : free[i] # m
        BY <2>9, <4>2, <4>4, <4>5
      <4>7. \A i, j \in 1 .. n : less[i] = less[j] => i = j
        BY <4>1, <4>2, <4>4
      <4>8. QED  BY <3>2, <4>1, <4>2, <4>3, <4>6, <4>7
    <3>3. QED  BY <3>1, <3>2
  <2>12. TaskInv'
    BY <1>1 DEF IInv, TaskInv
  <2>13. FillInv'
    BY <1>1, <2>6, <2>7, <2>8, <2>9 DEF IInv, FillInv
  <2>14. RefInv'
    BY <1>1, <2>6, <2>7, <2>8, <2>9 DEF IInv, RefInv
  <2>15. QED  BY <2>10, <2>11, <2>12, <2>13, <2>14 DEF Bookkeeping
<1>4. QED  BY <1>2, <1>3

\* A packet in use can be pushed on the free stack.
LEMMA PutBackStep ==
  ASSUME TypeOK, PoolInv, NEW s \in Sources, NEW p \in Packets,
         packet_usages[s][p], PutBack(s, p)
  PROVE  /\ PoolInv'
         /\ \A r \in Sources, n \in Packets :
              packet_usages'[r][n] <=> packet_usages[r][n] /\ ~(r = s /\ n = p)
<1> DEFINE free == free_packets[s]
           more == Append(free, p)
<1>1. /\ free_packets' = [free_packets EXCEPT ![s] = more]
      /\ packet_usages' = [packet_usages EXCEPT ![s][p] = FALSE]
  BY DEF PutBack
<1>2. \A r \in Sources, n \in Packets :
        packet_usages'[r][n] <=> packet_usages[r][n] /\ ~(r = s /\ n = p)
  BY <1>1 DEF TypeOK
<1>3. /\ free \in Seq(Packets) /\ Len(free) \in Nat
      /\ DOMAIN free = 1 .. Len(free) /\ DOMAIN more = 1 .. Len(free) + 1
      /\ more[Len(free) + 1] = p /\ \A i \in 1 .. Len(free) : more[i] = free[i]
  BY AppendProperties DEF TypeOK
<1>4. /\ free_packets'[s] = more
      /\ \A r \in Sources : r # s => free_packets'[r] = free_packets[r]
  BY <1>1 DEF TypeOK
<1>5. /\ \A i, j \in DOMAIN free : free[i] = free[j] => i = j
      /\ \A n \in Packets :
           packet_usages[s][n] <=> \A i \in DOMAIN free : free[i] # n
  BY DEF PoolInv
<1> HIDE DEF free, more
<1>6. \A i, j \in DOMAIN more : more[i] = more[j] => i = j
  <2>1. \A i \in 1 .. Len(free) : more[i] # p
    BY <1>3, <1>5
  <2>2. \A i \in DOMAIN more : i \in 1 .. Len(free) \/ i = Len(free) + 1
    BY <1>3
  <2>3. QED  BY <1>3, <1>5, <2>1, <2>2
<1>7. \A n \in Packets : packet_usages'[s][n] <=> \A i \in DOMAIN more : more[i] # n
  <2>1. \A n \in Packets :
          (\A i \in DOMAIN more : more[i] # n) <=>
            (\A i \in DOMAIN free : free[i] # n) /\ p # n
    BY <1>3
  <2>2. QED  BY <1>2, <1>5, <2>1
<1>8. PoolInv'
  BY <1>2, <1>4, <1>6, <1>7 DEF PoolInv
<1>9. QED  BY <1>2, <1>8

LEMMA FinishStep ==
  ASSUME IInv, NEW t \in Threads, Submit_Finish(t)
  PROVE  Bookkeeping'
<1>1. /\ pc[t] = "notify" /\ pc' = [pc EXCEPT ![t] = "client"]
      /\ filling' = [filling EXCEPT ![t] = NoPacket]
      /\ UNCHANGED <<packet_refcounts, tasks, running, owed, unreleased>>
  BY DEF Submit_Finish, Goto, queueVars
<1>2. /\ filling[t] # NoPacket
      /\ filling[t].source_id \in Sources /\ filling[t].packet \in Packets
  BY <1>1, FillingFacts DEF IInv, CallInv, Publications
<1>3. PICK s \in Sources, p \in Packets :
        s = filling[t].source_id /\ p = filling[t].packet
  BY <1>2
<1>4. /\ source_mtx' = [source_mtx EXCEPT ![s] = NoThread]
      /\ IF packet_refcounts[s][p] = 0
           THEN PutBack(s, p)
           ELSE UNCHANGED <<free_packets, packet_usages>>
  BY <1>3 DEF Submit_Finish
<1>5. /\ Fills(t, s, p) /\ packet_usages[s][p] /\ source_mtx[s] = t
      /\ \A u \in Threads : Fills(u, s, p) => u = t
  BY <1>1, <1>2, <1>3 DEF Fills, IInv, FillInv, LockInv, Publications
<1>6. \A u \in Threads, r \in Sources, n \in Packets :
        Fills(u, r, n)' <=> Fills(u, r, n) /\ u # t
  BY <1>1 DEF Fills, IInv, TypeOK
<1>7. \A r, n : References(r, n)' = References(r, n)
  BY <1>1 DEF References
<1>8. packet_refcounts[s][p] = 0 <=> References(s, p) = {}
  BY FS_EmptySet DEF IInv, RefInv
<1>9. PoolInv' /\ \A r \in Sources, n \in Packets :
        packet_usages'[r][n] <=>
          packet_usages[r][n] /\ ~(r = s /\ n = p /\ References(s, p) = {})
  <2>1. CASE packet_refcounts[s][p] = 0
    BY <1>4, <1>5, <1>8, <2>1, PutBackStep DEF IInv
  <2>2. CASE packet_refcounts[s][p] # 0
    BY <1>4, <1>8, <2>2 DEF IInv, PoolInv
  <2>3. QED  BY <2>1, <2>2
<1>10. \A u \in Threads : u # t => pc'[u] = pc[u] /\ filling'[u] = filling[u]
  BY <1>1 DEF IInv, TypeOK
<1>11. LockInv'
  <2> SUFFICES ASSUME NEW u \in Threads, pc'[u] \in Publications
               PROVE  source_mtx'[filling'[u].source_id] = u
    BY DEF LockInv
  <2>1. u # t
    BY <1>1 DEF Publications, IInv, TypeOK
  <2>2. /\ source_mtx[filling[u].source_id] = u
        /\ filling[u].source_id \in Sources
    BY <1>10, <2>1, FillingFacts DEF IInv, LockInv, CallInv
  <2>3. filling[u].source_id # s
    BY <1>5, <2>1, <2>2
  <2>4. QED  BY <1>4, <1>10, <2>1, <2>2, <2>3 DEF IInv, TypeOK
<1>12. TaskInv'
  BY <1>1 DEF IInv, TaskInv
<1>13. FillInv'
  <2> SUFFICES ASSUME NEW r \in Sources, NEW n \in Packets, NEW u \in Threads,
                      Fills(u, r, n), u # t
               PROVE  /\ packet_usages'[r][n]
                      /\ \A v \in Threads : Fills(v, r, n) /\ v # t => v = u
                      /\ pc[u] \notin {"enqueue_workers", "notify"} =>
                           References(r, n) = {}
                      /\ pc[u] = "enqueue_workers" =>
                           \A k \in References(r, n) : k.sink \in UISinks
    BY <1>6, <1>7, <1>10 DEF FillInv
  <2>1. ~(r = s /\ n = p)
    BY <1>5
  <2>2. QED  BY <1>9, <2>1 DEF IInv, FillInv
<1>14. RefInv'
  <2> SUFFICES ASSUME NEW r \in Sources, NEW n \in Packets
               PROVE  /\ IsFiniteSet(References(r, n))
                      /\ packet_refcounts[r][n] = Cardinality(References(r, n))
                      /\ References(r, n) # {} => packet_usages'[r][n]
                      /\ packet_usages'[r][n] =>
                           References(r, n) # {} \/
                             \E u \in Threads : Fills(u, r, n) /\ u # t
    BY <1>1, <1>6, <1>7 DEF RefInv
  <2>1. Fills(t, r, n) => r = s /\ n = p
    BY <1>3 DEF Fills
  <2>2. QED  BY <1>9, <2>1 DEF IInv, RefInv
<1>15. QED  BY <1>9, <1>11, <1>12, <1>13, <1>14 DEF Bookkeeping

LEMMA ReleaseStep ==
  ASSUME IInv, NEW t \in Threads, Release_Locked(t)
  PROVE  Bookkeeping'
<1>1. /\ pc[t] = "release" /\ pc' = [pc EXCEPT ![t] = "client"]
      /\ owed' = owed \ {t}
      /\ UNCHANGED <<source_mtx, tasks, filling, running, unreleased>>
  BY DEF Release_Locked, Goto, queueVars
<1>2. PICK s \in Sources, p \in Packets :
        s = running[t].source_id /\ p = running[t].packet
  BY <1>1, ReleaseFacts
<1>3. /\ running[t] \in References(s, p) /\ packet_usages[s][p]
      /\ packet_refcounts[s][p] \in Nat \ {0}
  BY <1>1, <1>2, ReleaseFacts
<1>4. /\ source_mtx[s] = NoThread
      /\ packet_refcounts' = [packet_refcounts EXCEPT ![s][p] = @ - 1]
      /\ IF packet_refcounts'[s][p] = 0
           THEN PutBack(s, p)
           ELSE UNCHANGED <<free_packets, packet_usages>>
  BY <1>2 DEF Release_Locked, SourceUnlocked
<1>5. \A r \in Sources, n \in Packets :
        packet_refcounts'[r][n] = IF r = s /\ n = p THEN packet_refcounts[s][p] - 1
                                  ELSE packet_refcounts[r][n]
  BY <1>4 DEF IInv, TypeOK
<1>6. \A u \in Threads : ~Fills(u, s, p)
  <2> SUFFICES ASSUME NEW u \in Threads, Fills(u, s, p) PROVE FALSE
    OBVIOUS
  <2>1. pc[u] \in Publications
    BY <1>3 DEF IInv, FillInv, Publications
  <2>2. source_mtx[s] = u
    BY <2>1 DEF IInv, LockInv, Fills
  <2>3. QED  BY <1>4, <2>2, ThreadAssumption DEF Threads
<1>7. \A u, r, n : Fills(u, r, n)' = Fills(u, r, n)
  BY <1>1 DEF Fills
<1> DEFINE others == tasks["UI"] \cup tasks["workers"] \cup unreleased
                       \cup {running[u] : u \in owed \ {t}}
<1>8. t \in owed /\ running[t] \notin others
  BY <1>1 DEF IInv, CallInv, TaskInv, Queues
<1>9. /\ \A r, n : References(r, n) = {k \in others \cup {running[t]} :
                                         k.source_id = r /\ k.packet = n}
      /\ \A r, n : References(r, n)' = {k \in others :
                                          k.source_id = r /\ k.packet = n}
  <2>1. tasks["UI"] \cup tasks["workers"] \cup unreleased
          \cup {running[u] : u \in owed} = others \cup {running[t]}
    BY <1>8
  <2>2. tasks'["UI"] \cup tasks'["workers"] \cup unreleased'
          \cup {running'[u] : u \in owed'} = others
    BY <1>1
  <2> HIDE DEF others
  <2>3. QED  BY <2>1, <2>2 DEF References
<1> HIDE DEF others
<1>10. /\ References(s, p)' = References(s, p) \ {running[t]}
       /\ \A r, n : (r # s \/ n # p) => References(r, n)' = References(r, n)
  BY <1>2, <1>8, <1>9
<1>11. /\ IsFiniteSet(References(s, p)')
       /\ Cardinality(References(s, p)') = packet_refcounts[s][p] - 1
  <2>1. /\ IsFiniteSet(References(s, p))
        /\ packet_refcounts[s][p] = Cardinality(References(s, p))
    BY DEF IInv, RefInv
  <2>2. /\ IsFiniteSet(References(s, p) \ {running[t]})
        /\ Cardinality(References(s, p) \ {running[t]}) =
             Cardinality(References(s, p)) - 1
    BY <1>3, <2>1, FS_RemoveElement
  <2>3. QED  BY <1>10, <2>1, <2>2
<1>12. packet_refcounts'[s][p] = 0 <=> References(s, p)' = {}
  BY <1>5, <1>11, FS_EmptySet
<1>13. PoolInv' /\ \A r \in Sources, n \in Packets :
        packet_usages'[r][n] <=>
          packet_usages[r][n] /\ ~(r = s /\ n = p /\ References(s, p)' = {})
  <2>1. CASE packet_refcounts'[s][p] = 0
    BY <1>3, <1>4, <1>12, <2>1, PutBackStep DEF IInv
  <2>2. CASE packet_refcounts'[s][p] # 0
    BY <1>4, <1>12, <2>2 DEF IInv, PoolInv
  <2>3. QED  BY <2>1, <2>2
<1>14. LockInv'
  BY <1>1 DEF IInv, TypeOK, LockInv, Publications
<1>15. TaskInv'
  BY <1>1 DEF IInv, TaskInv
<1>16. FillInv'
  <2> SUFFICES ASSUME NEW r \in Sources, NEW n \in Packets, NEW u \in Threads,
                      Fills(u, r, n)
               PROVE  /\ packet_usages'[r][n]
                      /\ \A v \in Threads : Fills(v, r, n) => v = u
                      /\ pc'[u] \notin {"enqueue_workers", "notify"} =>
                           References(r, n)' = {}
                      /\ pc'[u] = "enqueue_workers" =>
                           \A k \in References(r, n)' : k.sink \in UISinks
    BY <1>7 DEF FillInv
  <2>1. r # s \/ n # p
    BY <1>6
  <2>2. pc'[u] = pc[u] \/ (pc[u] = "release" /\ pc'[u] = "client")
    BY <1>1 DEF IInv, TypeOK
  <2>3. References(r, n)' = References(r, n)
    BY <1>10, <2>1
  <2>4. QED  BY <1>13, <2>1, <2>2, <2>3 DEF IInv, FillInv
<1>17. RefInv'
  <2> SUFFICES ASSUME NEW r \in Sources, NEW n \in Packets
               PROVE  /\ IsFiniteSet(References(r, n)')
                      /\ packet_refcounts'[r][n] = Cardinality(References(r, n)')
                      /\ References(r, n)' # {} => packet_usages'[r][n]
                      /\ packet_usages'[r][n] =>
                           References(r, n)' # {} \/ \E u \in Threads : Fills(u, r, n)
    BY <1>7 DEF RefInv
  <2>1. CASE r = s /\ n = p
    BY <1>3, <1>5, <1>11, <1>13, <2>1
  <2>2. CASE r # s \/ n # p
    <3>1. packet_usages'[r][n] <=> packet_usages[r][n]
      BY <1>13, <2>2
    <3>2. QED  BY <1>5, <1>10, <2>2, <3>1 DEF IInv, RefInv
  <2>3. QED  BY <2>1, <2>2
<1>18. QED  BY <1>13, <1>14, <1>15, <1>16, <1>17 DEF Bookkeeping

-----------------------------------------------------------------------------

LEMMA InitIInv == Init => IInv
<1> SUFFICES ASSUME Init PROVE IInv
  OBVIOUS
<1> USE DEF Init
<1>1. \A t \in Threads : pc[t] \in {"loop", "client"} /\ filling[t] = NoPacket
                         /\ running[t] = NoTask
  OBVIOUS
<1>2. TypeOK
  <2>1. [i \in 1..NumPackets |-> NumPackets - i] \in Seq(Packets)
    BY SourceAssumption DEF Packets
  <2>2. free_packets \in [Sources -> Seq(Packets)]
    BY <2>1
  <2>3. subscriptions \in [Sources -> Seq(Sinks \cup {NoSink})]
    BY EmptySeq
  <2>4. QED  BY <2>2, <2>3 DEF TypeOK, Locations, NoId
<1>3. CallInv
  BY <1>1, ThreadAssumption
  DEF CallInv, Publications, DispatchSteps, Threads
<1>4. LockInv
  BY <1>1 DEF LockInv, Publications
<1>5. PoolInv
  <2> SUFFICES ASSUME NEW s \in Sources
               PROVE  /\ \A i, j \in DOMAIN free_packets[s] :
                           free_packets[s][i] = free_packets[s][j] => i = j
                      /\ \A p \in Packets : \E i \in DOMAIN free_packets[s] :
                                              free_packets[s][i] = p
    BY DEF PoolInv
  <2>1. free_packets[s] = [i \in 1..NumPackets |-> NumPackets - i]
    OBVIOUS
  <2>2. \A p \in Packets : NumPackets - p \in 1 .. NumPackets
                           /\ NumPackets - (NumPackets - p) = p
    BY SourceAssumption DEF Packets
  <2>3. QED  BY <2>1, <2>2, SourceAssumption
<1>6. TaskInv
  BY DEF TaskInv, Queues
<1>7. \A s, p : References(s, p) = {} /\ \A t \in Threads : ~Fills(t, s, p)
  BY <1>1 DEF References, Fills, Queues
<1>8. FillInv
  BY <1>7 DEF FillInv
<1>9. RefInv
  BY <1>7, FS_EmptySet DEF RefInv
<1>10. QED  BY <1>2, <1>3, <1>4, <1>5, <1>6, <1>8, <1>9 DEF IInv

LEMMA StutterIInv ==
  ASSUME IInv, UNCHANGED vars
  PROVE  IInv'
<1> USE DEF vars, sourceVars, queueVars, subVars, callVars
<1>1. /\ \A s, p : References(s, p)' = References(s, p)
      /\ \A t, s, p : Fills(t, s, p)' = Fills(t, s, p)
  BY DEF References, Fills
<1>2. TypeOK' /\ CallInv' /\ LockInv' /\ PoolInv' /\ TaskInv'
  BY DEF IInv, TypeOK, CallInv, LockInv, PoolInv, TaskInv
<1>3. FillInv' /\ RefInv'
  BY <1>1 DEF IInv, FillInv, RefInv
<1>4. QED  BY <1>2, <1>3 DEF IInv

LEMMA StepIInv == IInv /\ [Next]_vars => IInv'
<1> SUFFICES ASSUME IInv, Next PROVE IInv'
  BY StutterIInv
<1>1. CASE Destroyed
  BY <1>1, StutterIInv DEF Destroyed
<1>2. TypeOK'
  BY <1>1, TypeCall, TypeProceed, TypeOther DEF Next, IInv
<1>3. CallInv'
  BY <1>2, CallStep
<1>4. Bookkeeping'
  <2>1. ASSUME NEW t \in Threads, Call(t) PROVE Bookkeeping'
    BY <2>1, NeutralStep, AcquireStep, ReturnStep DEF Call
  <2>2. ASSUME NEW t \in Threads, TakeMutex(t) PROVE Bookkeeping'
    BY <2>2, NeutralStep, SubmitEnqueueStep DEF TakeMutex
  <2>3. ASSUME NEW t \in Threads, Proceed(t) PROVE Bookkeeping'
    BY <2>3, NeutralStep, SubmitLockStep, FinishStep, ReleaseStep, PopStep
    DEF Proceed
  <2>4. CASE (\E w \in Workers : SpuriousWakeup(w)) \/ DoUITaskStep \/ Destroy
             \/ Destroy_Join
    BY <2>4, NeutralStep DEF Threads
  <2>5. CASE Destroyed
    BY <1>1, <2>5 DEF IInv, Bookkeeping
  <2>6. QED  BY <2>1, <2>2, <2>3, <2>4, <2>5 DEF Next
<1>5. QED  BY <1>2, <1>3, <1>4 DEF IInv, Bookkeeping

THEOREM Invariance == Spec => []IInv
  BY InitIInv, StepIInv, PTL DEF Spec

\* Every variable stays in its range; in particular no reference count ever
\* goes below zero.
THEOREM TypeCorrect == Spec => []TypeOK
<1>1. IInv => TypeOK
  BY DEF IInv
<1>2. QED  BY <1>1, Invariance, PTL

\* The reference counts are exact, whatever the interleaving of submissions,
\* dispatches and releases.
THEOREM CountsExact == Spec => []RefcountMatchesReferences
<1>1. IInv => RefcountMatchesReferences
  BY DEF IInv, RefInv, RefcountMatchesReferences
<1>2. QED  BY <1>1, Invariance, PTL

\* A stack without repetitions that misses a packet is not full.
LEMMA StackBound ==
  ASSUME NEW stack \in Seq(Packets),
         \A i, j \in DOMAIN stack : stack[i] = stack[j] => i = j
  PROVE  /\ Len(stack) <= NumPackets
         /\ \A p \in Packets :
              (\A i \in DOMAIN stack : stack[i] # p) => Len(stack) < NumPackets
<1>1. /\ IsFiniteSet(Packets) /\ Cardinality(Packets) = NumPackets
      /\ NumPackets \in Nat
  BY FS_Interval, SourceAssumption DEF Packets
<1>2. /\ DOMAIN stack = 1 .. Len(stack) /\ Len(stack) \in Nat
      /\ Cardinality(DOMAIN stack) = Len(stack)
  <2>1. DOMAIN stack = 1 .. Len(stack) /\ Len(stack) \in Nat
    OBVIOUS
  <2>2. ASSUME NEW n \in Nat PROVE Cardinality(1 .. n) = n
    <3>1. Cardinality(1 .. n) = IF 1 > n THEN 0 ELSE n - 1 + 1
      BY FS_Interval
    <3>2. QED  BY <3>1
  <2>3. QED  BY <2>1, <2>2
<1>3. stack \in Injection(DOMAIN stack, Packets)
  BY <1>2 DEF Injection, IsInjective
<1>4. Len(stack) <= NumPackets
  BY <1>1, <1>2, <1>3, FS_Injection
<1>5. ASSUME NEW p \in Packets, \A i \in DOMAIN stack : stack[i] # p
      PROVE  Len(stack) < NumPackets
  <2>1. stack \in Injection(DOMAIN stack, Packets \ {p})
    BY <1>3, <1>5 DEF Injection
  <2>2. /\ IsFiniteSet(Packets \ {p})
        /\ Cardinality(Packets \ {p}) = NumPackets - 1
    BY <1>1, FS_RemoveElement
  <2>3. Cardinality(DOMAIN stack) <= Cardinality(Packets \ {p})
    BY <2>1, <2>2, FS_Injection
  <2>4. QED  BY <1>1, <1>2, <2>2, <2>3
<1>6. QED  BY <1>4, <1>5

\* The assertions of GetPacketForSubmission, SubmitPacket and ReleasePacket
\* hold, the ones evaluated without the lock included.
THEOREM NoAssertionFails == Spec => []AssertionsHold
<1>1. IInv => AssertionsHold
  <2> SUFFICES ASSUME IInv PROVE AssertionsHold
    OBVIOUS
  <2>1. \A s \in Sources :
          /\ Len(free_packets[s]) <= NumPackets
          /\ \A p \in Packets :
               packet_usages[s][p] => Len(free_packets[s]) < NumPackets
    BY StackBound DEF IInv, TypeOK, PoolInv
  <2>2. ASSUME NEW t \in Threads, pc[t] = "submit"
        PROVE  LET s == filling[t].source_id
                   p == filling[t].packet
               IN /\ Len(free_packets[s]) < NumPackets
                  /\ packet_usages[s][p]
                  /\ packet_refcounts[s][p] = 0
    <3> DEFINE s == filling[t].source_id
               p == filling[t].packet
    <3>1. filling[t] # NoPacket /\ s \in Sources /\ p \in Packets
      BY <2>2, FillingFacts DEF IInv, CallInv
    <3>2. packet_usages[s][p] /\ References(s, p) = {}
      BY <2>2, <3>1 DEF IInv, FillInv, Fills
    <3>3. packet_refcounts[s][p] = 0
      BY <3>1, <3>2, FS_EmptySet DEF IInv, RefInv
    <3>4. QED  BY <2>1, <3>1, <3>2, <3>3
  <2>3. ASSUME NEW t \in Threads, pc[t] = "release"
        PROVE  LET s == running[t].source_id
                   p == running[t].packet
               IN /\ Len(free_packets[s]) < NumPackets
                  /\ packet_usages[s][p]
                  /\ packet_refcounts[s][p] > 0
    BY <2>1, <2>3, ReleaseFacts
  <2>4. ASSUME NEW s \in Sources, NEW i \in DOMAIN free_packets[s]
        PROVE  /\ ~packet_usages[s][free_packets[s][i]]
               /\ packet_refcounts[s][free_packets[s][i]] = 0
    <3>1. PICK p \in Packets : p = free_packets[s][i]
      BY DEF IInv, TypeOK
    <3>2. ~packet_usages[s][p]
      BY <3>1 DEF IInv, PoolInv
    <3>3. References(s, p) = {}
      BY <3>2 DEF IInv, RefInv
    <3>4. packet_refcounts[s][p] = 0
      BY <3>3, FS_EmptySet DEF IInv, RefInv
    <3>5. QED  BY <3>1, <3>2, <3>4
  <2>5. QED  BY <2>1, <2>2, <2>3, <2>4 DEF AssertionsHold
<1>2. QED  BY <1>1, Invariance, PTL

\* No packet of the pool is lost, handed out twice, or back on the free stack
\* while somebody may read it.
THEOREM PoolPartitioned == Spec => []PacketsPartitioned
<1>1. IInv => PacketsPartitioned
  <2> SUFFICES ASSUME IInv, NEW s \in Sources, NEW p \in Packets
               PROVE  LET onStack == {i \in DOMAIN free_packets[s] :
                                        free_packets[s][i] = p}
                      IN IF packet_usages[s][p]
                           THEN /\ onStack = {}
                                /\ \/ Fillers(s, p) = {} /\ References(s, p) # {}
                                   \/ Cardinality(Fillers(s, p)) = 1
                           ELSE /\ Cardinality(onStack) = 1
                                /\ Fillers(s, p) = {} /\ References(s, p) = {}
    BY DEF PacketsPartitioned
  <2> DEFINE onStack == {i \in DOMAIN free_packets[s] : free_packets[s][i] = p}
  <2>1. Fillers(s, p) = {t \in Threads : Fills(t, s, p)}
    BY DEF Fillers, Fills
  <2>2. CASE packet_usages[s][p]
    <3>1. onStack = {}
      BY <2>2 DEF IInv, PoolInv
    <3>2. CASE Fillers(s, p) = {}
      BY <2>1, <2>2, <3>1, <3>2 DEF IInv, RefInv
    <3>3. CASE Fillers(s, p) # {}
      <4>1. PICK t \in Threads : Fills(t, s, p)
        BY <2>1, <3>3
      <4>2. Fillers(s, p) = {t}
        BY <2>1, <4>1 DEF IInv, FillInv
      <4>3. QED  BY <2>2, <3>1, <4>2, FS_Singleton
    <3>4. QED  BY <3>2, <3>3
  <2>3. CASE ~packet_usages[s][p]
    <3>1. PICK i \in DOMAIN free_packets[s] : free_packets[s][i] = p
      BY <2>3 DEF IInv, PoolInv
    <3>2. onStack = {i}
      BY <3>1 DEF IInv, PoolInv
    <3>3. References(s, p) = {} /\ Fillers(s, p) = {}
      BY <2>1, <2>3 DEF IInv, RefInv, FillInv
    <3>4. QED  BY <2>3, <3>2, <3>3, FS_Singleton
  <2>4. QED  BY <2>2, <2>3
<1>2. QED  BY <1>1, Invariance, PTL

-----------------------------------------------------------------------------
(* What the scheduler promises.                                             *)

Critical == {"test", "pop", "wait"}

\* Whoever is at a queue has its mutex, and a worker that is about to pop has
\* seen, since it took the mutex, that the flag is not set.
MutexInv ==
  \A t \in Threads :
    /\ pc[t] \in Critical => queue_mtx[Queue(t)] = t
    /\ pc[t] = "pop" /\ t # UI => ~shutdown_initiated

-----------------------------------------------------------------------------

\* The steps that change no packet, task or subscription: threads move between
\* places in which they neither publish nor hold a new id.
Quiet(t) ==
  \/ SubmitPacket(t) \/ ReleasePacket(t) \/ Shutdown(t)
  \/ Submit_NotifyOne(t) \/ Shutdown_NotifyAll(t)
  \/ Dispatch_Loop(t) \/ Dispatch_Lock(t) \/ Dispatch_Test(t)
  \/ Dispatch_Wait(t) \/ SpuriousWakeup(t)
  \/ DoUITaskStep \/ Destroy \/ Destroy_Join

LEMMA QuietMoves ==
  ASSUME IInv, NEW t \in Threads, Quiet(t)
  PROVE  /\ UNCHANGED <<source_mtx, sourceVars, subVars, tasks, filling, running,
                        owed, unreleased>>
         /\ \A u \in Threads :
              \/ pc'[u] = pc[u]
              \/ /\ pc[u] \notin Publications \cup {"subscribed"}
                 /\ pc'[u] \notin Publications \cup {"subscribed"}
<1> USE DEF Goto, queueVars, sourceVars, subVars, callVars, Publications
<1>1. pc \in [Threads -> Locations] /\ waiting \subseteq Threads
  BY DEF IInv, TypeOK, Threads
<1>2. CASE SubmitPacket(t) \/ ReleasePacket(t) \/ Shutdown(t)
  BY <1>1, <1>2
  DEF SubmitPacket, ReleasePacket, Shutdown, SetShutdownFlag, InClientCode
<1>3. CASE \/ Dispatch_Loop(t) \/ Dispatch_Lock(t) \/ Dispatch_Test(t)
           \/ Dispatch_Wait(t)
  BY <1>1, <1>3
  DEF Dispatch_Loop, Dispatch_Lock, Dispatch_Test, Dispatch_Wait, AfterRound
<1>4. \A w \in waiting : pc[w] = "waiting"
  BY <1>1 DEF IInv, CallInv
<1>5. CASE Submit_NotifyOne(t)
  BY <1>1, <1>4, <1>5 DEF Submit_NotifyOne
<1>6. CASE SpuriousWakeup(t)
  BY <1>1, <1>4, <1>6 DEF SpuriousWakeup
<1>7. CASE Shutdown_NotifyAll(t)
  BY <1>1, <1>4, <1>7 DEF Shutdown_NotifyAll
<1>8. CASE DoUITaskStep \/ Destroy \/ Destroy_Join
  BY <1>1, <1>8
  DEF DoUITaskStep, Destroy, Destroy_Join, SetShutdownFlag, InClientCode
<1>9. QED  BY <1>2, <1>3, <1>5, <1>6, <1>7, <1>8 DEF Quiet

\* Every step is quiet or one of these.
LEMMA Steps ==
  ASSUME [Next]_vars
  PROVE  \/ UNCHANGED vars
         \/ \E t \in Threads :
              \/ Quiet(t)
              \/ \E s \in Sources : GetPacketForSubmission(t, s)
              \/ \E k \in Sinks : Subscribe(t, k) \/ Unsubscribe(t, k)
              \/ Subscribe_Return(t) \/ CallbackReturns(t)
              \/ Submit_Lock(t) \/ Submit_EnqueueUI(t)
              \/ Submit_EnqueueWorkers(t) \/ Submit_Finish(t)
              \/ Release_Locked(t) \/ Dispatch_Pop(t)
<1>1. UI \in Threads /\ Workers \subseteq Threads
  BY DEF Threads
<1>2. QED
  BY <1>1 DEF Next, Call, TakeMutex, Proceed, Quiet, Destroyed

-----------------------------------------------------------------------------
(* Shutdown.                                                               *)

LEMMA MutexInit == Init => MutexInv
  BY DEF Init, MutexInv, Critical

\* Whoever is at a queue keeps others out of it.
LEMMA MutexStep ==
  ASSUME IInv, MutexInv, [Next]_vars
  PROVE  MutexInv'
<1> USE DEF MutexInv, Critical, Goto
<1>1. /\ pc \in [Threads -> Locations] /\ waiting \subseteq Threads
      /\ queue_mtx \in [Queues -> Threads \cup {NoThread}]
      /\ \A t \in Threads : Queue(t) \in Queues
      /\ NoThread \notin Threads /\ "workers" \in Queues
  BY ThreadAssumption DEF IInv, TypeOK, Threads, Queue, Queues
<1>2. ASSUME UNCHANGED <<queue_mtx, shutdown_initiated>>,
             \A u \in Threads : pc'[u] = pc[u] \/ pc'[u] \notin Critical
      PROVE  MutexInv'
  BY <1>2
<1>3. ASSUME SetShutdownFlag, queue_mtx' = queue_mtx,
             \A u \in Threads : pc'[u] = pc[u] \/ pc'[u] \notin Critical
      PROVE  MutexInv'
  <2>1. queue_mtx["workers"] = NoThread
    BY <1>3 DEF SetShutdownFlag, QueueUnlocked
  <2>2. \A u \in Threads : u # UI => pc[u] \notin Critical
    BY <1>1, <2>1 DEF Queue
  <2>3. QED  BY <1>3, <2>2
<1>4. ASSUME NEW t \in Threads, Quiet(t) PROVE MutexInv'
  <2>1. CASE SubmitPacket(t) \/ ReleasePacket(t)
    BY <1>1, <1>2, <2>1 DEF SubmitPacket, ReleasePacket, queueVars
  <2>2. CASE Shutdown(t)
    BY <1>1, <1>3, <2>2 DEF Shutdown, SetShutdownFlag, queueVars
  <2>3. CASE Submit_NotifyOne(t)
    BY <1>1, <1>2, <2>3 DEF Submit_NotifyOne
  <2>4. CASE Shutdown_NotifyAll(t)
    BY <1>1, <1>2, <2>4 DEF Shutdown_NotifyAll
  <2>5. CASE SpuriousWakeup(t)
    BY <1>1, <1>2, <2>5 DEF SpuriousWakeup
  <2>6. CASE DoUITaskStep \/ Destroy_Join
    BY <1>1, <1>2, <2>6 DEF DoUITaskStep, Destroy_Join, queueVars
  <2>7. CASE Destroy
    BY <1>1, <1>2, <1>3, <2>7 DEF Destroy, SetShutdownFlag, queueVars
  <2>8. CASE Dispatch_Loop(t)
    BY <1>1, <1>2, <2>8 DEF Dispatch_Loop, queueVars
  <2>9. CASE Dispatch_Lock(t)
    <3>1. /\ queue_mtx[Queue(t)] = NoThread
          /\ queue_mtx' = [queue_mtx EXCEPT ![Queue(t)] = t]
          /\ pc' = [pc EXCEPT ![t] = "test"]
          /\ UNCHANGED shutdown_initiated
      BY <2>9 DEF Dispatch_Lock, QueueUnlocked
    <3>2. \A u \in Threads : pc[u] \in Critical => Queue(u) # Queue(t)
      BY <1>1, <3>1
    <3>3. QED  BY <1>1, <3>1, <3>2
  <2>10. CASE Dispatch_Test(t) \/ Dispatch_Wait(t)
    <3>1. /\ pc[t] \in Critical
          /\ UNCHANGED shutdown_initiated
          /\ \/ /\ UNCHANGED queue_mtx
                /\ \/ pc' = [pc EXCEPT ![t] = "pop"] /\ ~shutdown_initiated
                   \/ pc' = [pc EXCEPT ![t] = "wait"]
             \/ /\ queue_mtx' = [queue_mtx EXCEPT ![Queue(t)] = NoThread]
                /\ \E l \in {"client", "loop", "waiting"} :
                     pc' = [pc EXCEPT ![t] = l]
      BY <2>10 DEF Dispatch_Test, Dispatch_Wait, AfterRound
    <3>2. \A u \in Threads : pc[u] \in Critical /\ u # t => Queue(u) # Queue(t)
      BY <1>1, <3>1
    <3>3. QED  BY <1>1, <3>1, <3>2
  <2>11. QED
    BY <1>4, <2>1, <2>2, <2>3, <2>4, <2>5, <2>6, <2>7, <2>8, <2>9, <2>10 DEF Quiet
<1>5. ASSUME NEW t \in Threads, Dispatch_Pop(t) PROVE MutexInv'
  <2>1. /\ pc[t] = "pop" /\ pc' = [pc EXCEPT ![t] = "client"]
        /\ queue_mtx' = [queue_mtx EXCEPT ![Queue(t)] = NoThread]
        /\ UNCHANGED shutdown_initiated
    BY <1>5 DEF Dispatch_Pop
  <2>2. \A u \in Threads : pc[u] \in Critical /\ u # t => Queue(u) # Queue(t)
    BY <1>1, <2>1
  <2>3. QED  BY <1>1, <2>1, <2>2
<1>6. ASSUME NEW t \in Threads, NEW s \in Sources, GetPacketForSubmission(t, s)
      PROVE  MutexInv'
  BY <1>2, <1>6 DEF GetPacketForSubmission, queueVars
<1>7. ASSUME NEW t \in Threads, NEW k \in Sinks, Subscribe(t, k) \/ Unsubscribe(t, k)
      PROVE  MutexInv'
  BY <1>1, <1>2, <1>7 DEF Subscribe, Unsubscribe, queueVars
<1>8. ASSUME NEW t \in Threads, Subscribe_Return(t) \/ CallbackReturns(t)
      PROVE  MutexInv'
  BY <1>1, <1>2, <1>8 DEF Subscribe_Return, CallbackReturns, AfterRound, queueVars
<1>9. ASSUME NEW t \in Threads, Submit_Lock(t) \/ Submit_Finish(t) \/ Release_Locked(t)
      PROVE  MutexInv'
  BY <1>1, <1>2, <1>9 DEF Submit_Lock, Submit_Finish, Release_Locked, queueVars
<1>10. ASSUME NEW t \in Threads, Submit_EnqueueUI(t) \/ Submit_EnqueueWorkers(t)
       PROVE  MutexInv'
  BY <1>1, <1>2, <1>10 DEF Submit_EnqueueUI, Submit_EnqueueWorkers, Enqueue
<1>11. CASE UNCHANGED vars
  BY <1>2, <1>11 DEF vars, queueVars
<1>12. QED
  BY <1>4, <1>5, <1>6, <1>7, <1>8, <1>9, <1>10, <1>11, Steps

LEMMA MutexHolds == Spec => []MutexInv
<1>1. IInv /\ MutexInv /\ [Next]_vars => MutexInv'
  BY MutexStep
<1>2. QED  BY MutexInit, Invariance, <1>1, PTL DEF Spec

\* However many workers race with Shutdown, none takes a task from the queue once
\* the flag is set.
THEOREM NoneStarted == Spec => NoTaskAfterShutdown
<1>1. ASSUME IInv, MutexInv, [Next]_vars
      PROVE  [shutdown_initiated => tasks["workers"] \subseteq tasks'["workers"]]_vars
  <2> SUFFICES ASSUME shutdown_initiated
               PROVE  tasks["workers"] \subseteq tasks'["workers"]
    OBVIOUS
  <2>1. ASSUME NEW t \in Threads, Dispatch_Pop(t)
        PROVE  tasks'["workers"] = tasks["workers"]
    <3>1. t = UI
      BY <1>1, <2>1 DEF Dispatch_Pop, MutexInv
    <3>2. \E k : tasks' = [tasks EXCEPT !["UI"] = @ \ {k}]
      BY <2>1, <3>1 DEF Dispatch_Pop, Queue
    <3>3. QED  BY <1>1, <3>2 DEF IInv, TypeOK, Queues
  <2>2. ASSUME NEW t \in Threads, NEW q \in Queues, NEW sinks, Enqueue(t, q, sinks)
        PROVE  tasks["workers"] \subseteq tasks'["workers"]
    BY <1>1, <2>2 DEF Enqueue, IInv, TypeOK, Queues
  <2>3. ASSUME NEW t \in Threads, Submit_EnqueueUI(t) \/ Submit_EnqueueWorkers(t)
        PROVE  tasks["workers"] \subseteq tasks'["workers"]
    BY <2>2, <2>3 DEF Submit_EnqueueUI, Submit_EnqueueWorkers, Queues
  <2>4. ASSUME NEW t \in Threads, Quiet(t) PROVE tasks' = tasks
    BY <1>1, <2>4, QuietMoves
  <2>5. ASSUME NEW t \in Threads,
               \/ \E s \in Sources : GetPacketForSubmission(t, s)
               \/ \E k \in Sinks : Subscribe(t, k) \/ Unsubscribe(t, k)
               \/ Subscribe_Return(t) \/ CallbackReturns(t) \/ Submit_Lock(t)
               \/ Submit_Finish(t) \/ Release_Locked(t)
        PROVE  tasks' = tasks
    BY <2>5 DEF GetPacketForSubmission, Subscribe, Unsubscribe, Subscribe_Return,
       CallbackReturns, Submit_Lock, Submit_Finish, Release_Locked, queueVars
  <2>6. CASE UNCHANGED vars
    BY <2>6 DEF vars, queueVars
  <2>7. QED  BY <1>1, <2>1, <2>3, <2>4, <2>5, <2>6, Steps
<1>2. QED
  BY <1>1, Invariance, MutexHolds, PTL DEF Spec, NoTaskAfterShutdown

-----------------------------------------------------------------------------
(* Subscriptions.                                                          *)

\* Thread t is on its way back to the owner of sink k with the new id.
Returning(t, k) == new_id[t] # NoNewId /\ new_id[t].sink = k

\* Slot i of the sink's source holds the sink.
Slot(k, i) == /\ i \in DOMAIN subscriptions[SourceOf[k]]
              /\ subscriptions[SourceOf[k]][i] = k

\* The sink's owner has the id, or is about to be given it.
Denotes(k, i) == \/ subscription_id[k] = i
                 \/ \E t \in Threads : Returning(t, k) /\ new_id[t].id = i

\* An id is on its way once, to an owner who has none, and a sink has the slots
\* that its ids denote.
IdInv ==
  /\ \A t \in Threads : new_id[t] # NoNewId <=> pc[t] = "subscribed"
  /\ \A k \in Sinks, t \in Threads :
       Returning(t, k) => /\ subscription_id[k] = NoId
                          /\ \A u \in Threads : Returning(u, k) => u = t
  /\ \A k \in Sinks, i \in Nat \ {NoId} : Slot(k, i) <=> Denotes(k, i)

LEMMA IdInit == Init => IdInv
<1> SUFFICES ASSUME Init PROVE IdInv
  OBVIOUS
<1>1. \A t \in Threads : pc[t] # "subscribed" /\ new_id[t] = NoNewId
  BY DEF Init
<1>2. \A k \in Sinks : subscription_id[k] = NoId /\ DOMAIN subscriptions[SourceOf[k]] = {}
  BY SourceAssumption DEF Init
<1>3. QED  BY <1>1, <1>2 DEF IdInv, Returning, Slot, Denotes

\* An id that is on its way has its parts.
LEMMA NewIdFacts ==
  ASSUME TypeOK, NEW t \in Threads, new_id[t] # NoNewId
  PROVE  new_id[t].sink \in Sinks /\ new_id[t].id \in Nat \ {NoId}
  BY DEF TypeOK, NewIdType

LEMMA NewIdIsSome ==
  ASSUME NEW k, NEW i \in Nat \ {NoId}
  PROVE  [sink |-> k, id |-> i] # NoNewId
  BY DEF NoNewId, NoId

\* Filling the first free slot moves no other subscription.
LEMMA PutSlots ==
  ASSUME NEW subs \in Seq(Sinks \cup {NoSink}), NEW k \in Sinks,
         NEW i \in 1 .. Len(subs) + 1, FirstSlot(subs, i)
  PROVE  /\ i \in DOMAIN Put(subs, i, k) /\ Put(subs, i, k)[i] = k
         /\ i \in DOMAIN subs => subs[i] = NoSink
         /\ \A j : j # i => (j \in DOMAIN Put(subs, i, k) <=> j \in DOMAIN subs)
         /\ \A j \in DOMAIN subs : j # i => Put(subs, i, k)[j] = subs[j]
<1>1. Len(subs) \in Nat /\ DOMAIN subs = 1 .. Len(subs)
  OBVIOUS
<1>2. CASE i \in DOMAIN subs
  BY <1>1, <1>2 DEF Put, FirstSlot
<1>3. CASE i \notin DOMAIN subs
  <2>1. i = Len(subs) + 1
    BY <1>1, <1>3
  <2>2. /\ DOMAIN Append(subs, k) = 1 .. Len(subs) + 1
        /\ Append(subs, k)[Len(subs) + 1] = k
        /\ \A j \in 1 .. Len(subs) : Append(subs, k)[j] = subs[j]
    BY AppendProperties
  <2>3. QED  BY <1>1, <1>3, <2>1, <2>2 DEF Put
<1>4. QED  BY <1>2, <1>3

LEMMA SubscribeIds ==
  ASSUME IInv, IdInv, NEW t \in Threads, NEW k \in Sinks, Subscribe(t, k)
  PROVE  IdInv'
<1> DEFINE subs == subscriptions[SourceOf[k]]
<1>1. SourceOf[k] \in Sources /\ subs \in Seq(Sinks \cup {NoSink})
  BY SourceAssumption DEF IInv, TypeOK
<1>2. PICK i \in 1 .. Len(subs) + 1 :
        /\ FirstSlot(subs, i)
        /\ subscriptions' = [subscriptions EXCEPT ![SourceOf[k]] = Put(subs, i, k)]
        /\ new_id' = [new_id EXCEPT ![t] = [sink |-> k, id |-> i]]
  BY DEF Subscribe
<1>3. /\ pc[t] = "client" /\ pc' = [pc EXCEPT ![t] = "subscribed"]
      /\ subscription_id' = subscription_id
      /\ subscription_id[k] = NoId /\ \A u \in Threads : ~Returning(u, k)
  BY DEF Subscribe, InClientCode, Goto, InUse, Returning
<1>4. i \in Nat \ {NoId} /\ [sink |-> k, id |-> i] # NoNewId
  BY <1>1, NewIdIsSome DEF NoId
<1>5. /\ new_id'[t] = [sink |-> k, id |-> i] /\ pc'[t] = "subscribed"
      /\ \A u \in Threads : u # t => new_id'[u] = new_id[u] /\ pc'[u] = pc[u]
      /\ new_id[t] = NoNewId
  BY <1>2, <1>3 DEF IInv, TypeOK, IdInv
<1>6. \A u \in Threads, l \in Sinks :
        Returning(u, l)' <=> IF u = t THEN l = k ELSE Returning(u, l)
  BY <1>4, <1>5 DEF Returning
<1>7. \A l \in Sinks, j \in Nat \ {NoId} :
        Denotes(l, j)' <=> IF l = k THEN j = i ELSE Denotes(l, j)
  <2> SUFFICES ASSUME NEW l \in Sinks, NEW j \in Nat \ {NoId}
               PROVE  Denotes(l, j)' <=> IF l = k THEN j = i ELSE Denotes(l, j)
    OBVIOUS
  <2>1. Denotes(l, j)' <=> \/ subscription_id[l] = j
                           \/ \E u \in Threads : Returning(u, l)' /\ new_id'[u].id = j
    BY <1>3 DEF Denotes
  <2>2. CASE l = k
    BY <1>3, <1>5, <1>6, <2>1, <2>2
  <2>3. CASE l # k
    BY <1>5, <1>6, <2>1, <2>3 DEF Denotes, Returning
  <2>4. QED  BY <2>2, <2>3
<1>8. \A l \in Sinks, j \in Nat \ {NoId} :
        Slot(l, j)' <=> IF l = k THEN j = i ELSE Slot(l, j)
  <2> SUFFICES ASSUME NEW l \in Sinks, NEW j \in Nat \ {NoId}
               PROVE  Slot(l, j)' <=> IF l = k THEN j = i ELSE Slot(l, j)
    OBVIOUS
  <2>1. /\ i \in DOMAIN Put(subs, i, k) /\ Put(subs, i, k)[i] = k
        /\ i \in DOMAIN subs => subs[i] = NoSink
        /\ \A m : m # i => (m \in DOMAIN Put(subs, i, k) <=> m \in DOMAIN subs)
        /\ \A m \in DOMAIN subs : m # i => Put(subs, i, k)[m] = subs[m]
    BY <1>1, <1>2, PutSlots
  <2>2. /\ subscriptions'[SourceOf[k]] = Put(subs, i, k)
        /\ \A s \in Sources : s # SourceOf[k] => subscriptions'[s] = subscriptions[s]
    BY <1>1, <1>2 DEF IInv, TypeOK
  <2>3. SourceOf[l] \in Sources /\ l # NoSink
    BY SourceAssumption
  <2>4. CASE SourceOf[l] # SourceOf[k]
    BY <2>2, <2>3, <2>4 DEF Slot
  <2>5. CASE SourceOf[l] = SourceOf[k]
    <3>1. ~Slot(k, j)
      <4>1. ~Denotes(k, j)
        BY <1>3 DEF Denotes
      <4>2. QED  BY <4>1 DEF IdInv
    <3>2. Slot(l, j)' <=> j \in DOMAIN Put(subs, i, k) /\ Put(subs, i, k)[j] = l
      BY <2>2, <2>5 DEF Slot
    <3>3. Slot(l, j) <=> j \in DOMAIN subs /\ subs[j] = l
      BY <2>5 DEF Slot
    <3> HIDE DEF subs
    <3>4. CASE j = i
      BY <2>1, <2>3, <3>2, <3>3, <3>4
    <3>5. CASE j # i
      BY <2>1, <3>1, <3>2, <3>3, <3>5
    <3>6. QED  BY <3>4, <3>5
  <2>6. QED  BY <2>4, <2>5
<1>9. \A u \in Threads : new_id'[u] # NoNewId <=> pc'[u] = "subscribed"
  BY <1>4, <1>5 DEF IdInv
<1>10. \A l \in Sinks, u \in Threads :
         Returning(u, l)' => /\ subscription_id'[l] = NoId
                             /\ \A v \in Threads : Returning(v, l)' => v = u
  BY <1>3, <1>6 DEF IdInv
<1>11. \A l \in Sinks, j \in Nat \ {NoId} : Slot(l, j)' <=> Denotes(l, j)'
  BY <1>7, <1>8 DEF IdInv
<1>12. QED  BY <1>9, <1>10, <1>11 DEF IdInv

LEMMA ReturnIds ==
  ASSUME IInv, IdInv, NEW t \in Threads, Subscribe_Return(t)
  PROVE  IdInv'
<1>1. /\ pc[t] = "subscribed" /\ new_id[t] # NoNewId
      /\ pc' = [pc EXCEPT ![t] = "client"]
      /\ subscription_id' = [subscription_id EXCEPT ![new_id[t].sink] = new_id[t].id]
      /\ new_id' = [new_id EXCEPT ![t] = NoNewId]
      /\ subscriptions' = subscriptions
  BY DEF Subscribe_Return, Goto, IdInv
<1>2. PICK k \in Sinks, i \in Nat \ {NoId} : k = new_id[t].sink /\ i = new_id[t].id
  BY <1>1, NewIdFacts DEF IInv
<1>3. /\ Returning(t, k) /\ subscription_id[k] = NoId
      /\ \A u \in Threads : Returning(u, k) => u = t
  BY <1>1, <1>2 DEF Returning, IdInv
<1>4. /\ \A u \in Threads : u # t => new_id'[u] = new_id[u] /\ pc'[u] = pc[u]
      /\ new_id'[t] = NoNewId /\ pc'[t] = "client"
      /\ \A l \in Sinks :
           subscription_id'[l] = IF l = k THEN i ELSE subscription_id[l]
  BY <1>1, <1>2 DEF IInv, TypeOK
<1>5. \A u \in Threads, l \in Sinks :
        Returning(u, l)' <=> Returning(u, l) /\ u # t
  BY <1>4 DEF Returning
<1>6. \A l \in Sinks, j \in Nat \ {NoId} : Denotes(l, j)' <=> Denotes(l, j)
  <2> SUFFICES ASSUME NEW l \in Sinks, NEW j \in Nat \ {NoId}
               PROVE  Denotes(l, j)' <=> Denotes(l, j)
    OBVIOUS
  <2>1. Denotes(l, j)' <=>
          \/ subscription_id'[l] = j
          \/ \E u \in Threads : Returning(u, l)' /\ new_id'[u].id = j
    BY DEF Denotes
  <2>2. CASE l = k
    BY <1>2, <1>3, <1>4, <1>5, <2>1, <2>2 DEF Denotes
  <2>3. CASE l # k
    <3>1. ~Returning(t, l)
      BY <1>2, <2>3 DEF Returning
    <3>2. QED  BY <1>4, <1>5, <2>1, <2>3, <3>1 DEF Denotes
  <2>4. QED  BY <2>2, <2>3
<1>7. \A l, j : Slot(l, j)' <=> Slot(l, j)
  BY <1>1 DEF Slot
<1>8. \A u \in Threads : new_id'[u] # NoNewId <=> pc'[u] = "subscribed"
  BY <1>4 DEF IdInv
<1>9. \A l \in Sinks, u \in Threads :
        Returning(u, l)' => /\ subscription_id'[l] = NoId
                            /\ \A v \in Threads : Returning(v, l)' => v = u
  BY <1>3, <1>4, <1>5 DEF IdInv
<1>10. \A l \in Sinks, j \in Nat \ {NoId} : Slot(l, j)' <=> Denotes(l, j)'
  BY <1>6, <1>7 DEF IdInv
<1>11. QED  BY <1>8, <1>9, <1>10 DEF IdInv

LEMMA UnsubscribeIds ==
  ASSUME IInv, IdInv, NEW t \in Threads, NEW k \in Sinks, Unsubscribe(t, k)
  PROVE  IdInv'
<1> DEFINE subs == subscriptions[SourceOf[k]]
<1>1. PICK i \in Nat \ {NoId} : i = subscription_id[k]
  BY DEF Unsubscribe, IInv, TypeOK
<1>2. /\ subscriptions' = [subscriptions EXCEPT ![SourceOf[k]] = Clear(subs, i)]
      /\ subscription_id' = [subscription_id EXCEPT ![k] = NoId]
      /\ UNCHANGED <<new_id, pc>>
  BY <1>1 DEF Unsubscribe
<1>3. /\ SourceOf[k] \in Sources /\ subs \in Seq(Sinks \cup {NoSink})
      /\ NoSink \notin Sinks
  BY SourceAssumption DEF IInv, TypeOK
<1>4. \A u \in Threads : ~Returning(u, k)
  BY <1>1 DEF IdInv
<1>5. \A j \in Nat \ {NoId} : Slot(k, j) <=> j = i
  BY <1>1, <1>4 DEF IdInv, Denotes
<1>6. /\ \A u, l : Returning(u, l)' = Returning(u, l)
      /\ \A l \in Sinks :
           subscription_id'[l] = IF l = k THEN NoId ELSE subscription_id[l]
  BY <1>2 DEF Returning, IInv, TypeOK
<1>7. \A l \in Sinks, j \in Nat \ {NoId} : Denotes(l, j)' <=> l # k /\ Denotes(l, j)
  <2> SUFFICES ASSUME NEW l \in Sinks, NEW j \in Nat \ {NoId}
               PROVE  Denotes(l, j)' <=> l # k /\ Denotes(l, j)
    OBVIOUS
  <2>1. Denotes(l, j)' <=>
          \/ subscription_id'[l] = j
          \/ \E u \in Threads : Returning(u, l) /\ new_id[u].id = j
    BY <1>2, <1>6 DEF Denotes
  <2>2. QED  BY <1>4, <1>6, <2>1 DEF Denotes
<1>8. \A l \in Sinks, j \in Nat \ {NoId} : Slot(l, j)' <=> l # k /\ Slot(l, j)
  <2> SUFFICES ASSUME NEW l \in Sinks, NEW j \in Nat \ {NoId}
               PROVE  Slot(l, j)' <=> l # k /\ Slot(l, j)
    OBVIOUS
  <2>1. /\ subscriptions'[SourceOf[k]] = [subs EXCEPT ![i] = NoSink]
        /\ \A s \in Sources : s # SourceOf[k] => subscriptions'[s] = subscriptions[s]
    BY <1>2, <1>3 DEF Clear, IInv, TypeOK
  <2>2. i \in DOMAIN subs /\ subs[i] = k
    BY <1>5 DEF Slot
  <2>3. SourceOf[l] \in Sources
    BY SourceAssumption
  <2>4. CASE SourceOf[l] # SourceOf[k]
    BY <2>1, <2>3, <2>4 DEF Slot
  <2>5. CASE SourceOf[l] = SourceOf[k]
    <3>1. Slot(l, j)' <=> j \in DOMAIN subs /\ [subs EXCEPT ![i] = NoSink][j] = l
      BY <2>1, <2>5 DEF Slot
    <3>2. Slot(l, j) <=> j \in DOMAIN subs /\ subs[j] = l
      BY <2>5 DEF Slot
    <3>3. j \in DOMAIN subs /\ subs[j] = k => j = i
      BY <1>5 DEF Slot
    <3> HIDE DEF subs
    <3>4. QED  BY <1>3, <2>2, <3>1, <3>2, <3>3
  <2>6. QED  BY <2>4, <2>5
<1>9. \A u \in Threads : new_id'[u] # NoNewId <=> pc'[u] = "subscribed"
  BY <1>2 DEF IdInv
<1>10. \A l \in Sinks, u \in Threads :
         Returning(u, l)' => /\ subscription_id'[l] = NoId
                             /\ \A v \in Threads : Returning(v, l)' => v = u
  BY <1>6 DEF IdInv
<1>11. \A l \in Sinks, j \in Nat \ {NoId} : Slot(l, j)' <=> Denotes(l, j)'
  BY <1>7, <1>8 DEF IdInv
<1>12. QED  BY <1>9, <1>10, <1>11 DEF IdInv

\* The other steps neither touch subscriptions nor hand out ids.
LEMMA IdKept ==
  ASSUME IdInv, UNCHANGED subVars,
         \A u \in Threads : \/ pc'[u] = pc[u]
                            \/ pc[u] # "subscribed" /\ pc'[u] # "subscribed"
  PROVE  IdInv'
<1>1. /\ \A t, k : Returning(t, k)' = Returning(t, k)
      /\ \A k, i : Slot(k, i)' = Slot(k, i)
  BY DEF subVars, Returning, Slot
<1>2. \A k, i : Denotes(k, i)' = Denotes(k, i)
  BY <1>1 DEF subVars, Denotes
<1>3. QED  BY <1>1, <1>2 DEF IdInv, subVars

LEMMA IdStep ==
  ASSUME IInv, IdInv, [Next]_vars
  PROVE  IdInv'
<1>1. pc \in [Threads -> Locations]
  BY DEF IInv, TypeOK
<1>2. ASSUME NEW t \in Threads, Quiet(t) PROVE IdInv'
  BY <1>2, QuietMoves, IdKept
<1>3. ASSUME NEW t \in Threads,
             \/ \E s \in Sources : GetPacketForSubmission(t, s)
             \/ Submit_Lock(t) \/ Submit_Finish(t) \/ Release_Locked(t)
             \/ Dispatch_Pop(t) \/ CallbackReturns(t)
      PROVE  IdInv'
  <2>1. UNCHANGED subVars
    BY <1>3 DEF GetPacketForSubmission, Submit_Lock, Submit_Finish,
       Release_Locked, Dispatch_Pop, CallbackReturns
  <2>2. \E l : /\ l # "subscribed" /\ pc[t] # "subscribed"
               /\ pc' = pc \/ pc' = [pc EXCEPT ![t] = l]
    BY <1>3 DEF GetPacketForSubmission, Submit_Lock, Submit_Finish, Goto,
       Release_Locked, Dispatch_Pop, CallbackReturns, AfterRound, InClientCode
  <2>3. QED  BY <1>1, <2>1, <2>2, IdKept
<1>4. ASSUME NEW t \in Threads, Submit_EnqueueUI(t) \/ Submit_EnqueueWorkers(t)
      PROVE  IdInv'
  <2>1. UNCHANGED subVars
    BY <1>4 DEF Submit_EnqueueUI, Submit_EnqueueWorkers, Enqueue
  <2>2. \E l : /\ l # "subscribed" /\ pc[t] # "subscribed"
               /\ pc' = [pc EXCEPT ![t] = l]
    BY <1>4 DEF Submit_EnqueueUI, Submit_EnqueueWorkers, Goto
  <2>3. QED  BY <1>1, <2>1, <2>2, IdKept
<1>5. CASE UNCHANGED vars
  BY <1>5, IdKept DEF vars
<1>6. QED
  BY <1>2, <1>3, <1>4, <1>5, Steps, SubscribeIds, ReturnIds, UnsubscribeIds

LEMMA IdHolds == Spec => []IdInv
<1>1. IInv /\ IdInv /\ [Next]_vars => IdInv'
  BY IdStep
<1>2. QED  BY IdInit, Invariance, <1>1, PTL DEF Spec

\* However often slots are emptied and filled again, by any number of threads,
\* an id denotes the slot of the sink it was given for, and no other slot holds
\* that sink.
THEOREM IdsValid == Spec => []SubscriptionIdsValid
<1>1. IInv /\ IdInv => SubscriptionIdsValid
  <2> SUFFICES ASSUME IInv, IdInv, NEW k \in Sinks
               PROVE  LET subs   == subscriptions[SourceOf[k]]
                          given  == {subscription_id[k]} \ {NoId}
                          coming == {new_id[t].id : t \in {u \in Threads :
                                       new_id[u] # NoNewId /\ new_id[u].sink = k}}
                      IN {i \in DOMAIN subs : subs[i] = k} = given \cup coming
    BY DEF SubscriptionIdsValid
  <2> DEFINE subs   == subscriptions[SourceOf[k]]
             given  == {subscription_id[k]} \ {NoId}
             coming == {new_id[t].id : t \in {u \in Threads :
                          new_id[u] # NoNewId /\ new_id[u].sink = k}}
             slots  == {i \in DOMAIN subs : subs[i] = k}
  <2>1. subs \in Seq(Sinks \cup {NoSink})
    BY SourceAssumption DEF IInv, TypeOK
  <2>2. \A i : i \in slots <=> i \in Nat \ {NoId} /\ Slot(k, i)
    <3>1. \A i \in DOMAIN subs : i \in Nat \ {NoId}
      BY <2>1 DEF NoId
    <3>2. QED  BY <3>1 DEF Slot
  <2>3. \A i : i \in given \cup coming <=> i \in Nat \ {NoId} /\ Denotes(k, i)
    <3>1. subscription_id[k] \in Nat
      BY DEF IInv, TypeOK
    <3>2. \A t \in Threads : Returning(t, k) => new_id[t].id \in Nat \ {NoId}
      BY NewIdFacts DEF IInv, Returning
    <3>3. \A i : i \in coming <=> \E t \in Threads : Returning(t, k) /\ new_id[t].id = i
      BY DEF Returning
    <3>4. QED  BY <3>1, <3>2, <3>3 DEF Denotes
  <2>4. \A i : i \in slots <=> i \in given \cup coming
    BY <2>2, <2>3 DEF IdInv
  <2> HIDE DEF slots, given, coming
  <2>5. slots = given \cup coming
    BY <2>4
  <2>6. QED  BY <2>5 DEF slots, given, coming
<1>2. QED  BY <1>1, Invariance, IdHolds, PTL

-----------------------------------------------------------------------------
(* Wake-ups.                                                               *)

\* A source that is not locked has no publication under way.
LEMMA UnlockedIdle ==
  ASSUME IInv, NEW s \in Sources, SourceUnlocked(s), NEW t \in Threads,
         pc[t] \in Publications
  PROVE  filling[t].source_id # s
  BY ThreadAssumption DEF IInv, LockInv, SourceUnlocked, Threads

Enqueueing == {"enqueue_UI", "enqueue_workers"}
Stopping   == {"notify_all", "destroy_notify"}

\* Wake-ups owed for tasks that are in the queue.
Announced ==
  UNION {{t} \X (1 .. notifies[t]) : t \in {u \in Threads : pc[u] = "notify"}}

\* A submission will announce the tasks that it is going to queue.
CountInv ==
  \A t \in Threads :
    pc[t] \in Enqueueing =>
      notifies[t] = Cardinality(NormalSubscribers(filling[t].source_id))

\* A worker falls asleep in the critical section in which it saw no task.
IdleInv ==
  \A w \in Workers :
    pc[w] = "wait" => tasks["workers"] = {} /\ ~shutdown_initiated

\* A task is matched by a wake-up as soon as it is in the queue.
WakeInv ==
  /\ IsFiniteSet(tasks["workers"])
  /\ waiting # {} =>
       IF shutdown_initiated
         THEN \E t \in Threads : pc[t] \in Stopping
         ELSE Cardinality(tasks["workers"]) <=
                Cardinality(Announced) + Cardinality(Dispatching)

WaitInv == CountInv /\ IdleInv /\ WakeInv

LEMMA WaitInit == Init => WaitInv
<1> SUFFICES ASSUME Init PROVE WaitInv
  OBVIOUS
<1>1. /\ \A t \in Threads : pc[t] \in {"loop", "client"}
      /\ tasks["workers"] = {} /\ waiting = {}
  BY DEF Init, Queues
<1>2. Workers \subseteq Threads
  BY DEF Threads
<1>3. QED
  BY <1>1, <1>2, FS_EmptySet DEF WaitInv, CountInv, IdleInv, WakeInv, Enqueueing

\* What is announced and who is on his way to the queue can be counted.
LEMMA Countable ==
  ASSUME notifies \in [Threads -> Nat]
  PROVE  /\ IsFiniteSet(PendingNotifies) /\ Announced \subseteq PendingNotifies
         /\ IsFiniteSet(Announced) /\ IsFiniteSet(Dispatching)
<1>1. IsFiniteSet(Threads)
  BY ThreadAssumption, FS_Union, FS_Singleton DEF Threads
<1> DEFINE Of(t) == {t} \X (1 .. notifies[t])
           f == [t \in Threads |-> Of(t)]
           all == {Of(t) : t \in Threads}
<1>2. IsFiniteSet(all)
  <2>1. f \in Surjection(Threads, all)
    BY DEF Surjection
  <2>2. QED  BY <1>1, <2>1, FS_Surjection
<1>3. \A x \in all : IsFiniteSet(x)
  <2> SUFFICES ASSUME NEW t \in Threads PROVE IsFiniteSet(Of(t))
    OBVIOUS
  <2>1. \A n \in Nat : IsFiniteSet(1 .. n)
    BY FS_Interval
  <2>2. IsFiniteSet({t}) /\ IsFiniteSet(1 .. notifies[t])
    BY <2>1, FS_Singleton
  <2>3. QED  BY <2>2, FS_Product
<1>4. IsFiniteSet(PendingNotifies)
  BY <1>2, <1>3, FS_UNION DEF PendingNotifies
<1>5. Announced \subseteq PendingNotifies
  BY DEF Announced, PendingNotifies
<1>6. IsFiniteSet(Dispatching)
  BY ThreadAssumption, FS_Subset DEF Dispatching
<1>7. QED  BY <1>4, <1>5, <1>6, FS_Subset

CountableSets ==
  notifies \in [Threads -> Nat] => IsFiniteSet(Announced) /\ IsFiniteSet(Dispatching)

LEMMA CountableNow == CountableSets
  BY Countable DEF CountableSets

LEMMA CountableNext == CountableSets'
  BY CountableNow, PTL

LEMMA CountStep ==
  ASSUME IInv, CountInv, [Next]_vars
  PROVE  CountInv'
<1> DEFINE source(u) == filling[u].source_id
<1>1. ASSUME \A u \in Threads :
               pc'[u] \in Enqueueing =>
                 /\ pc[u] \in Enqueueing
                 /\ filling'[u] = filling[u] /\ notifies'[u] = notifies[u]
                 /\ subscriptions'[source(u)] = subscriptions[source(u)]
      PROVE  CountInv'
  BY <1>1 DEF CountInv, NormalSubscribers, Subscribed
<1>2. /\ pc \in [Threads -> Locations] /\ filling \in [Threads -> FillingType \cup {NoPacket}]
      /\ notifies \in [Threads -> Nat]
  BY DEF IInv, TypeOK
<1>3. ASSUME NEW t \in Threads, Quiet(t) PROVE CountInv'
  <2>1. \A u \in Threads : pc[u] \in Enqueueing => notifies'[u] = notifies[u]
    <3>1. CASE Submit_NotifyOne(t)
      BY <1>2, <3>1 DEF Submit_NotifyOne, Enqueueing
    <3>2. CASE ~Submit_NotifyOne(t)
      <4>1. notifies' = notifies
        BY <1>3, <3>2
        DEF Quiet, SubmitPacket, ReleasePacket, Shutdown, SetShutdownFlag,
            Shutdown_NotifyAll, Dispatch_Loop, Dispatch_Lock, Dispatch_Test,
            Dispatch_Wait, SpuriousWakeup, DoUITaskStep, Destroy, Destroy_Join,
            callVars
      <4>2. QED  BY <4>1
    <3>3. QED  BY <3>1, <3>2
  <2>2. /\ UNCHANGED <<filling, subscriptions>>
        /\ \A u \in Threads : pc'[u] \in Enqueueing => pc[u] \in Enqueueing
    BY <1>3, QuietMoves DEF subVars, Publications, Enqueueing
  <2>3. QED  BY <1>1, <2>1, <2>2
<1>4. ASSUME NEW t \in Threads, Submit_Lock(t) PROVE CountInv'
  <2>1. /\ pc' = [pc EXCEPT ![t] = "enqueue_UI"]
        /\ notifies' = [notifies EXCEPT ![t] = Cardinality(NormalSubscribers(source(t)))]
        /\ UNCHANGED <<filling, subscriptions>>
    BY <1>4 DEF Submit_Lock, Goto, subVars
  <2>2. \A s : NormalSubscribers(s)' = NormalSubscribers(s)
    BY <2>1 DEF NormalSubscribers, Subscribed
  <2>3. \A u \in Threads :
          u # t => pc'[u] = pc[u] /\ notifies'[u] = notifies[u]
    BY <1>2, <2>1
  <2>4. notifies'[t] = Cardinality(NormalSubscribers(source(t)))
    BY <1>2, <2>1
  <2>5. QED  BY <2>1, <2>2, <2>3, <2>4 DEF CountInv
<1>5. ASSUME NEW t \in Threads, NEW k \in Sinks, Subscribe(t, k) \/ Unsubscribe(t, k)
      PROVE  CountInv'
  <2>1. /\ SourceUnlocked(SourceOf[k]) /\ SourceOf[k] \in Sources
        /\ UNCHANGED <<filling, notifies>>
        /\ \E new : subscriptions' = [subscriptions EXCEPT ![SourceOf[k]] = new]
        /\ pc' = pc \/ pc' = [pc EXCEPT ![t] = "subscribed"]
    BY <1>5, SourceAssumption DEF Subscribe, Unsubscribe, Goto, callVars
  <2>2. ASSUME NEW u \in Threads, pc'[u] \in Enqueueing
        PROVE  pc[u] \in Enqueueing /\ source(u) # SourceOf[k]
    <3>1. pc[u] \in Enqueueing
      BY <1>2, <2>1, <2>2 DEF Enqueueing
    <3>2. QED  BY <2>1, <3>1, UnlockedIdle DEF Enqueueing, Publications
  <2>3. QED  BY <1>1, <2>1, <2>2 DEF IInv, TypeOK
<1>6. ASSUME NEW t \in Threads, Submit_EnqueueUI(t) \/ Submit_EnqueueWorkers(t)
      PROVE  CountInv'
  <2>1. /\ UNCHANGED <<filling, notifies, subscriptions>> /\ pc[t] \in Enqueueing
        /\ \E l : pc' = [pc EXCEPT ![t] = l]
    BY <1>6 DEF Submit_EnqueueUI, Submit_EnqueueWorkers, Enqueue, Goto, subVars,
       callVars, Enqueueing
  <2>2. QED  BY <1>1, <1>2, <2>1
<1>7. ASSUME NEW t \in Threads,
             \/ \E s \in Sources : GetPacketForSubmission(t, s)
             \/ Subscribe_Return(t) \/ CallbackReturns(t) \/ Submit_Finish(t)
             \/ Release_Locked(t) \/ Dispatch_Pop(t)
      PROVE  CountInv'
  <2>1. UNCHANGED <<notifies, subscriptions>>
    BY <1>7 DEF GetPacketForSubmission, Subscribe_Return, CallbackReturns,
       Submit_Finish, Release_Locked, Dispatch_Pop, subVars, callVars
  <2>2. \E l : l \notin Enqueueing /\ (pc' = pc \/ pc' = [pc EXCEPT ![t] = l])
    BY <1>7 DEF GetPacketForSubmission, Subscribe_Return, CallbackReturns,
       Submit_Finish, Release_Locked, Dispatch_Pop, Goto, AfterRound, Enqueueing
  <2>3. pc[t] \notin Enqueueing
    BY <1>7 DEF GetPacketForSubmission, Subscribe_Return, CallbackReturns,
       Submit_Finish, Release_Locked, Dispatch_Pop, InClientCode, Enqueueing
  <2>4. filling' = filling \/ \E new : filling' = [filling EXCEPT ![t] = new]
    BY <1>7 DEF GetPacketForSubmission, Subscribe_Return, CallbackReturns,
       Submit_Finish, Release_Locked, Dispatch_Pop, callVars
  <2>5. \A u \in Threads : pc'[u] \in Enqueueing =>
          u # t /\ pc[u] \in Enqueueing /\ filling'[u] = filling[u]
    BY <1>2, <2>2, <2>3, <2>4
  <2>6. QED  BY <1>1, <2>1, <2>5
<1>8. CASE UNCHANGED vars
  BY <1>1, <1>8 DEF vars, subVars, callVars
<1>9. QED  BY <1>3, <1>4, <1>5, <1>6, <1>7, <1>8, Steps

LEMMA IdleStep ==
  ASSUME IInv, MutexInv, IdleInv, [Next]_vars
  PROVE  IdleInv'
<1>1. ASSUME tasks'["workers"] \subseteq tasks["workers"],
             UNCHANGED shutdown_initiated,
             \A w \in Workers : pc'[w] = "wait" => pc[w] = "wait"
      PROVE  IdleInv'
  BY <1>1 DEF IdleInv
<1>2. /\ pc \in [Threads -> Locations] /\ waiting \subseteq Workers
      /\ Workers \subseteq Threads /\ UI \notin Workers /\ NoThread \notin Threads
  BY ThreadAssumption DEF IInv, TypeOK, Threads
<1>3. ASSUME queue_mtx["workers"] = NoThread, NEW w \in Workers
      PROVE  pc[w] # "wait"
  BY <1>2, <1>3 DEF MutexInv, Critical, Queue
<1>4. ASSUME NEW t \in Threads, Quiet(t) PROVE IdleInv'
  <2>1. tasks' = tasks
    BY <1>4, QuietMoves
  <2>2. CASE Dispatch_Test(t)
    <3>1. /\ UNCHANGED shutdown_initiated
          /\ \E l : pc' = [pc EXCEPT ![t] = l]
          /\ pc'[t] = "wait" => /\ Queue(t) = "workers"
                                /\ tasks[Queue(t)] = {} /\ ~shutdown_initiated
      BY <1>2, <2>2 DEF Dispatch_Test, Goto, AfterRound, Queue
    <3>2. QED  BY <1>2, <2>1, <3>1 DEF IdleInv
  <2>3. CASE Shutdown(t) \/ (Destroy /\ ~shutdown_initiated)
    <3>1. /\ queue_mtx["workers"] = NoThread
          /\ \E u, l : l # "wait" /\ pc' = [pc EXCEPT ![u] = l]
      BY <2>3 DEF Shutdown, Destroy, SetShutdownFlag, QueueUnlocked, Goto
    <3>2. QED  BY <1>2, <1>3, <3>1 DEF IdleInv
  <2>4. CASE \/ SubmitPacket(t) \/ ReleasePacket(t) \/ Dispatch_Loop(t)
             \/ Dispatch_Lock(t) \/ Dispatch_Wait(t) \/ SpuriousWakeup(t)
             \/ DoUITaskStep \/ Destroy_Join \/ (Destroy /\ shutdown_initiated)
    <3>1. /\ UNCHANGED shutdown_initiated
          /\ \E u, l : l # "wait" /\ pc' = [pc EXCEPT ![u] = l]
      BY <2>4 DEF SubmitPacket, ReleasePacket, Dispatch_Loop, Dispatch_Lock,
         Dispatch_Wait, SpuriousWakeup, DoUITaskStep, Destroy_Join, Destroy, Goto
    <3>2. QED  BY <1>1, <1>2, <2>1, <3>1
  <2>5. CASE Submit_NotifyOne(t) \/ Shutdown_NotifyAll(t)
    <3>1. /\ UNCHANGED shutdown_initiated
          /\ \A w \in Workers : pc'[w] = "wait" => pc[w] = "wait"
      BY <1>2, <2>5 DEF Submit_NotifyOne, Shutdown_NotifyAll, Goto
    <3>2. QED  BY <1>1, <2>1, <3>1
  <2>6. QED  BY <1>4, <2>2, <2>3, <2>4, <2>5 DEF Quiet
<1>5. ASSUME NEW t \in Threads, Submit_EnqueueUI(t) \/ Submit_EnqueueWorkers(t)
      PROVE  IdleInv'
  <2>1. /\ UNCHANGED shutdown_initiated
        /\ \E l : l # "wait" /\ pc' = [pc EXCEPT ![t] = l]
    BY <1>5 DEF Submit_EnqueueUI, Submit_EnqueueWorkers, Enqueue, Goto
  <2>2. \/ tasks'["workers"] = tasks["workers"]
        \/ queue_mtx["workers"] = NoThread
    <3>1. tasks \in [Queues -> SUBSET TaskType]
      BY DEF IInv, TypeOK
    <3>2. CASE Submit_EnqueueUI(t)
      BY <3>1, <3>2 DEF Submit_EnqueueUI, Enqueue, Queues
    <3>3. CASE Submit_EnqueueWorkers(t)
      <4> DEFINE sinks == NormalSubscribers(filling[t].source_id)
      <4>1. /\ sinks # {} => queue_mtx["workers"] = NoThread
            /\ tasks' = [tasks EXCEPT !["workers"] = @ \cup TasksFor(filling[t], sinks)]
        BY <3>3 DEF Submit_EnqueueWorkers, Enqueue, QueueUnlocked
      <4>2. sinks = {} => TasksFor(filling[t], sinks) = {}
        BY DEF TasksFor
      <4>3. QED  BY <3>1, <4>1, <4>2 DEF Queues
    <3>4. QED  BY <1>5, <3>2, <3>3
  <2>3. QED  BY <1>1, <1>2, <1>3, <2>1, <2>2 DEF IdleInv
<1>6. ASSUME NEW t \in Threads,
             \/ \E s \in Sources : GetPacketForSubmission(t, s)
             \/ \E k \in Sinks : Subscribe(t, k) \/ Unsubscribe(t, k)
             \/ Subscribe_Return(t) \/ CallbackReturns(t) \/ Submit_Lock(t)
             \/ Submit_Finish(t) \/ Release_Locked(t)
      PROVE  IdleInv'
  <2>1. UNCHANGED <<shutdown_initiated, tasks>>
    BY <1>6 DEF GetPacketForSubmission, Subscribe, Unsubscribe, Subscribe_Return,
       CallbackReturns, Submit_Lock, Submit_Finish, Release_Locked, queueVars
  <2>2. \E l : l # "wait" /\ (pc' = pc \/ pc' = [pc EXCEPT ![t] = l])
    <3>1. CASE CallbackReturns(t)
      <4>1. AfterRound(t) # "wait" /\ pc' = [pc EXCEPT ![t] = AfterRound(t)]
        BY <3>1 DEF CallbackReturns, Goto, AfterRound
      <4>2. QED  BY <4>1
    <3>2. CASE ~CallbackReturns(t)
      <4>1. \/ pc' = pc
            \/ \E l \in {"subscribed", "client", "enqueue_UI"} :
                 pc' = [pc EXCEPT ![t] = l]
        BY <1>6, <3>2 DEF GetPacketForSubmission, Subscribe, Unsubscribe,
           Subscribe_Return, Submit_Lock, Submit_Finish, Release_Locked, Goto
      <4>2. QED  BY <4>1
    <3>3. QED  BY <3>1, <3>2
  <2>3. \A w \in Workers : pc'[w] = "wait" => pc[w] = "wait"
    BY <1>2, <2>2
  <2>4. QED  BY <1>1, <2>1, <2>3
<1>7. ASSUME NEW t \in Threads, Dispatch_Pop(t) PROVE IdleInv'
  <2>1. /\ UNCHANGED shutdown_initiated /\ pc' = [pc EXCEPT ![t] = "client"]
        /\ \E k : tasks' = [tasks EXCEPT ![Queue(t)] = @ \ {k}]
    BY <1>7 DEF Dispatch_Pop, Goto
  <2>2. tasks'["workers"] \subseteq tasks["workers"]
    BY <2>1 DEF IInv, TypeOK, Queues
  <2>3. QED  BY <1>1, <1>2, <2>1, <2>2
<1>8. CASE UNCHANGED vars
  BY <1>1, <1>8 DEF vars, queueVars
<1>9. QED  BY <1>4, <1>5, <1>6, <1>7, <1>8, Steps

\* Places from which a worker gets to the queue without being woken.
Heading == {"loop", "lock", "test", "pop"}

\* A thread moves that neither announces tasks, nor stops the workers, nor is a
\* worker leaving the way to the queue.
LEMMA Calm ==
  ASSUME IInv, IInv', WakeInv, UNCHANGED shutdown_initiated,
         waiting' \subseteq waiting, tasks'["workers"] \subseteq tasks["workers"],
         \A u \in Threads :
           /\ pc[u] = "notify" /\ notifies[u] > 0 =>
                pc'[u] = "notify" /\ notifies'[u] = notifies[u]
           /\ pc[u] \in Stopping => pc'[u] \in Stopping
           /\ u \in Workers /\ pc[u] \in Heading => pc'[u] \in Heading
  PROVE  WakeInv'
<1>1. /\ IsFiniteSet(Announced) /\ IsFiniteSet(Dispatching)
      /\ IsFiniteSet(Announced') /\ IsFiniteSet(Dispatching')
  BY CountableNow, CountableNext DEF CountableSets, IInv, TypeOK
<1>2. Announced \subseteq Announced'
  <2>1. ASSUME NEW x \in Announced PROVE x \in Announced'
    <3>1. PICK u \in Threads : pc[u] = "notify" /\ x \in {u} \X (1 .. notifies[u])
      BY <2>1 DEF Announced
    <3>2. notifies[u] > 0
      BY <3>1 DEF IInv, TypeOK
    <3>3. pc'[u] = "notify" /\ notifies'[u] = notifies[u]
      BY <3>1, <3>2
    <3>4. QED  BY <3>1, <3>3 DEF Announced
  <2>2. QED  BY <2>1
<1>3. Dispatching \subseteq Dispatching'
  BY DEF Dispatching, Heading, Threads
<1>4. /\ IsFiniteSet(tasks'["workers"])
      /\ Cardinality(tasks'["workers"]) <= Cardinality(tasks["workers"])
  BY FS_Subset DEF WakeInv
<1>5. /\ Cardinality(Announced) <= Cardinality(Announced')
      /\ Cardinality(Dispatching) <= Cardinality(Dispatching')
  BY <1>1, <1>2, <1>3, FS_Subset
<1>6. /\ Cardinality(Announced) \in Nat /\ Cardinality(Dispatching) \in Nat
      /\ Cardinality(Announced') \in Nat /\ Cardinality(Dispatching') \in Nat
      /\ Cardinality(tasks["workers"]) \in Nat
      /\ Cardinality(tasks'["workers"]) \in Nat
  BY <1>1, <1>4, FS_CardinalityType DEF WakeInv
<1>7. CASE waiting = {}
  BY <1>4, <1>7 DEF WakeInv
<1>8. CASE waiting # {} /\ shutdown_initiated
  BY <1>4, <1>8 DEF WakeInv
<1>9. CASE waiting # {} /\ ~shutdown_initiated
  <2>1. Cardinality(tasks["workers"]) <= Cardinality(Announced) + Cardinality(Dispatching)
    BY <1>9 DEF WakeInv
  <2>2. Cardinality(tasks'["workers"]) <=
          Cardinality(Announced') + Cardinality(Dispatching')
    BY <1>4, <1>5, <1>6, <2>1
  <2>3. QED  BY <1>4, <1>9, <2>2 DEF WakeInv
<1>10. QED  BY <1>7, <1>8, <1>9

\* The usual case: one thread moves.
LEMMA CalmMove ==
  ASSUME IInv, IInv', WakeInv, UNCHANGED shutdown_initiated,
         waiting' \subseteq waiting, tasks'["workers"] \subseteq tasks["workers"],
         NEW t \in Threads, NEW l,
         pc' = pc \/ pc' = [pc EXCEPT ![t] = l],
         notifies' = notifies \/ \E n : notifies' = [notifies EXCEPT ![t] = n],
         pc[t] = "notify" => notifies[t] = 0,
         pc[t] \notin Stopping,
         t \in Workers /\ pc[t] \in Heading => l \in Heading
  PROVE  WakeInv'
<1>1. pc \in [Threads -> Locations] /\ notifies \in [Threads -> Nat]
  BY DEF IInv, TypeOK
<1>2. \A u \in Threads :
        u # t => pc'[u] = pc[u] /\ notifies'[u] = notifies[u]
  BY <1>1
<1>3. pc'[t] = pc[t] \/ pc'[t] = l
  BY <1>1
<1>4. ASSUME NEW u \in Threads
      PROVE  /\ pc[u] = "notify" /\ notifies[u] > 0 =>
                  pc'[u] = "notify" /\ notifies'[u] = notifies[u]
             /\ pc[u] \in Stopping => pc'[u] \in Stopping
             /\ u \in Workers /\ pc[u] \in Heading => pc'[u] \in Heading
  BY <1>1, <1>2, <1>3
<1>5. QED  BY <1>4, Calm

\* With no task in the queue there is nothing to lose.
LEMMA Empty ==
  ASSUME IInv', tasks'["workers"] = {}, ~shutdown_initiated'
  PROVE  WakeInv'
<1>1. IsFiniteSet(Announced') /\ IsFiniteSet(Dispatching')
  BY CountableNext DEF CountableSets, IInv, TypeOK
<1>2. Cardinality(Announced') \in Nat /\ Cardinality(Dispatching') \in Nat
  BY <1>1, FS_CardinalityType
<1>3. IsFiniteSet(tasks'["workers"]) /\ Cardinality(tasks'["workers"]) = 0
  BY FS_EmptySet
<1>4. Cardinality(tasks'["workers"]) <= Cardinality(Announced') + Cardinality(Dispatching')
  BY <1>2, <1>3
<1>5. QED  BY <1>3, <1>4 DEF WakeInv

\* notify_one: one wake-up less to come, one worker more on his way.
LEMMA NotifyWakes ==
  ASSUME IInv, IInv', WakeInv, NEW t \in Threads, Submit_NotifyOne(t)
  PROVE  WakeInv'
<1>1. /\ pc[t] = "notify" /\ notifies[t] > 0
      /\ notifies' = [notifies EXCEPT ![t] = notifies[t] - 1]
      /\ UNCHANGED <<tasks, shutdown_initiated>>
  BY DEF Submit_NotifyOne
<1>2. /\ pc \in [Threads -> Locations] /\ notifies \in [Threads -> Nat]
      /\ waiting \subseteq Workers /\ Workers \subseteq Threads
      /\ \A w \in waiting : pc[w] = "waiting"
  BY DEF IInv, TypeOK, CallInv, Threads
<1>3. CASE waiting = {}
  <2>1. waiting' = {} /\ tasks' = tasks
    BY <1>1, <1>3 DEF Submit_NotifyOne
  <2>2. QED  BY <2>1 DEF WakeInv
<1>4. CASE waiting # {}
  <2>1. PICK w \in waiting :
          waiting' = waiting \ {w} /\ pc' = [pc EXCEPT ![w] = "lock"]
    BY <1>4 DEF Submit_NotifyOne, Goto
  <2>2. /\ w \in Workers /\ w # t /\ pc[w] = "waiting"
        /\ pc'[w] = "lock" /\ \A u \in Threads : u # w => pc'[u] = pc[u]
        /\ notifies'[t] = notifies[t] - 1
        /\ \A u \in Threads : u # t => notifies'[u] = notifies[u]
    BY <1>1, <1>2, <2>1
  <2>3. CASE shutdown_initiated
    <3>1. \A u \in Threads : pc[u] \in Stopping => pc'[u] \in Stopping
      BY <2>2 DEF Stopping
    <3>2. QED  BY <1>1, <1>4, <2>3, <3>1 DEF WakeInv
  <2>4. CASE ~shutdown_initiated
    <3>1. /\ IsFiniteSet(Announced) /\ IsFiniteSet(Dispatching)
          /\ IsFiniteSet(Announced') /\ IsFiniteSet(Dispatching')
      BY CountableNow, CountableNext DEF CountableSets, IInv, TypeOK
    <3>2. Dispatching' = Dispatching \cup {w} /\ w \notin Dispatching
      BY <1>2, <2>2 DEF Dispatching
    <3>3. Announced \ {<<t, notifies[t]>>} \subseteq Announced'
      <4>1. ASSUME NEW x \in Announced, x # <<t, notifies[t]>> PROVE x \in Announced'
        <5>1. PICK u \in Threads, n \in Nat :
                pc[u] = "notify" /\ n \in 1 .. notifies[u] /\ x = <<u, n>>
          BY <4>1 DEF Announced
        <5>2. pc'[u] = "notify"
          BY <2>2, <5>1
        <5>3. n \in 1 .. notifies'[u]
          BY <1>2, <2>2, <4>1, <5>1
        <5>4. QED  BY <5>1, <5>2, <5>3 DEF Announced
      <4>2. QED  BY <4>1
    <3>4. Cardinality(Announced \ {<<t, notifies[t]>>}) <= Cardinality(Announced')
      BY <3>1, <3>3, FS_Subset
    <3>5. Cardinality(Announced) - 1 <= Cardinality(Announced \ {<<t, notifies[t]>>})
      <4>1. Cardinality(Announced) \in Nat
        BY <3>1, FS_CardinalityType
      <4>2. Cardinality(Announced \ {<<t, notifies[t]>>}) =
              IF <<t, notifies[t]>> \in Announced THEN Cardinality(Announced) - 1
                                                  ELSE Cardinality(Announced)
        BY <3>1, FS_RemoveElement
      <4>3. QED  BY <4>1, <4>2
    <3>6. Cardinality(Dispatching') = Cardinality(Dispatching) + 1
      BY <3>1, <3>2, FS_AddElement
    <3>7. /\ Cardinality(Announced) \in Nat /\ Cardinality(Announced') \in Nat
          /\ Cardinality(Announced \ {<<t, notifies[t]>>}) \in Nat
          /\ Cardinality(Dispatching) \in Nat /\ Cardinality(tasks["workers"]) \in Nat
      BY <3>1, FS_CardinalityType, FS_RemoveElement DEF WakeInv
    <3>8. Cardinality(tasks["workers"]) <= Cardinality(Announced) + Cardinality(Dispatching)
      BY <1>4, <2>4 DEF WakeInv
    <3>9. Cardinality(tasks["workers"]) <= Cardinality(Announced') + Cardinality(Dispatching')
      BY <3>4, <3>5, <3>6, <3>7, <3>8
    <3>10. QED  BY <1>1, <2>4, <3>9 DEF WakeInv
  <2>5. QED  BY <2>3, <2>4
<1>5. QED  BY <1>3, <1>4

\* Queueing: as many tasks more as wake-ups are announced from now on.
LEMMA QueueingWakes ==
  ASSUME IInv, IInv', CountInv, WakeInv, NEW t \in Threads, Submit_EnqueueWorkers(t)
  PROVE  WakeInv'
<1> DEFINE sinks == NormalSubscribers(filling[t].source_id)
           new   == TasksFor(filling[t], sinks)
           mine  == {t} \X (1 .. notifies[t])
<1>1. /\ pc[t] = "enqueue_workers" /\ pc' = [pc EXCEPT ![t] = "notify"]
      /\ tasks' = [tasks EXCEPT !["workers"] = @ \cup new]
      /\ UNCHANGED <<waiting, notifies, shutdown_initiated>>
  BY DEF Submit_EnqueueWorkers, Enqueue, Goto, callVars
<1>2. /\ pc \in [Threads -> Locations] /\ notifies \in [Threads -> Nat]
      /\ Workers \subseteq Threads
      /\ tasks'["workers"] = tasks["workers"] \cup new
  BY <1>1 DEF IInv, TypeOK, Threads, Queues
<1>3. pc'[t] = "notify" /\ \A u \in Threads : u # t => pc'[u] = pc[u]
  BY <1>1, <1>2
<1>4. /\ IsFiniteSet(Announced) /\ IsFiniteSet(Dispatching)
      /\ IsFiniteSet(Announced') /\ IsFiniteSet(Dispatching')
  BY CountableNow, CountableNext DEF CountableSets, IInv, TypeOK
<1>5. IsFiniteSet(new) /\ Cardinality(new) = notifies[t]
  <2>1. IsFiniteSet(sinks)
    <3>1. filling[t].source_id \in Sources
      BY <1>1 DEF IInv, CallInv, TypeOK, Publications, FillingType
    <3>2. QED  BY <3>1, SinksFinite DEF IInv
  <2>2. notifies[t] = Cardinality(sinks)
    BY <1>1 DEF CountInv, Enqueueing
  <2>3. QED  BY <2>1, <2>2, TasksForCount
<1>6. /\ IsFiniteSet(tasks'["workers"])
      /\ Cardinality(tasks'["workers"]) <= Cardinality(tasks["workers"]) + notifies[t]
  <2>1. IsFiniteSet(tasks["workers"])
    BY DEF WakeInv
  <2>2. /\ IsFiniteSet(tasks["workers"] \cup new)
        /\ Cardinality(tasks["workers"] \cup new) =
             Cardinality(tasks["workers"]) + Cardinality(new)
               - Cardinality(tasks["workers"] \cap new)
    BY <1>5, <2>1, FS_Union
  <2>3. Cardinality(tasks["workers"] \cap new) \in Nat /\ Cardinality(tasks["workers"]) \in Nat
    BY <2>1, FS_Subset, FS_CardinalityType
  <2>4. QED  BY <1>2, <1>5, <2>2, <2>3
<1>7. Announced \cup mine \subseteq Announced' /\ Announced \cap mine = {}
  <2>1. ASSUME NEW x \in Announced PROVE x \in Announced' /\ x \notin mine
    <3>1. PICK u \in Threads, n \in Nat :
            pc[u] = "notify" /\ n \in 1 .. notifies[u] /\ x = <<u, n>>
      BY <2>1, <1>2 DEF Announced
    <3>2. u # t
      BY <1>1, <3>1
    <3>3. pc'[u] = "notify" /\ notifies'[u] = notifies[u]
      BY <1>1, <1>3, <3>1, <3>2
    <3>4. QED  BY <3>1, <3>2, <3>3 DEF Announced
  <2>2. mine \subseteq Announced'
    BY <1>1, <1>3 DEF Announced
  <2>3. QED  BY <2>1, <2>2
<1>8. Cardinality(Announced) + notifies[t] <= Cardinality(Announced')
  <2>1. notifies[t] \in Nat
    BY <1>2
  <2>2. IsFiniteSet(1 .. notifies[t]) /\ Cardinality(1 .. notifies[t]) = notifies[t]
    <3>1. ASSUME NEW n \in Nat PROVE IsFiniteSet(1 .. n) /\ Cardinality(1 .. n) = n
      <4>1. Cardinality(1 .. n) = IF 1 > n THEN 0 ELSE n - 1 + 1
        BY FS_Interval
      <4>2. QED  BY <4>1, FS_Interval
    <3>2. QED  BY <2>1, <3>1
  <2>3. IsFiniteSet({t}) /\ Cardinality({t}) = 1
    BY FS_Singleton
  <2>4. IsFiniteSet(mine) /\ Cardinality(mine) = notifies[t]
    <3>1. /\ IsFiniteSet(mine)
          /\ Cardinality(mine) = Cardinality({t}) * Cardinality(1 .. notifies[t])
      <4>1. IsFiniteSet({t}) /\ IsFiniteSet(1 .. notifies[t])
        BY <2>2, <2>3
      <4>2. QED  BY <4>1, FS_Product
    <3>2. QED  BY <2>1, <2>2, <2>3, <3>1
  <2>5. Cardinality(Announced \cup mine) =
          Cardinality(Announced) + Cardinality(mine) - Cardinality(Announced \cap mine)
    BY <1>4, <2>4, FS_Union
  <2>6. Cardinality(Announced \cap mine) = 0
    BY <1>7, FS_EmptySet
  <2>7. Cardinality(Announced \cup mine) <= Cardinality(Announced')
    BY <1>4, <1>7, FS_Subset
  <2>8. Cardinality(Announced) \in Nat
    BY <1>4, FS_CardinalityType
  <2>9. QED  BY <2>1, <2>4, <2>5, <2>6, <2>7, <2>8
<1>9. Dispatching \subseteq Dispatching'
  BY <1>1, <1>2, <1>3 DEF Dispatching
<1>10. CASE waiting = {}
  BY <1>1, <1>6, <1>10 DEF WakeInv
<1>11. CASE waiting # {} /\ shutdown_initiated
  <2>1. \A u \in Threads : pc[u] \in Stopping => pc'[u] \in Stopping
    BY <1>1, <1>3 DEF Stopping
  <2>2. QED  BY <1>1, <1>6, <1>11, <2>1 DEF WakeInv
<1>12. CASE waiting # {} /\ ~shutdown_initiated
  <2>1. Cardinality(tasks["workers"]) <= Cardinality(Announced) + Cardinality(Dispatching)
    BY <1>12 DEF WakeInv
  <2>2. Cardinality(Dispatching) <= Cardinality(Dispatching')
    BY <1>4, <1>9, FS_Subset
  <2>3. /\ Cardinality(Announced) \in Nat /\ Cardinality(Dispatching) \in Nat
        /\ Cardinality(Announced') \in Nat /\ Cardinality(Dispatching') \in Nat
        /\ Cardinality(tasks["workers"]) \in Nat
        /\ Cardinality(tasks'["workers"]) \in Nat /\ notifies[t] \in Nat
    BY <1>2, <1>4, <1>6, FS_CardinalityType DEF WakeInv
  <2>4. Cardinality(tasks'["workers"]) <= Cardinality(Announced') + Cardinality(Dispatching')
    BY <1>6, <1>8, <2>1, <2>2, <2>3
  <2>5. QED  BY <1>1, <1>6, <1>12, <2>4 DEF WakeInv
<1>13. QED  BY <1>10, <1>11, <1>12

\* A worker that takes a task is one less on his way.
LEMMA PopWakes ==
  ASSUME IInv, IInv', MutexInv, WakeInv, NEW t \in Threads, Dispatch_Pop(t)
  PROVE  WakeInv'
<1>1. /\ pc[t] = "pop" /\ pc' = [pc EXCEPT ![t] = "client"]
      /\ UNCHANGED <<waiting, notifies, shutdown_initiated>>
  BY DEF Dispatch_Pop, Goto
<1>2. /\ pc \in [Threads -> Locations] /\ tasks \in [Queues -> SUBSET TaskType]
      /\ Workers \subseteq Threads /\ UI \notin Workers
  BY ThreadAssumption DEF IInv, TypeOK, Threads
<1>3. PICK k \in tasks[Queue(t)] : tasks' = [tasks EXCEPT ![Queue(t)] = @ \ {k}]
  BY DEF Dispatch_Pop, Top
<1>4. tasks'["workers"] \subseteq tasks["workers"]
  BY <1>2, <1>3 DEF Queues
<1>5. CASE t \notin Workers
  BY <1>1, <1>4, <1>5, CalmMove DEF Stopping
<1>6. CASE t \in Workers
  <2>1. k \in tasks["workers"] /\ tasks'["workers"] = tasks["workers"] \ {k}
    BY <1>2, <1>3, <1>6 DEF Queue, Queues
  <2>2. ~shutdown_initiated
    BY <1>1, <1>2, <1>6 DEF MutexInv
  <2>3. /\ IsFiniteSet(Announced) /\ IsFiniteSet(Dispatching)
        /\ IsFiniteSet(Announced') /\ IsFiniteSet(Dispatching')
        /\ IsFiniteSet(tasks["workers"])
    BY CountableNow, CountableNext DEF CountableSets, IInv, TypeOK, WakeInv
  <2>4. Announced' = Announced
    <3>1. {u \in Threads : pc'[u] = "notify"} = {u \in Threads : pc[u] = "notify"}
      BY <1>1, <1>2
    <3>2. QED  BY <1>1, <3>1 DEF Announced
  <2>5. t \in Dispatching /\ Dispatching' = Dispatching \ {t}
    BY <1>1, <1>2, <1>6 DEF Dispatching
  <2>6. Cardinality(Dispatching') = Cardinality(Dispatching) - 1
    BY <2>3, <2>5, FS_RemoveElement
  <2>7. /\ IsFiniteSet(tasks'["workers"])
        /\ Cardinality(tasks'["workers"]) = Cardinality(tasks["workers"]) - 1
    BY <2>1, <2>3, FS_RemoveElement
  <2>8. CASE waiting = {}
    BY <1>1, <2>7, <2>8 DEF WakeInv
  <2>9. CASE waiting # {}
    <3>1. Cardinality(tasks["workers"]) <= Cardinality(Announced) + Cardinality(Dispatching)
      BY <2>2, <2>9 DEF WakeInv
    <3>2. /\ Cardinality(Announced) \in Nat /\ Cardinality(Dispatching) \in Nat
          /\ Cardinality(tasks["workers"]) \in Nat
      BY <2>3, FS_CardinalityType
    <3>3. Cardinality(tasks'["workers"]) <= Cardinality(Announced') + Cardinality(Dispatching')
      BY <2>4, <2>6, <2>7, <3>1, <3>2
    <3>4. QED  BY <1>1, <2>2, <2>7, <3>3 DEF WakeInv
  <2>10. QED  BY <2>8, <2>9
<1>7. QED  BY <1>5, <1>6

\* Steps in which threads only move.
LEMMA QuietWakes ==
  ASSUME IInv, IInv', MutexInv, IdleInv, WakeInv, NEW t \in Threads, Quiet(t)
  PROVE  WakeInv'
<1>1. /\ tasks' = tasks
      /\ pc \in [Threads -> Locations] /\ waiting \subseteq Workers
      /\ Workers \subseteq Threads /\ UI \in Threads /\ UI \notin Workers
      /\ IsFiniteSet(tasks["workers"])
  BY QuietMoves, ThreadAssumption DEF IInv, TypeOK, Threads, WakeInv
<1>2. ASSUME UNCHANGED <<shutdown_initiated, notifies>>, waiting' \subseteq waiting,
             NEW u \in Threads, NEW l, pc' = [pc EXCEPT ![u] = l],
             pc[u] # "notify", pc[u] \notin Stopping,
             u \in Workers /\ pc[u] \in Heading => l \in Heading
      PROVE  WakeInv'
  BY <1>1, <1>2, CalmMove
<1>3. CASE \/ SubmitPacket(t) \/ ReleasePacket(t) \/ Dispatch_Lock(t)
           \/ SpuriousWakeup(t)
  <2>1. PICK l \in {"submit", "release", "test", "lock"} :
          pc' = [pc EXCEPT ![t] = l] /\ (pc[t] \in Heading => l \in Heading)
    BY <1>3 DEF SubmitPacket, ReleasePacket, Dispatch_Lock, SpuriousWakeup, Goto,
       InClientCode, Heading
  <2>2. /\ UNCHANGED <<shutdown_initiated, notifies>> /\ waiting' \subseteq waiting
        /\ pc[t] \in {"client", "lock", "waiting"}
    BY <1>1, <1>3 DEF SubmitPacket, ReleasePacket, Dispatch_Lock, SpuriousWakeup,
       InClientCode, queueVars, callVars, IInv, CallInv
  <2>3. QED  BY <1>2, <2>1, <2>2 DEF Stopping
<1>4. CASE DoUITaskStep \/ Destroy_Join \/ (Destroy /\ shutdown_initiated)
  <2>1. /\ UNCHANGED <<shutdown_initiated, notifies, waiting>>
        /\ pc[UI] \in {"client", "join"}
        /\ \E l : pc' = [pc EXCEPT ![UI] = l]
    BY <1>4 DEF DoUITaskStep, Destroy_Join, Destroy, Goto, InClientCode, queueVars,
       callVars
  <2>2. QED  BY <1>1, <1>2, <2>1 DEF Stopping
<1>5. CASE Shutdown(t) \/ (Destroy /\ ~shutdown_initiated)
  <2>1. /\ shutdown_initiated'
        /\ \/ pc' = [pc EXCEPT ![t] = "notify_all"]
           \/ pc' = [pc EXCEPT ![UI] = "destroy_notify"]
    BY <1>5 DEF Shutdown, Destroy, SetShutdownFlag, Goto
  <2>2. \E u \in Threads : pc'[u] \in Stopping
    BY <1>1, <2>1 DEF Stopping
  <2>3. QED  BY <1>1, <2>1, <2>2 DEF WakeInv
<1>6. CASE Shutdown_NotifyAll(t)
  <2>1. waiting' = {}
    BY <1>6 DEF Shutdown_NotifyAll
  <2>2. QED  BY <1>1, <2>1 DEF WakeInv
<1>7. CASE Dispatch_Wait(t)
  <2>1. /\ pc[t] = "wait" /\ UNCHANGED shutdown_initiated
        /\ UNCHANGED notifies /\ pc' = [pc EXCEPT ![t] = "waiting"]
    BY <1>7 DEF Dispatch_Wait, Goto, callVars
  <2>2. CASE t \in Workers
    BY <1>1, <2>1, <2>2, Empty DEF IdleInv
  <2>3. CASE t \notin Workers
    BY <2>1, <2>3 DEF IInv, CallInv
  <2>4. QED  BY <2>2, <2>3
<1>8. CASE Dispatch_Test(t)
  <2>1. /\ pc[t] = "test" /\ UNCHANGED <<shutdown_initiated, notifies, waiting>>
    BY <1>8 DEF Dispatch_Test, callVars
  <2>2. CASE pc' = [pc EXCEPT ![t] = "wait"] /\ t \in Workers
    <3>1. tasks["workers"] = {} /\ ~shutdown_initiated
      BY <1>1, <1>8, <2>1, <2>2 DEF Dispatch_Test, Goto, AfterRound, Queue
    <3>2. QED  BY <1>1, <2>1, <3>1, Empty
  <2>3. CASE ~(pc' = [pc EXCEPT ![t] = "wait"] /\ t \in Workers)
    <3>1. PICK l \in {"pop", "wait", "loop", "client"} :
            pc' = [pc EXCEPT ![t] = l] /\ (t \in Workers => l \in {"pop", "loop"})
      BY <1>1, <1>8, <2>3 DEF Dispatch_Test, Goto, AfterRound
    <3>2. QED  BY <1>2, <2>1, <3>1 DEF Stopping, Heading
  <2>4. QED  BY <2>2, <2>3
<1>9. CASE Dispatch_Loop(t)
  <2>1. /\ pc[t] = "loop" /\ UNCHANGED <<shutdown_initiated, notifies, waiting>>
        /\ pc' = [pc EXCEPT ![t] = IF ~shutdown_initiated THEN "lock"
                                   ELSE IF t = UI THEN "client" ELSE "done"]
    BY <1>9 DEF Dispatch_Loop, Goto, queueVars, callVars
  <2>2. CASE ~shutdown_initiated
    <3>1. pc' = [pc EXCEPT ![t] = "lock"]
      BY <2>1, <2>2
    <3>2. QED  BY <1>2, <2>1, <3>1 DEF Stopping, Heading
  <2>3. CASE shutdown_initiated
    <3>1. \A u \in Threads : pc[u] \in Stopping => pc'[u] \in Stopping
      BY <1>1, <2>1 DEF Stopping
    <3>2. QED  BY <1>1, <2>1, <2>3, <3>1 DEF WakeInv
  <2>4. QED  BY <2>2, <2>3
<1>10. CASE Submit_NotifyOne(t)
  BY <1>10, NotifyWakes
<1>11. QED
  BY <1>3, <1>4, <1>5, <1>6, <1>7, <1>8, <1>9, <1>10 DEF Quiet

LEMMA WakeStep ==
  ASSUME IInv, IInv', MutexInv, CountInv, IdleInv, WakeInv, [Next]_vars
  PROVE  WakeInv'
<1>1. pc \in [Threads -> Locations] /\ tasks \in [Queues -> SUBSET TaskType]
  BY DEF IInv, TypeOK
<1>2. ASSUME UNCHANGED <<shutdown_initiated, waiting>>,
             tasks'["workers"] \subseteq tasks["workers"],
             NEW t \in Threads, NEW l, pc' = pc \/ pc' = [pc EXCEPT ![t] = l],
             notifies' = notifies \/ \E n : notifies' = [notifies EXCEPT ![t] = n],
             pc[t] = "notify" => notifies[t] = 0,
             pc[t] \notin Stopping \cup Heading
      PROVE  WakeInv'
  BY <1>2, CalmMove
<1>3. ASSUME NEW t \in Threads,
             \/ \E s \in Sources : GetPacketForSubmission(t, s)
             \/ \E k \in Sinks : Subscribe(t, k) \/ Unsubscribe(t, k)
             \/ Subscribe_Return(t) \/ Submit_Lock(t) \/ Submit_Finish(t)
             \/ Release_Locked(t)
      PROVE  WakeInv'
  <2>1. PICK l \in {"subscribed", "client", "enqueue_UI"} :
          pc' = pc \/ pc' = [pc EXCEPT ![t] = l]
    BY <1>3 DEF GetPacketForSubmission, Subscribe, Unsubscribe, Subscribe_Return,
       Submit_Lock, Submit_Finish, Release_Locked, Goto
  <2>2. UNCHANGED <<shutdown_initiated, waiting, tasks>>
    BY <1>3 DEF GetPacketForSubmission, Subscribe, Unsubscribe, Subscribe_Return,
       Submit_Lock, Submit_Finish, Release_Locked, queueVars
  <2>3. notifies' = notifies \/ \E n : notifies' = [notifies EXCEPT ![t] = n]
    BY <1>3 DEF GetPacketForSubmission, Subscribe, Unsubscribe, Subscribe_Return,
       Submit_Lock, Submit_Finish, Release_Locked, callVars
  <2>4. /\ pc[t] \in {"client", "subscribed", "submit", "release", "notify"}
        /\ pc[t] = "notify" => notifies[t] = 0
    BY <1>3 DEF GetPacketForSubmission, Subscribe, Unsubscribe, Subscribe_Return,
       Submit_Lock, Submit_Finish, Release_Locked, InClientCode
  <2>5. QED  BY <1>2, <2>1, <2>2, <2>3, <2>4 DEF Stopping, Heading
<1>4. ASSUME NEW t \in Threads, CallbackReturns(t) PROVE WakeInv'
  <2>1. /\ UNCHANGED <<shutdown_initiated, waiting, tasks, notifies>>
        /\ pc[t] = "client" /\ pc' = [pc EXCEPT ![t] = AfterRound(t)]
    BY <1>4 DEF CallbackReturns, InClientCode, Goto, queueVars
  <2>2. QED  BY <1>2, <2>1 DEF Stopping, Heading
<1>5. ASSUME NEW t \in Threads, Submit_EnqueueUI(t) PROVE WakeInv'
  <2>1. /\ UNCHANGED <<shutdown_initiated, waiting, notifies>>
        /\ pc[t] = "enqueue_UI" /\ pc' = [pc EXCEPT ![t] = "enqueue_workers"]
        /\ \E new : tasks' = [tasks EXCEPT !["UI"] = new]
    BY <1>5 DEF Submit_EnqueueUI, Enqueue, Goto, callVars
  <2>2. tasks'["workers"] \subseteq tasks["workers"]
    BY <1>1, <2>1 DEF Queues
  <2>3. QED  BY <1>2, <2>1, <2>2 DEF Stopping, Heading
<1>6. ASSUME UNCHANGED vars PROVE WakeInv'
  BY <1>6, Calm DEF vars, queueVars, callVars
<1>7. QED
  BY <1>3, <1>4, <1>5, <1>6, QuietWakes, QueueingWakes, PopWakes, Steps

LEMMA WaitHolds == Spec => []WaitInv
<1>1. ASSUME IInv, IInv', MutexInv, WaitInv, [Next]_vars PROVE WaitInv'
  BY <1>1, CountStep, IdleStep, WakeStep DEF WaitInv
<1>2. QED  BY <1>1, WaitInit, Invariance, MutexHolds, PTL DEF Spec

\* However many threads submit, dispatch and shut down, as long as a worker sleeps
\* every task in the queue has its wake-up, and Shutdown's is still to come.
THEOREM NothingMissed == Spec => []NoLostWakeup
<1>1. ASSUME IInv, WaitInv PROVE NoLostWakeup
  <2>1. CASE waiting = {}
    BY <2>1 DEF NoLostWakeup
  <2>2. CASE waiting # {} /\ shutdown_initiated
    BY <1>1, <2>2 DEF NoLostWakeup, WaitInv, WakeInv, Stopping
  <2>3. CASE waiting # {} /\ ~shutdown_initiated
    <3>1. /\ IsFiniteSet(PendingNotifies) /\ Announced \subseteq PendingNotifies
          /\ IsFiniteSet(Announced) /\ IsFiniteSet(Dispatching)
          /\ IsFiniteSet(tasks["workers"])
      BY <1>1, Countable DEF IInv, TypeOK, WaitInv, WakeInv
    <3>2. Cardinality(Announced) <= Cardinality(PendingNotifies)
      BY <3>1, FS_Subset
    <3>3. Cardinality(tasks["workers"]) <= Cardinality(Announced) + Cardinality(Dispatching)
      BY <1>1, <2>3 DEF WaitInv, WakeInv
    <3>4. /\ Cardinality(Announced) \in Nat /\ Cardinality(PendingNotifies) \in Nat
          /\ Cardinality(Dispatching) \in Nat /\ Cardinality(tasks["workers"]) \in Nat
      BY <3>1, FS_CardinalityType
    <3>5. Cardinality(tasks["workers"]) <=
            Cardinality(PendingNotifies) + Cardinality(Dispatching)
      BY <3>2, <3>3, <3>4
    <3>6. QED  BY <2>3, <3>5 DEF NoLostWakeup
  <2>4. QED  BY <2>1, <2>2, <2>3
<1>2. QED  BY <1>1, WaitHolds, Invariance, PTL

-----------------------------------------------------------------------------
(* The packet exchange.                                                    *)

\* A sink is referenced by at most one task of a packet.
OnceInv ==
  \A s \in Sources, p \in Packets :
    \A k, l \in References(s, p) : k.sink = l.sink => k = l

LEMMA OnceInit == Init => OnceInv
  BY DEF Init, OnceInv, References, Queues

\* What publishing puts in a queue.
LEMMA EnqueueFacts ==
  ASSUME IInv, NEW t \in Threads,
         Submit_EnqueueUI(t) \/ Submit_EnqueueWorkers(t)
  PROVE  /\ filling[t] # NoPacket
         /\ UNCHANGED <<packet_usages, filling, subscriptions, running, owed,
                        unreleased>>
         /\ \E sinks :
              /\ tasks'["UI"] \cup tasks'["workers"] =
                   tasks["UI"] \cup tasks["workers"] \cup TasksFor(filling[t], sinks)
              /\ \/ /\ pc[t] = "enqueue_UI"
                    /\ pc' = [pc EXCEPT ![t] = "enqueue_workers"]
                    /\ sinks = UISubscribers(filling[t].source_id)
                 \/ /\ pc[t] = "enqueue_workers"
                    /\ pc' = [pc EXCEPT ![t] = "notify"]
                    /\ sinks = NormalSubscribers(filling[t].source_id)
<1>1. /\ filling[t] # NoPacket
      /\ UNCHANGED <<packet_usages, filling, subscriptions, running, owed,
                     unreleased>>
  BY DEF Submit_EnqueueUI, Submit_EnqueueWorkers, Enqueue, subVars, callVars,
     IInv, CallInv, Publications
<1>2. \A sinks : \A q \in Queues :
        tasks' = [tasks EXCEPT ![q] = @ \cup TasksFor(filling[t], sinks)] =>
          tasks'["UI"] \cup tasks'["workers"] =
            tasks["UI"] \cup tasks["workers"] \cup TasksFor(filling[t], sinks)
  BY DEF IInv, TypeOK, Queues
<1>3. CASE Submit_EnqueueUI(t)
  BY <1>1, <1>2, <1>3 DEF Submit_EnqueueUI, Enqueue, Goto, Queues
<1>4. CASE Submit_EnqueueWorkers(t)
  BY <1>1, <1>2, <1>4 DEF Submit_EnqueueWorkers, Enqueue, Goto, Queues
<1>5. QED  BY <1>3, <1>4

\* It is for sinks that no task of the packet was for.
LEMMA EnqueueReferences ==
  ASSUME IInv, NEW t \in Threads,
         Submit_EnqueueUI(t) \/ Submit_EnqueueWorkers(t)
  PROVE  \E sinks : \A s \in Sources, p \in Packets :
           /\ References(s, p)' =
                References(s, p) \cup
                  (IF Fills(t, s, p) THEN TasksFor(filling[t], sinks) ELSE {})
           /\ Fills(t, s, p) => \A k \in References(s, p) : k.sink \notin sinks
<1>1. PICK sinks :
        /\ tasks'["UI"] \cup tasks'["workers"] =
             tasks["UI"] \cup tasks["workers"] \cup TasksFor(filling[t], sinks)
        /\ \/ /\ pc[t] = "enqueue_UI"
              /\ sinks = UISubscribers(filling[t].source_id)
           \/ /\ pc[t] = "enqueue_workers"
              /\ sinks = NormalSubscribers(filling[t].source_id)
  BY EnqueueFacts
<1> DEFINE new == TasksFor(filling[t], sinks)
           old == tasks["UI"] \cup tasks["workers"] \cup unreleased
                    \cup {running[u] : u \in owed}
<1>2. filling[t] # NoPacket /\ UNCHANGED <<running, owed, unreleased>>
  BY EnqueueFacts
<1>3. tasks'["UI"] \cup tasks'["workers"] \cup unreleased'
        \cup {running'[u] : u \in owed'} = old \cup new
  BY <1>1, <1>2
<1>4. \A k \in new : k.source_id = filling[t].source_id /\ k.packet = filling[t].packet
  BY DEF TasksFor
<1> HIDE DEF new, old
<1>5. \A s, p : References(s, p)' =
                  {k \in old \cup new : k.source_id = s /\ k.packet = p}
  BY <1>3 DEF References
<1>6. \A s, p : References(s, p) = {k \in old : k.source_id = s /\ k.packet = p}
  BY DEF References, old
<1>7. \A s, p : References(s, p)' =
                  References(s, p) \cup (IF Fills(t, s, p) THEN new ELSE {})
  <2> SUFFICES ASSUME NEW s, NEW p
               PROVE  References(s, p)' =
                        References(s, p) \cup (IF Fills(t, s, p) THEN new ELSE {})
    OBVIOUS
  <2>1. Fills(t, s, p) <=> s = filling[t].source_id /\ p = filling[t].packet
    BY <1>2 DEF Fills
  <2>2. QED  BY <1>4, <1>5, <1>6, <2>1
<1>8. ASSUME NEW s \in Sources, NEW p \in Packets, Fills(t, s, p),
             NEW k \in References(s, p)
      PROVE  k.sink \notin sinks
  BY <1>1, <1>8 DEF IInv, FillInv, NormalSubscribers
<1>9. QED  BY <1>7, <1>8 DEF new

LEMMA OnceStep ==
  ASSUME IInv, OnceInv, [Next]_vars
  PROVE  OnceInv'
<1>1. ASSUME \A s \in Sources, p \in Packets : References(s, p)' \subseteq References(s, p)
      PROVE  OnceInv'
  BY <1>1 DEF OnceInv
<1>2. ASSUME NEW t \in Threads, Submit_EnqueueUI(t) \/ Submit_EnqueueWorkers(t)
      PROVE  OnceInv'
  <2>1. PICK sinks : \A s \in Sources, p \in Packets :
          /\ References(s, p)' =
               References(s, p) \cup
                 (IF Fills(t, s, p) THEN TasksFor(filling[t], sinks) ELSE {})
          /\ Fills(t, s, p) => \A k \in References(s, p) : k.sink \notin sinks
    BY <1>2, EnqueueReferences
  <2>2. /\ \A k \in TasksFor(filling[t], sinks) : k.sink \in sinks
        /\ \A k, l \in TasksFor(filling[t], sinks) : k.sink = l.sink => k = l
    BY DEF TasksFor
  <2>3. QED  BY <2>1, <2>2 DEF OnceInv
<1>3. ASSUME UNCHANGED <<tasks, running, owed, unreleased>> PROVE OnceInv'
  <2>1. \A s, p : References(s, p)' = References(s, p)
    BY <1>3 DEF References
  <2>2. QED  BY <1>1, <2>1
<1>4. ASSUME NEW t \in Threads, Quiet(t) PROVE OnceInv'
  BY <1>3, <1>4, QuietMoves
<1>5. ASSUME NEW t \in Threads,
             \/ \E s \in Sources : GetPacketForSubmission(t, s)
             \/ \E k \in Sinks : Subscribe(t, k) \/ Unsubscribe(t, k)
             \/ Subscribe_Return(t) \/ Submit_Lock(t) \/ Submit_Finish(t)
      PROVE  OnceInv'
  BY <1>3, <1>5 DEF GetPacketForSubmission, Subscribe, Unsubscribe,
     Subscribe_Return, Submit_Lock, Submit_Finish, queueVars, callVars
<1>6. ASSUME NEW t \in Threads,
             Release_Locked(t) \/ CallbackReturns(t) \/ Dispatch_Pop(t)
      PROVE  OnceInv'
  <2> DEFINE Held == tasks["UI"] \cup tasks["workers"] \cup unreleased
                       \cup {running[u] : u \in owed}
             Held2 == tasks'["UI"] \cup tasks'["workers"] \cup unreleased'
                       \cup {running'[u] : u \in owed'}
  <2>1. Held2 \subseteq Held
    <3>1. CASE Release_Locked(t)
      BY <3>1 DEF Release_Locked, queueVars
    <3>2. CASE CallbackReturns(t)
      BY <3>2 DEF CallbackReturns, queueVars, IInv, TypeOK
    <3>3. CASE Dispatch_Pop(t)
      <4>1. PICK k \in tasks[Queue(t)] :
              /\ tasks' = [tasks EXCEPT ![Queue(t)] = @ \ {k}]
              /\ running' = [running EXCEPT ![t] = k]
        BY <3>3 DEF Dispatch_Pop, Top
      <4>2. Queue(t) \in Queues /\ owed' = owed \cup {t} /\ unreleased' = unreleased
        BY <3>3 DEF Dispatch_Pop, Queue, Queues
      <4>3. /\ tasks'["UI"] \subseteq tasks["UI"]
            /\ tasks'["workers"] \subseteq tasks["workers"]
            /\ k \in tasks["UI"] \cup tasks["workers"]
        BY <4>1, <4>2 DEF IInv, TypeOK, Queues
      <4>4. \A u \in owed' :
              running'[u] = k \/ (u \in owed /\ running'[u] = running[u])
        BY <4>1, <4>2 DEF IInv, TypeOK
      <4>5. QED  BY <4>2, <4>3, <4>4
    <3>4. QED  BY <1>6, <3>1, <3>2, <3>3
  <2>2. \A s, p : References(s, p)' \subseteq References(s, p)
    BY <2>1 DEF References
  <2>3. QED  BY <1>1, <2>2
<1>7. CASE UNCHANGED vars
  BY <1>3, <1>7 DEF vars, queueVars, callVars
<1>8. QED  BY <1>2, <1>4, <1>5, <1>6, <1>7, Steps

LEMMA OnceHolds == Spec => []OnceInv
<1>1. IInv /\ OnceInv /\ [Next]_vars => OnceInv'
  BY OnceStep
<1>2. QED  BY OnceInit, Invariance, <1>1, PTL DEF Spec

-----------------------------------------------------------------------------
(* Order.                                                                  *)

Pending  == tasks["UI"] \cup tasks["workers"]
Started == {running[t] : t \in {u \in Threads : running[u] # NoTask}}

\* Sinks are subscribed to their source and get its packets only.
HomeInv ==
  /\ \A s \in Sources : \A k \in Subscribed(s) : SourceOf[k] = s
  /\ \A x \in Pending \cup Started : x.source_id = SourceOf[x.sink]

\* The publication that t has under way has queued the tasks of k's queue.
Served(t, k) == \/ pc[t] = "notify"
                \/ pc[t] = "enqueue_workers" /\ k \in UISinks

\* The label of the packet acquired last.
Latest(s) == Timestamps[s][produced[s]]

\* No task is later than the packet acquired last, which is the one being filled;
\* tasks are earlier, until their sink's queue has been served.  Tasks of a sink
\* differ in time, and later ones wait.
InOrder(s) ==
  /\ \A x \in Pending \cup Started :
       x.source_id = s =>
         produced[s] \in 1 .. Len(Timestamps[s]) /\ x.timestamp <= Latest(s)
  /\ \A t \in Threads :
       filling[t] # NoPacket /\ filling[t].source_id = s =>
         /\ s \in Produces[t] /\ produced[s] \in 1 .. Len(Timestamps[s])
         /\ filling[t].timestamp = Latest(s)
         /\ \A x \in Pending \cup Started :
              x.source_id = s /\ ~Served(t, x.sink) => x.timestamp < Latest(s)
  /\ \A x, y \in Pending :
       x.source_id = s /\ y.source_id = s /\ x.sink = y.sink
         /\ x.timestamp = y.timestamp => x = y
  /\ \A x \in Started, y \in Pending :
       y.source_id = s /\ x.sink = y.sink => x.timestamp < y.timestamp

OrderInv == HomeInv /\ \A s \in Sources : ProducedInOrder(s) => InOrder(s)

LEMMA OrderInit == Init => OrderInv
<1> SUFFICES ASSUME Init PROVE OrderInv
  OBVIOUS
<1>1. Pending = {} /\ Started = {}
  BY DEF Init, Pending, Started, Queues
<1>2. \A s \in Sources : Subscribed(s) = {}
  BY DEF Init, Subscribed
<1>3. \A t \in Threads : filling[t] = NoPacket
  BY DEF Init
<1>4. QED  BY <1>1, <1>2, <1>3 DEF OrderInv, HomeInv, InOrder

LEMMA OneProducer ==
  ASSUME NEW s \in Sources, ProducedInOrder(s), NEW t \in Threads, NEW u \in Threads,
         s \in Produces[t], s \in Produces[u]
  PROVE  t = u
<1> DEFINE all == {v \in Threads : s \in Produces[v]}
<1> SUFFICES ASSUME t # u PROVE FALSE
  OBVIOUS
<1>1. IsFiniteSet(all)
  <2>1. IsFiniteSet(Threads)
    BY ThreadAssumption, FS_Union, FS_Singleton DEF Threads
  <2>2. QED  BY <2>1, FS_Subset
<1>2. IsFiniteSet({t}) /\ Cardinality({t}) = 1
  BY FS_Singleton
<1>3. IsFiniteSet({t} \cup {u}) /\ Cardinality({t} \cup {u}) = 2
  <2>1. Cardinality({t} \cup {u}) =
          IF u \in {t} THEN Cardinality({t}) ELSE Cardinality({t}) + 1
    BY <1>2, FS_AddElement
  <2>2. IsFiniteSet({t} \cup {u})
    BY <1>2, FS_AddElement
  <2>3. u \notin {t}
    OBVIOUS
  <2>4. QED  BY <1>2, <2>1, <2>2, <2>3
<1>4. Cardinality({t} \cup {u}) <= Cardinality(all)
  BY <1>1, FS_Subset
<1>5. Cardinality(all) <= 1 /\ Cardinality(all) \in Nat
  BY <1>1, FS_CardinalityType DEF ProducedInOrder
<1>6. QED  BY <1>3, <1>4, <1>5

\* A packet of the source is acquired: nobody fills another one of it.
LEMMA AcquireOrder ==
  ASSUME IInv, NEW s \in Sources, ProducedInOrder(s), InOrder(s),
         NEW t \in Threads, NEW r \in Sources, GetPacketForSubmission(t, r)
  PROVE  InOrder(s)'
<1>1. /\ UNCHANGED <<tasks, running, pc>> /\ r \in Produces[t] /\ filling[t] = NoPacket
      /\ produced[r] < Len(Timestamps[r])
  BY DEF GetPacketForSubmission, queueVars
<1>2. Pending' = Pending /\ Started' = Started /\ \A u, k : Served(u, k)' = Served(u, k)
  BY <1>1 DEF Pending, Started, Served
<1>3. /\ filling \in [Threads -> FillingType \cup {NoPacket}]
      /\ produced \in [Sources -> Nat] /\ Pending \cup Started \subseteq TaskType
      /\ Timestamps[s] \in Seq(Nat)
  BY SourceAssumption DEF IInv, TypeOK, Pending, Started, Queues
<1>4. CASE filling' = filling /\ produced' = produced
  BY <1>2, <1>4 DEF InOrder, Latest
<1>5. CASE ~(filling' = filling /\ produced' = produced)
  <2>1. PICK p : /\ filling' = [filling EXCEPT ![t] =
                                  [timestamp |-> Timestamps[r][produced[r] + 1],
                                   source_id |-> r, packet |-> p]]
                 /\ produced' = [produced EXCEPT ![r] = @ + 1]
    BY <1>5 DEF GetPacketForSubmission
  <2>2. /\ filling'[t].source_id = r
        /\ filling'[t].timestamp = Timestamps[r][produced[r] + 1]
        /\ \A u \in Threads : u # t => filling'[u] = filling[u]
    BY <1>3, <2>1
  <2>3. CASE r # s
    <3>1. produced'[s] = produced[s]
      BY <1>3, <2>1, <2>3
    <3>2. \A u \in Threads :
            filling'[u] # NoPacket /\ filling'[u].source_id = s => filling'[u] = filling[u]
      BY <2>2, <2>3
    <3>3. QED  BY <1>2, <3>1, <3>2 DEF InOrder, Latest
  <2>4. CASE r = s
    <3>1. \A u \in Threads : filling[u] # NoPacket => filling[u].source_id # s
      BY <1>1, <2>4, OneProducer DEF InOrder
    <3>2. produced'[s] = produced[s] + 1 /\ produced'[s] \in 1 .. Len(Timestamps[s])
      BY <1>1, <1>3, <2>1, <2>4
    <3>3. Latest(s)' = Timestamps[s][produced[s] + 1]
      BY <3>2 DEF Latest
    <3>4. ASSUME NEW x \in Pending \cup Started, x.source_id = s
          PROVE  x.timestamp < Latest(s)'
      <4>1. produced[s] \in 1 .. Len(Timestamps[s]) - 1 /\ x.timestamp <= Latest(s)
        BY <1>1, <1>3, <2>4, <3>4 DEF InOrder
      <4>2. Latest(s) < Latest(s)'
        BY <3>3, <4>1 DEF ProducedInOrder, Latest
      <4>3. x.timestamp \in Nat /\ Latest(s) \in Nat /\ Latest(s)' \in Nat
        <5>1. x.timestamp \in Nat
          BY <1>3 DEF TaskType
        <5>2. \A i \in 1 .. Len(Timestamps[s]) : Timestamps[s][i] \in Nat
          BY <1>3
        <5>3. produced[s] \in 1 .. Len(Timestamps[s])
          BY <1>3, <4>1
        <5>4. QED  BY <3>2, <5>1, <5>2, <5>3 DEF Latest
      <4>4. QED  BY <4>1, <4>2, <4>3
    <3>5. \A x \in Pending \cup Started : x.source_id = s =>
            /\ produced'[s] \in 1 .. Len(Timestamps[s]) /\ x.timestamp <= Latest(s)'
            /\ x.timestamp < Latest(s)'
      <4>1. Latest(s)' \in Nat /\ \A x \in Pending \cup Started : x.timestamp \in Nat
        BY <1>3, <3>2 DEF TaskType, Latest
      <4>2. QED  BY <3>2, <3>4, <4>1
    <3>6. \A u \in Threads :
            filling'[u] # NoPacket /\ filling'[u].source_id = s => u = t
      BY <2>2, <3>1
    <3>7. s \in Produces[t] /\ filling'[t].timestamp = Latest(s)'
      BY <1>1, <2>2, <2>4, <3>3
    <3>8. QED  BY <1>2, <3>2, <3>5, <3>6, <3>7 DEF InOrder
  <2>5. QED  BY <2>3, <2>4
<1>6. QED  BY <1>4, <1>5

\* Tasks are queued, later than those the sinks have.
LEMMA EnqueueOrder ==
  ASSUME IInv, HomeInv, NEW s \in Sources, ProducedInOrder(s), InOrder(s),
         NEW t \in Threads, Submit_EnqueueUI(t) \/ Submit_EnqueueWorkers(t)
  PROVE  InOrder(s)'
<1> DEFINE f == filling[t]
<1>1. PICK sinks :
        /\ Pending' = Pending \cup TasksFor(f, sinks)
        /\ \/ /\ pc[t] = "enqueue_UI"
              /\ pc' = [pc EXCEPT ![t] = "enqueue_workers"]
              /\ sinks = UISubscribers(f.source_id)
           \/ /\ pc[t] = "enqueue_workers"
              /\ pc' = [pc EXCEPT ![t] = "notify"]
              /\ sinks = NormalSubscribers(f.source_id)
  BY EnqueueFacts DEF Pending
<1>2. /\ f # NoPacket /\ UNCHANGED <<filling, running, produced>>
      /\ Started' = Started
  BY EnqueueFacts
  DEF Started, Submit_EnqueueUI, Submit_EnqueueWorkers, Enqueue, callVars
<1>3. /\ pc \in [Threads -> Locations]
      /\ f.source_id \in Sources /\ f.timestamp \in Nat
      /\ sinks \subseteq Subscribed(f.source_id)
  BY <1>1, <1>2, FillingFacts DEF IInv, TypeOK, UISubscribers, NormalSubscribers
<1>4. /\ \A u \in Threads : u # t => pc'[u] = pc[u]
      /\ pc'[t] = IF pc[t] = "enqueue_UI" THEN "enqueue_workers" ELSE "notify"
  BY <1>1, <1>3
<1>5. \A x \in TasksFor(f, sinks) :
        /\ x.timestamp = f.timestamp /\ x.source_id = f.source_id
        /\ x.packet = f.packet /\ x.sink \in sinks
        /\ x = [timestamp |-> f.timestamp, source_id |-> f.source_id,
                packet |-> f.packet, sink |-> x.sink]
  BY DEF TasksFor
<1>6. \A k \in sinks : ~Served(t, k) /\ Served(t, k)'
  BY <1>1, <1>4 DEF Served, UISubscribers, NormalSubscribers
<1>7. \A u \in Threads : \A k : Served(u, k) => Served(u, k)'
  BY <1>1, <1>4 DEF Served
<1>8. CASE f.source_id # s
  <2>1. \A x \in Pending' \cup Started' : x.source_id = s => x \in Pending \cup Started
    BY <1>1, <1>2, <1>5, <1>8
  <2>2. \A x \in Pending' : x.source_id = s => x \in Pending
    BY <1>1, <1>5, <1>8
  <2>3. Latest(s)' = Latest(s) /\ produced' = produced
    BY <1>2 DEF Latest
  <2>4. QED  BY <1>2, <1>7, <2>1, <2>2, <2>3 DEF InOrder
<1>9. CASE f.source_id = s
  <2>1. /\ s \in Produces[t] /\ produced[s] \in 1 .. Len(Timestamps[s])
        /\ f.timestamp = Latest(s)
        /\ \A x \in Pending \cup Started :
             x.source_id = s /\ ~Served(t, x.sink) => x.timestamp < Latest(s)
    BY <1>2, <1>9 DEF InOrder
  <2>2. Latest(s)' = Latest(s) /\ produced' = produced
    BY <1>2 DEF Latest
  <2>3. \A x \in Pending' \cup Started' :
          \/ x \in Pending \cup Started
          \/ x \in TasksFor(f, sinks)
    BY <1>1, <1>2
  <2>4. \A x \in TasksFor(f, sinks) :
          x.timestamp = Latest(s) /\ x.source_id = s /\ x.sink \in sinks
    BY <1>5, <1>9, <2>1
  <2>5. \A x \in Pending' \cup Started' : x.source_id = s =>
          produced'[s] \in 1 .. Len(Timestamps[s]) /\ x.timestamp <= Latest(s)'
    <3>1. Latest(s) \in Nat
      BY <1>3, <2>1
    <3>2. QED  BY <2>1, <2>2, <2>3, <2>4, <3>1 DEF InOrder
  <2>6. ASSUME NEW u \in Threads, filling'[u] # NoPacket, filling'[u].source_id = s
        PROVE  /\ s \in Produces[u] /\ produced'[s] \in 1 .. Len(Timestamps[s])
               /\ filling'[u].timestamp = Latest(s)'
               /\ \A x \in Pending' \cup Started' :
                    x.source_id = s /\ ~Served(u, x.sink)' => x.timestamp < Latest(s)'
    <3>1. u = t
      <4>1. s \in Produces[u]
        BY <1>2, <2>6 DEF InOrder
      <4>2. QED  BY <2>1, <4>1, OneProducer
    <3>2. QED  BY <1>2, <1>6, <1>7, <2>1, <2>2, <2>3, <2>4, <3>1
  <2>7. \A k \in sinks, x \in Pending \cup Started :
          x.source_id = s /\ x.sink = k => x.timestamp < Latest(s)
    BY <1>6, <2>1
  <2>8. \A x, y \in Pending' :
          x.source_id = s /\ y.source_id = s /\ x.sink = y.sink
            /\ x.timestamp = y.timestamp => x = y
    <3> SUFFICES ASSUME NEW x \in Pending', NEW y \in Pending',
                        x.source_id = s, y.source_id = s, x.sink = y.sink,
                        x.timestamp = y.timestamp
                 PROVE  x = y
      OBVIOUS
    <3>1. Latest(s) \in Nat
      BY <1>3, <2>1
    <3>2. CASE x \in Pending /\ y \in Pending
      BY <3>2 DEF InOrder
    <3>3. CASE x \in Pending /\ y \in TasksFor(f, sinks)
      BY <2>4, <2>7, <3>1, <3>3
    <3>4. CASE x \in TasksFor(f, sinks) /\ y \in Pending
      BY <2>4, <2>7, <3>1, <3>4
    <3>5. CASE x \in TasksFor(f, sinks) /\ y \in TasksFor(f, sinks)
      BY <1>5, <3>5
    <3>6. QED  BY <1>1, <3>2, <3>3, <3>4, <3>5
  <2>9. \A x \in Started', y \in Pending' :
          y.source_id = s /\ x.sink = y.sink => x.timestamp < y.timestamp
    <3> SUFFICES ASSUME NEW x \in Started, NEW y \in Pending',
                        y.source_id = s, x.sink = y.sink
                 PROVE  x.timestamp < y.timestamp
      BY <1>2
    <3>1. CASE y \in Pending
      BY <3>1 DEF InOrder
    <3>2. CASE y \in TasksFor(f, sinks)
      <4>1. SourceOf[y.sink] = s
        BY <1>3, <1>9, <2>4, <3>2, SinksFinite DEF HomeInv, IInv
      <4>2. x.source_id = s
        BY <4>1 DEF HomeInv
      <4>3. QED  BY <2>4, <2>7, <3>2, <4>2
    <3>3. QED  BY <1>1, <3>1, <3>2
  <2>10. QED  BY <2>5, <2>6, <2>8, <2>9 DEF InOrder
<1>10. QED  BY <1>8, <1>9

\* A sink's earliest task is taken.
LEMMA PopOrder ==
  ASSUME IInv, HomeInv, NEW s \in Sources, InOrder(s),
         NEW t \in Threads, Dispatch_Pop(t)
  PROVE  InOrder(s)'
<1> DEFINE q == Queue(t)
<1>1. PICK k \in Top(tasks[q]) :
        tasks' = [tasks EXCEPT ![q] = @ \ {k}] /\ running' = [running EXCEPT ![t] = k]
  BY DEF Dispatch_Pop
<1>2. /\ q \in Queues /\ k \in tasks[q] /\ k \in Pending /\ k # NoTask
      /\ tasks \in [Queues -> SUBSET TaskType]
      /\ \A y \in tasks[q] : k.timestamp <= y.timestamp
  BY <1>1, NoTaskIsNone DEF Queue, Queues, Top, Pending, IInv, TypeOK
<1>3. /\ UNCHANGED <<filling, produced>>
      /\ pc[t] = "pop" /\ pc' = [pc EXCEPT ![t] = "client"]
  BY DEF Dispatch_Pop, Goto
<1>4. Pending' \subseteq Pending /\ k \notin tasks'[q]
      /\ \A r \in Queues : tasks'[r] \subseteq tasks[r]
  BY <1>1, <1>2 DEF Pending, Queues
<1>5. Started' \subseteq Started \cup {k}
  BY <1>1 DEF Started, IInv, TypeOK
<1>6. \A u \in Threads : \A l : Served(u, l) => Served(u, l)'
  BY <1>3 DEF Served, IInv, TypeOK
<1>7. Latest(s)' = Latest(s) /\ produced' = produced
  BY <1>3 DEF Latest
<1>8. \A x \in Pending' \cup Started' : x \in Pending \cup Started
  BY <1>2, <1>4, <1>5
<1>9. ASSUME NEW x \in Started', NEW y \in Pending', y.source_id = s, x.sink = y.sink
      PROVE  x.timestamp < y.timestamp
  <2>1. y \in Pending
    BY <1>4
  <2>2. CASE x \in Started
    BY <1>9, <2>1, <2>2 DEF InOrder
  <2>3. CASE x = k
    <3>1. y \in tasks[q] /\ y # k
      BY <1>2, <1>4, <1>9, <2>3 DEF Pending, Queues, IInv, TaskInv
    <3>2. k.source_id = s
      BY <1>2, <1>9, <2>1, <2>3 DEF HomeInv
    <3>3. k.timestamp # y.timestamp
      BY <1>2, <1>9, <2>1, <2>3, <3>1, <3>2 DEF InOrder
    <3>4. k.timestamp <= y.timestamp /\ k.timestamp \in Nat /\ y.timestamp \in Nat
      BY <1>2, <3>1 DEF TaskType
    <3>5. QED  BY <2>3, <3>3, <3>4
  <2>4. QED  BY <1>5, <2>2, <2>3
<1>10. QED  BY <1>3, <1>4, <1>6, <1>7, <1>8, <1>9 DEF InOrder

\* Tasks and packets only leave.
LEMMA OrderKept ==
  ASSUME IInv, NEW s \in Sources, InOrder(s),
         UNCHANGED <<tasks, produced>>,
         \A u \in Threads : running'[u] = running[u] \/ running'[u] = NoTask,
         \A u \in Threads :
           \/ filling'[u] = NoPacket
           \/ /\ filling'[u] = filling[u]
              /\ pc'[u] = pc[u] \/ pc[u] \notin Publications
  PROVE  InOrder(s)'
<1>1. Pending' = Pending /\ Started' \subseteq Started /\ Latest(s)' = Latest(s)
  BY DEF Pending, Started, Latest
<1>2. ASSUME NEW u \in Threads, filling'[u] # NoPacket
      PROVE  filling'[u] = filling[u] /\ \A k : Served(u, k) => Served(u, k)'
  BY <1>2 DEF Served, Publications
<1>3. QED  BY <1>1, <1>2 DEF InOrder

LEMMA HomeStep ==
  ASSUME IInv, HomeInv, [Next]_vars
  PROVE  HomeInv'
<1>1. ASSUME UNCHANGED <<subscriptions, tasks>>,
             \A u \in Threads : running'[u] = running[u] \/ running'[u] = NoTask
      PROVE  HomeInv'
  <2>1. Pending' = Pending /\ Started' \subseteq Started
    BY <1>1 DEF Pending, Started
  <2>2. \A s \in Sources : Subscribed(s)' = Subscribed(s)
    BY <1>1 DEF Subscribed
  <2>3. QED  BY <2>1, <2>2 DEF HomeInv
<1>2. ASSUME NEW t \in Threads, Quiet(t) PROVE HomeInv'
  BY <1>1, <1>2, QuietMoves DEF subVars
<1>3. ASSUME NEW t \in Threads,
             \/ \E s \in Sources : GetPacketForSubmission(t, s)
             \/ Subscribe_Return(t) \/ Submit_Lock(t) \/ Submit_Finish(t)
             \/ Release_Locked(t)
      PROVE  HomeInv'
  BY <1>1, <1>3
  DEF GetPacketForSubmission, Subscribe_Return, Submit_Lock, Submit_Finish,
      Release_Locked, queueVars, subVars, callVars
<1>4. ASSUME NEW t \in Threads, CallbackReturns(t) PROVE HomeInv'
  <2>1. /\ UNCHANGED <<subscriptions, tasks>>
        /\ running' = [running EXCEPT ![t] = NoTask]
    BY <1>4 DEF CallbackReturns, queueVars, subVars
  <2>2. QED  BY <1>1, <2>1 DEF IInv, TypeOK
<1>5. ASSUME NEW t \in Threads, NEW k \in Sinks, Subscribe(t, k) \/ Unsubscribe(t, k)
      PROVE  HomeInv'
  <2>1. UNCHANGED <<tasks, running>> /\ SourceOf[k] \in Sources
    BY <1>5, SourceAssumption DEF Subscribe, Unsubscribe, queueVars, callVars
  <2> DEFINE old == subscriptions[SourceOf[k]]
  <2>2. old \in Seq(Sinks \cup {NoSink}) /\ subscriptions \in [Sources -> Seq(Sinks \cup {NoSink})]
    BY <2>1 DEF IInv, TypeOK
  <2>3. PICK new : /\ subscriptions' = [subscriptions EXCEPT ![SourceOf[k]] = new]
                   /\ \A j \in DOMAIN new :
                        \/ new[j] \in {k, NoSink}
                        \/ j \in DOMAIN old /\ new[j] = old[j]
    <3>1. CASE Subscribe(t, k)
      <4>1. PICK i \in 1 .. Len(old) + 1 :
              /\ FirstSlot(old, i)
              /\ subscriptions' = [subscriptions EXCEPT ![SourceOf[k]] = Put(old, i, k)]
        BY <3>1 DEF Subscribe
      <4>2. /\ Put(old, i, k)[i] = k
            /\ \A j : j # i => (j \in DOMAIN Put(old, i, k) <=> j \in DOMAIN old)
            /\ \A j \in DOMAIN old : j # i => Put(old, i, k)[j] = old[j]
        BY <2>2, <4>1, PutSlots
      <4>3. QED  BY <4>1, <4>2
    <3>2. CASE Unsubscribe(t, k)
      <4> DEFINE cleared == Clear(old, subscription_id[k])
      <4>1. subscriptions' = [subscriptions EXCEPT ![SourceOf[k]] = cleared]
        BY <3>2 DEF Unsubscribe
      <4>2. \A j \in DOMAIN cleared :
              cleared[j] = NoSink \/ (j \in DOMAIN old /\ cleared[j] = old[j])
        BY <2>2 DEF Clear
      <4>3. QED  BY <4>1, <4>2
    <3>3. QED  BY <1>5, <3>1, <3>2
  <2>4. subscriptions'[SourceOf[k]] = new
    BY <2>1, <2>2, <2>3
  <2>5. Subscribed(SourceOf[k])' \subseteq Subscribed(SourceOf[k]) \cup {k}
    BY <2>3, <2>4 DEF Subscribed
  <2>6. \A s \in Sources : s # SourceOf[k] => Subscribed(s)' = Subscribed(s)
    BY <2>2, <2>3 DEF Subscribed
  <2>7. Pending' = Pending /\ Started' = Started
    BY <2>1 DEF Pending, Started
  <2>8. QED  BY <2>5, <2>6, <2>7 DEF HomeInv
<1>6. ASSUME NEW t \in Threads, Submit_EnqueueUI(t) \/ Submit_EnqueueWorkers(t)
      PROVE  HomeInv'
  <2>1. PICK sinks :
          /\ Pending' = Pending \cup TasksFor(filling[t], sinks)
          /\ sinks \subseteq Subscribed(filling[t].source_id)
    BY <1>6, EnqueueFacts DEF Pending, UISubscribers, NormalSubscribers
  <2>2. /\ filling[t].source_id \in Sources /\ Started' = Started
        /\ UNCHANGED subscriptions
    BY <1>6, EnqueueFacts, FillingFacts DEF Started, IInv
  <2>3. \A x \in TasksFor(filling[t], sinks) : x.source_id = SourceOf[x.sink]
    BY <2>1, <2>2 DEF TasksFor, HomeInv
  <2>4. \A s \in Sources : Subscribed(s)' = Subscribed(s)
    BY <2>2 DEF Subscribed
  <2>5. QED  BY <2>1, <2>2, <2>3, <2>4 DEF HomeInv
<1>7. ASSUME NEW t \in Threads, Dispatch_Pop(t) PROVE HomeInv'
  <2>1. PICK q \in Queues, k \in TaskType :
          /\ k \in tasks[q]
          /\ tasks' = [tasks EXCEPT ![q] = @ \ {k}]
          /\ running' = [running EXCEPT ![t] = k]
    BY <1>7 DEF Dispatch_Pop, Top, Queue, Queues, IInv, TypeOK
  <2>2. Pending' \subseteq Pending /\ Started' \subseteq Started \cup Pending
    BY <2>1 DEF Pending, Started, Queues, IInv, TypeOK
  <2>3. \A s \in Sources : Subscribed(s)' = Subscribed(s)
    BY <1>7 DEF Dispatch_Pop, subVars, Subscribed
  <2>4. QED  BY <2>2, <2>3 DEF HomeInv
<1>8. CASE UNCHANGED vars
  BY <1>1, <1>8 DEF vars, queueVars, subVars, callVars
<1>9. QED  BY <1>2, <1>3, <1>4, <1>5, <1>6, <1>7, <1>8, Steps

LEMMA OrderStep ==
  ASSUME IInv, OrderInv, [Next]_vars
  PROVE  OrderInv'
<1>1. HomeInv'
  BY HomeStep DEF OrderInv
<1>2. ASSUME NEW s \in Sources, ProducedInOrder(s) PROVE InOrder(s)'
  <2>1. InOrder(s) /\ HomeInv
    BY <1>2 DEF OrderInv
  <2>2. ASSUME NEW t \in Threads, Quiet(t) PROVE InOrder(s)'
    <3>1. produced' = produced
      BY <2>2
      DEF Quiet, SubmitPacket, ReleasePacket, Shutdown, SetShutdownFlag,
          Submit_NotifyOne, Shutdown_NotifyAll, Dispatch_Loop, Dispatch_Lock,
          Dispatch_Test, Dispatch_Wait, SpuriousWakeup, DoUITaskStep, Destroy,
          Destroy_Join, callVars
    <3>2. /\ UNCHANGED <<tasks, filling, running>>
          /\ \A u \in Threads : pc'[u] = pc[u] \/ pc[u] \notin Publications
      BY <2>2, QuietMoves
    <3>3. QED  BY <2>1, <3>1, <3>2, OrderKept
  <2>3. ASSUME NEW t \in Threads,
               \/ \E k \in Sinks : Subscribe(t, k) \/ Unsubscribe(t, k)
               \/ Subscribe_Return(t) \/ CallbackReturns(t) \/ Submit_Lock(t)
               \/ Submit_Finish(t) \/ Release_Locked(t)
        PROVE  InOrder(s)'
    <3>1. UNCHANGED <<tasks, produced>>
      BY <2>3 DEF Subscribe, Unsubscribe, Subscribe_Return, CallbackReturns,
         Submit_Lock, Submit_Finish, Release_Locked, queueVars, callVars
    <3>2. running' = running \/ running' = [running EXCEPT ![t] = NoTask]
      BY <2>3 DEF Subscribe, Unsubscribe, Subscribe_Return, CallbackReturns,
         Submit_Lock, Submit_Finish, Release_Locked, callVars
    <3>3. \/ filling' = filling /\ pc[t] \notin Publications
          \/ filling' = [filling EXCEPT ![t] = NoPacket]
      BY <2>3 DEF Subscribe, Unsubscribe, Subscribe_Return, CallbackReturns,
         Submit_Lock, Submit_Finish, Release_Locked, InClientCode, callVars,
         Publications
    <3>4. \A u \in Threads : u # t => pc'[u] = pc[u]
      <4>1. pc' = pc \/ \E l : pc' = [pc EXCEPT ![t] = l]
        BY <2>3 DEF Subscribe, Unsubscribe, Subscribe_Return, CallbackReturns,
           Submit_Lock, Submit_Finish, Release_Locked, Goto
      <4>2. QED  BY <4>1 DEF IInv, TypeOK
    <3>5. \A u \in Threads : running'[u] = running[u] \/ running'[u] = NoTask
      BY <3>2 DEF IInv, TypeOK
    <3>6. \A u \in Threads :
            \/ filling'[u] = NoPacket
            \/ /\ filling'[u] = filling[u]
               /\ pc'[u] = pc[u] \/ pc[u] \notin Publications
      BY <3>3, <3>4 DEF IInv, TypeOK
    <3>7. QED  BY <2>1, <3>1, <3>5, <3>6, OrderKept
  <2>4. CASE UNCHANGED vars
    BY <2>1, <2>4, OrderKept DEF vars, queueVars, callVars
  <2>5. QED
    BY <1>2, <2>1, <2>2, <2>3, <2>4, AcquireOrder, EnqueueOrder, PopOrder, Steps
<1>3. \A s \in Sources : ProducedInOrder(s)' <=> ProducedInOrder(s)
  BY DEF ProducedInOrder
<1>4. QED  BY <1>1, <1>2, <1>3 DEF OrderInv

LEMMA OrderHolds == Spec => []OrderInv
<1>1. IInv /\ OrderInv /\ [Next]_vars => OrderInv'
  BY OrderStep
<1>2. QED  BY OrderInit, Invariance, <1>1, PTL DEF Spec

\* Whatever the workers' order, a sink never runs on a packet while an earlier one
\* of a source with one, orderly producer is still queued for it.
THEOREM EarliestTaken == Spec => []EarliestFirst
<1>1. ASSUME IInv, OrderInv PROVE EarliestFirst
  <2> SUFFICES ASSUME NEW t \in Threads, NEW q \in Queues, NEW k \in tasks[q],
                      running[t] # NoTask, running[t].sink = k.sink,
                      ProducedInOrder(k.source_id)
               PROVE  running[t].timestamp < k.timestamp
    BY DEF EarliestFirst
  <2>1. running[t] \in Started /\ k \in Pending
    BY DEF Started, Pending, Queues
  <2>2. k.source_id \in Sources
    BY <1>1 DEF IInv, TypeOK, TaskType
  <2>3. QED  BY <1>1, <2>1, <2>2 DEF OrderInv, InOrder
<1>2. QED  BY <1>1, OrderHolds, Invariance, PTL

-----------------------------------------------------------------------------

\* f has a value for every source and packet.
IsTable(f) == f = [s \in Sources |-> [p \in Packets |-> f[s][p]]]

LEMMA TableKept ==
  ASSUME NEW f, NEW g, IsTable(f), IsTable(g),
         \A s \in Sources, p \in Packets : g[s][p] = f[s][p]
  PROVE  g = f
  BY DEF IsTable

LEMMA TableUpdated ==
  ASSUME NEW f, NEW g, IsTable(f), IsTable(g), NEW r \in Sources, NEW n \in Packets,
         NEW v,
         \A s \in Sources, p \in Packets :
           g[s][p] = IF s = r /\ p = n THEN v ELSE f[s][p]
  PROVE  g = [f EXCEPT ![r][n] = v]
<1> DEFINE h == [f EXCEPT ![r][n] = v]
<1>1. \A s \in Sources : f[s] = [p \in Packets |-> f[s][p]]
  BY DEF IsTable
<1>2. IsTable(h)
  BY <1>1 DEF IsTable
<1>3. \A s \in Sources, p \in Packets : g[s][p] = h[s][p]
  BY <1>1 DEF IsTable
<1>4. QED  BY <1>2, <1>3, TableKept

\* The variables of the exchange, packet by packet.
StatusOf(s, p) ==
  IF ~packet_usages[s][p] THEN "free"
  ELSE IF /\ \E t \in Threads : Fills(t, s, p)
          /\ \A t \in Threads : Fills(t, s, p) => pc[t] \notin Publications
    THEN "filling"
    ELSE "shared"

Publishes(t, s, p, k) ==
  /\ Fills(t, s, p)
  /\ pc[t] \in {"enqueue_UI", "enqueue_workers"}
  /\ pc[t] = "enqueue_workers" => k \notin UISinks
  /\ k \in Subscribed(s)

Queued(s, p, k) ==
  \E l \in tasks["UI"] \cup tasks["workers"] :
    l.source_id = s /\ l.packet = p /\ l.sink = k

IsDue(s, p, k) == Queued(s, p, k) \/ \E t \in Threads : Publishes(t, s, p, k)

IsReading(s, p, k) ==
  \/ \E l \in unreleased : l.source_id = s /\ l.packet = p /\ l.sink = k
  \/ \E t \in owed : /\ running[t].source_id = s /\ running[t].packet = p
                     /\ running[t].sink = k

Mapped ==
  /\ IsTable(ExchangeStatus) /\ IsTable(ExchangeDue) /\ IsTable(ExchangeReading)
  /\ \A s \in Sources, p \in Packets :
       /\ ExchangeStatus[s][p] = StatusOf(s, p)
       /\ \A k : k \in ExchangeDue[s][p] <=> IsDue(s, p, k)
       /\ \A k : k \in ExchangeReading[s][p] <=> IsReading(s, p, k)

LEMMA MappedNow == Mapped
<1>1. IsTable(ExchangeStatus) /\ IsTable(ExchangeDue) /\ IsTable(ExchangeReading)
  BY DEF IsTable, ExchangeStatus, ExchangeDue, ExchangeReading
<1> SUFFICES ASSUME NEW s \in Sources, NEW p \in Packets
             PROVE  /\ ExchangeStatus[s][p] = StatusOf(s, p)
                    /\ \A k : k \in ExchangeDue[s][p] <=> IsDue(s, p, k)
                    /\ \A k : k \in ExchangeReading[s][p] <=> IsReading(s, p, k)
  BY <1>1 DEF Mapped
<1>2. ExchangeStatus[s][p] = StatusOf(s, p)
  BY DEF ExchangeStatus, StatusOf, Publishing, Fillers, Fills, Publications
<1>3. \A k : k \in ExchangeReading[s][p] <=> IsReading(s, p, k)
  BY DEF ExchangeReading, IsReading
<1>4. \A t : t \in Publishing(s, p) <=>
               /\ t \in Threads /\ Fills(t, s, p)
               /\ pc[t] \in Publications
  BY DEF Publishing, Fillers, Fills, Publications
<1>5. \A t, k : Fills(t, s, p) =>
        (k \in ToEnqueue(t) <=>
           /\ pc[t] \in {"enqueue_UI", "enqueue_workers"}
           /\ pc[t] = "enqueue_workers" => k \notin UISinks
           /\ k \in Subscribed(s))
  BY DEF ToEnqueue, Fills, NormalSubscribers
<1>6. ExchangeDue[s][p] =
        {k.sink : k \in {l \in tasks["UI"] \cup tasks["workers"] :
                           l.source_id = s /\ l.packet = p}}
          \cup UNION {ToEnqueue(t) : t \in Publishing(s, p)}
  BY DEF ExchangeDue
<1>7. \A k : k \in ExchangeDue[s][p] <=> IsDue(s, p, k)
  BY <1>4, <1>5, <1>6 DEF IsDue, Queued, Publishes, Publications
<1>8. QED  BY <1>2, <1>3, <1>7

LEMMA MappedNext == Mapped'
  BY MappedNow, PTL

LEMMA StatusIs ==
  ASSUME \A s \in Sources, p \in Packets : StatusOf(s, p)' = StatusOf(s, p)
  PROVE  ExchangeStatus' = ExchangeStatus
  BY MappedNow, MappedNext, TableKept DEF Mapped

LEMMA DueIs ==
  ASSUME \A s \in Sources, p \in Packets : \A k : IsDue(s, p, k)' <=> IsDue(s, p, k)
  PROVE  ExchangeDue' = ExchangeDue
<1>1. \A s \in Sources, p \in Packets : ExchangeDue'[s][p] = ExchangeDue[s][p]
  BY MappedNow, MappedNext DEF Mapped
<1>2. QED  BY <1>1, MappedNow, MappedNext, TableKept DEF Mapped

LEMMA ReadingIs ==
  ASSUME \A s \in Sources, p \in Packets : \A k : IsReading(s, p, k)' <=> IsReading(s, p, k)
  PROVE  ExchangeReading' = ExchangeReading
<1>1. \A s \in Sources, p \in Packets : ExchangeReading'[s][p] = ExchangeReading[s][p]
  BY MappedNow, MappedNext DEF Mapped
<1>2. QED  BY <1>1, MappedNow, MappedNext, TableKept DEF Mapped

LEMMA StatusBecomes ==
  ASSUME NEW r \in Sources, NEW n \in Packets, NEW v,
         \A s \in Sources, p \in Packets :
           StatusOf(s, p)' = IF s = r /\ p = n THEN v ELSE StatusOf(s, p)
  PROVE  ExchangeStatus' = [ExchangeStatus EXCEPT ![r][n] = v]
<1>1. \A s \in Sources, p \in Packets :
        ExchangeStatus'[s][p] = IF s = r /\ p = n THEN v ELSE ExchangeStatus[s][p]
  BY MappedNow, MappedNext DEF Mapped
<1>2. IsTable(ExchangeStatus) /\ IsTable(ExchangeStatus')
  BY MappedNow, MappedNext DEF Mapped
<1>3. QED  BY <1>1, <1>2, TableUpdated

LEMMA DueBecomes ==
  ASSUME NEW r \in Sources, NEW n \in Packets, NEW v,
         \A s \in Sources, p \in Packets : \A k :
           IsDue(s, p, k)' <=> IF s = r /\ p = n THEN k \in v ELSE IsDue(s, p, k)
  PROVE  ExchangeDue' = [ExchangeDue EXCEPT ![r][n] = v]
<1>1. \A s \in Sources, p \in Packets :
        ExchangeDue'[s][p] = IF s = r /\ p = n THEN v ELSE ExchangeDue[s][p]
  <2> SUFFICES ASSUME NEW s \in Sources, NEW p \in Packets
               PROVE  ExchangeDue'[s][p] =
                        IF s = r /\ p = n THEN v ELSE ExchangeDue[s][p]
    OBVIOUS
  <2>1. /\ \A k : k \in ExchangeDue[s][p] <=> IsDue(s, p, k)
        /\ \A k : k \in ExchangeDue'[s][p] <=> IsDue(s, p, k)'
    BY MappedNow, MappedNext DEF Mapped
  <2>2. CASE s = r /\ p = n
    BY <2>1, <2>2
  <2>3. CASE ~(s = r /\ p = n)
    BY <2>1, <2>3
  <2>4. QED  BY <2>2, <2>3
<1>2. IsTable(ExchangeDue) /\ IsTable(ExchangeDue')
  BY MappedNow, MappedNext DEF Mapped
<1>3. QED  BY <1>1, <1>2, TableUpdated

LEMMA ReadingBecomes ==
  ASSUME NEW r \in Sources, NEW n \in Packets, NEW v,
         \A s \in Sources, p \in Packets : \A k :
           IsReading(s, p, k)' <=>
             IF s = r /\ p = n THEN k \in v ELSE IsReading(s, p, k)
  PROVE  ExchangeReading' = [ExchangeReading EXCEPT ![r][n] = v]
<1>1. \A s \in Sources, p \in Packets :
        ExchangeReading'[s][p] = IF s = r /\ p = n THEN v ELSE ExchangeReading[s][p]
  <2> SUFFICES ASSUME NEW s \in Sources, NEW p \in Packets
               PROVE  ExchangeReading'[s][p] =
                        IF s = r /\ p = n THEN v ELSE ExchangeReading[s][p]
    OBVIOUS
  <2>1. /\ \A k : k \in ExchangeReading[s][p] <=> IsReading(s, p, k)
        /\ \A k : k \in ExchangeReading'[s][p] <=> IsReading(s, p, k)'
    BY MappedNow, MappedNext DEF Mapped
  <2>2. CASE s = r /\ p = n
    BY <2>1, <2>2
  <2>3. CASE ~(s = r /\ p = n)
    BY <2>1, <2>3
  <2>4. QED  BY <2>2, <2>3
<1>2. IsTable(ExchangeReading) /\ IsTable(ExchangeReading')
  BY MappedNow, MappedNext DEF Mapped
<1>3. QED  BY <1>1, <1>2, TableUpdated

LEMMA StatusKept ==
  ASSUME UNCHANGED <<packet_usages, filling>>,
         \A t \in Threads : pc'[t] \in Publications <=> pc[t] \in Publications
  PROVE  ExchangeStatus' = ExchangeStatus
<1>1. \A t, s, p : Fills(t, s, p)' = Fills(t, s, p)
  BY DEF Fills
<1>2. QED  BY <1>1, StatusIs DEF StatusOf

LEMMA PublishesKept ==
  ASSUME NEW t \in Threads, NEW s, UNCHANGED <<filling, subscriptions>>,
         pc'[t] = pc[t] \/ (pc[t] \notin Publications /\ pc'[t] \notin Publications)
  PROVE  \A p, k : Publishes(t, s, p, k)' <=> Publishes(t, s, p, k)
  BY DEF Publishes, Fills, Subscribed, Publications

LEMMA DueKept ==
  ASSUME UNCHANGED tasks,
         \A t \in Threads, s \in Sources, p \in Packets :
           \A k : Publishes(t, s, p, k)' <=> Publishes(t, s, p, k)
  PROVE  ExchangeDue' = ExchangeDue
<1>1. \A s, p, k : Queued(s, p, k)' <=> Queued(s, p, k)
  BY DEF Queued
<1>2. QED  BY <1>1, DueIs DEF IsDue

LEMMA ReadingKept ==
  ASSUME UNCHANGED <<running, owed, unreleased>>
  PROVE  ExchangeReading' = ExchangeReading
  BY ReadingIs DEF IsReading

\* A step of the scheduler that is none of the exchange.
LEMMA Hidden ==
  ASSUME UNCHANGED <<packet_usages, filling, tasks, subscriptions, running, owed,
                     unreleased>>,
         \A t \in Threads :
           pc'[t] = pc[t] \/ (pc[t] \notin Publications /\ pc'[t] \notin Publications)
  PROVE  UNCHANGED Exchange!vars
  BY StatusKept, PublishesKept, DueKept, ReadingKept DEF Exchange!vars, Subscribed

\* A slack callback's task goes from its thread to the tasks nobody releases.
LEMMA CallbackMapped ==
  ASSUME IInv, NEW t \in Threads, CallbackReturns(t)
  PROVE  UNCHANGED Exchange!vars
<1>1. /\ UNCHANGED <<packet_usages, filling, tasks, subscriptions>>
      /\ unreleased' = unreleased \cup (IF t \in owed THEN {running[t]} ELSE {})
      /\ owed' = owed \ {t}
      /\ running' = [running EXCEPT ![t] = NoTask]
      /\ pc[t] = "client" /\ pc' = [pc EXCEPT ![t] = AfterRound(t)]
  BY DEF CallbackReturns, InClientCode, Goto, sourceVars, queueVars, subVars
<1>2. \A u \in Threads :
        pc'[u] = pc[u] \/ (pc[u] \notin Publications /\ pc'[u] \notin Publications)
  BY <1>1 DEF AfterRound, Publications, IInv, TypeOK
<1>3. \A u \in owed' : u \in owed /\ u # t /\ running'[u] = running[u]
  BY <1>1 DEF IInv, TypeOK
<1>4. \A s, p, k : IsReading(s, p, k)' <=> IsReading(s, p, k)
  BY <1>1, <1>3 DEF IsReading
<1>5. ExchangeReading' = ExchangeReading
  BY <1>4, ReadingIs
<1>6. QED
  BY <1>1, <1>2, <1>5, StatusKept, PublishesKept, DueKept
  DEF Exchange!vars, Subscribed

\* What a publication still owes its sinks moves from the thread to a queue.
LEMMA EnqueueMapped ==
  ASSUME IInv, NEW t \in Threads,
         Submit_EnqueueUI(t) \/ Submit_EnqueueWorkers(t)
  PROVE  UNCHANGED Exchange!vars
<1>1. /\ filling[t] # NoPacket
      /\ UNCHANGED <<packet_usages, filling, subscriptions, running, owed,
                     unreleased>>
  BY EnqueueFacts
<1>2. PICK s, p : s = filling[t].source_id /\ p = filling[t].packet
  OBVIOUS
<1>3. PICK sinks :
        /\ tasks'["UI"] \cup tasks'["workers"] =
             tasks["UI"] \cup tasks["workers"] \cup TasksFor(filling[t], sinks)
        /\ \/ /\ pc[t] = "enqueue_UI"
              /\ pc' = [pc EXCEPT ![t] = "enqueue_workers"]
              /\ sinks = UISubscribers(s)
           \/ /\ pc[t] = "enqueue_workers"
              /\ pc' = [pc EXCEPT ![t] = "notify"]
              /\ sinks = NormalSubscribers(s)
  BY <1>2, EnqueueFacts
<1>4. /\ \A u \in Threads : u # t => pc'[u] = pc[u]
      /\ \/ pc[t] = "enqueue_UI" /\ pc'[t] = "enqueue_workers"
         \/ pc[t] = "enqueue_workers" /\ pc'[t] = "notify"
  BY <1>3 DEF IInv, TypeOK
<1>5. \A r, n, k : Queued(r, n, k)' <=>
                     Queued(r, n, k) \/ (r = s /\ n = p /\ k \in sinks)
  <2>1. \A l \in TasksFor(filling[t], sinks) :
          l.source_id = s /\ l.packet = p /\ l.sink \in sinks
    BY <1>2 DEF TasksFor
  <2>2. ASSUME NEW k \in sinks
        PROVE  \E l \in TasksFor(filling[t], sinks) :
                 l.source_id = s /\ l.packet = p /\ l.sink = k
    <3> DEFINE l == [timestamp |-> filling[t].timestamp,
                     source_id |-> filling[t].source_id,
                     packet |-> filling[t].packet, sink |-> k]
    <3>1. l \in TasksFor(filling[t], sinks)
      BY DEF TasksFor
    <3>2. l.source_id = s /\ l.packet = p /\ l.sink = k
      BY <1>2
    <3>3. QED  BY <3>1, <3>2
  <2>3. QED  BY <1>3, <2>1, <2>2 DEF Queued
<1>6. \A u \in Threads : u # t =>
        \A r, n, k : Publishes(u, r, n, k)' <=> Publishes(u, r, n, k)
  BY <1>1, <1>4, PublishesKept
<1>7. \A r, n : /\ Fills(t, r, n) <=> r = s /\ n = p
                /\ Fills(t, r, n)' <=> r = s /\ n = p
                /\ Subscribed(r)' = Subscribed(r)
  BY <1>1, <1>2 DEF Fills, Subscribed
<1>8. \A r, n, k : Publishes(t, r, n, k) <=>
                     \/ Publishes(t, r, n, k)'
                     \/ r = s /\ n = p /\ k \in sinks
  <2>1. CASE pc[t] = "enqueue_UI"
    BY <1>3, <1>4, <1>7, <2>1 DEF Publishes, UISubscribers
  <2>2. CASE pc[t] = "enqueue_workers"
    BY <1>3, <1>4, <1>7, <2>2 DEF Publishes, NormalSubscribers
  <2>3. QED  BY <1>4, <2>1, <2>2
<1>9. \A r, n, k : IsDue(r, n, k)' <=> IsDue(r, n, k)
  BY <1>5, <1>6, <1>8 DEF IsDue
<1>10. \A u \in Threads : pc'[u] \in Publications <=> pc[u] \in Publications
  BY <1>4 DEF Publications
<1>11. QED
  BY <1>1, <1>9, <1>10, DueIs, StatusKept, ReadingKept
  DEF Exchange!vars, Subscribed

\* Subscribing to a source that is not locked concerns no packet.
LEMMA SubscriptionsMapped ==
  ASSUME IInv, NEW s \in Sources, SourceUnlocked(s),
         UNCHANGED <<packet_usages, filling, tasks, running, owed, unreleased>>,
         \A r \in Sources : r # s => subscriptions'[r] = subscriptions[r],
         \A t \in Threads :
           pc'[t] = pc[t] \/ (pc[t] \notin Publications /\ pc'[t] \notin Publications)
  PROVE  UNCHANGED <<ExchangeStatus, ExchangeDue, ExchangeReading>>
<1>1. \A t \in Threads, r \in Sources, p \in Packets :
        \A k : Publishes(t, r, p, k)' <=> Publishes(t, r, p, k)
  <2> SUFFICES ASSUME NEW t \in Threads, NEW r \in Sources, NEW p \in Packets, NEW k
               PROVE  Publishes(t, r, p, k)' <=> Publishes(t, r, p, k)
    OBVIOUS
  <2>1. Fills(t, r, p)' <=> Fills(t, r, p)
    BY DEF Fills
  <2>2. CASE pc[t] \in Publications
    <3>1. filling[t].source_id # s
      BY <2>2, UnlockedIdle
    <3>2. Fills(t, r, p) => Subscribed(r)' = Subscribed(r)
      BY <3>1 DEF Fills, Subscribed
    <3>3. pc'[t] = pc[t]
      BY <2>2
    <3>4. QED  BY <2>1, <3>2, <3>3 DEF Publishes
  <2>3. CASE pc[t] \notin Publications
    BY <2>3 DEF Publishes, Publications
  <2>4. QED  BY <2>2, <2>3
<1>2. ExchangeDue' = ExchangeDue
  BY <1>1, DueKept
<1>3. QED  BY <1>2, StatusKept, ReadingKept

LEMMA SubscribeMapped ==
  ASSUME IInv, IdInv, NEW t \in Threads, NEW k \in Sinks, Subscribe(t, k)
  PROVE  Exchange!Join(k)
<1>1. PICK s \in Sources : s = SourceOf[k]
  BY SourceAssumption
<1>2. subscriptions[s] \in Seq(Sinks \cup {NoSink})
  BY DEF IInv, TypeOK
<1>3. PICK i \in 1 .. Len(subscriptions[s]) + 1 :
        /\ FirstSlot(subscriptions[s], i)
        /\ subscriptions' = [subscriptions EXCEPT ![s] = Put(subscriptions[s], i, k)]
  BY <1>1 DEF Subscribe
<1>4. /\ SourceUnlocked(s) /\ ~InUse(k)
      /\ pc[t] = "client" /\ pc' = [pc EXCEPT ![t] = "subscribed"]
      /\ UNCHANGED <<packet_usages, filling, tasks, running, owed, unreleased>>
  BY <1>1 DEF Subscribe, InClientCode, Goto, sourceVars, queueVars, callVars
<1>5. UNCHANGED <<ExchangeStatus, ExchangeDue, ExchangeReading>>
  <2>1. \A r \in Sources : r # s => subscriptions'[r] = subscriptions[r]
    BY <1>3 DEF IInv, TypeOK
  <2>2. \A u \in Threads :
          pc'[u] = pc[u] \/ (pc[u] \notin Publications /\ pc'[u] \notin Publications)
    BY <1>4 DEF IInv, TypeOK, Publications
  <2>3. QED  BY <1>4, <2>1, <2>2, SubscriptionsMapped
<1>6. k \notin Subscribed(s)
  <2>1. \A j \in Nat \ {NoId} : ~Denotes(k, j)
    BY <1>4 DEF Denotes, InUse, Returning
  <2>2. \A j \in DOMAIN subscriptions[s] : j \in Nat \ {NoId}
    BY <1>2 DEF NoId
  <2>3. \A j \in DOMAIN subscriptions[s] : subscriptions[s][j] # k
    BY <1>1, <2>1, <2>2 DEF IdInv, Slot
  <2>4. QED  BY <2>3 DEF Subscribed
<1>7. Subscribed(s)' = Subscribed(s) \cup {k}
  <2> DEFINE old == subscriptions[s]
             new == Put(old, i, k)
  <2>1. /\ i \in DOMAIN new /\ new[i] = k
        /\ i \in DOMAIN old => old[i] = NoSink
        /\ \A j : j # i => (j \in DOMAIN new <=> j \in DOMAIN old)
        /\ \A j \in DOMAIN old : j # i => new[j] = old[j]
    BY <1>2, <1>3, PutSlots
  <2>2. subscriptions'[s] = new
    BY <1>3 DEF IInv, TypeOK
  <2> HIDE DEF new, old
  <2>3. {new[j] : j \in DOMAIN new} \ {NoSink} =
          ({old[j] : j \in DOMAIN old} \ {NoSink}) \cup {k}
    BY <2>1, SourceAssumption
  <2>4. QED  BY <2>2, <2>3 DEF Subscribed, old
<1>8. \A r \in Sources : r # s => Subscribed(r)' = Subscribed(r)
  BY <1>3 DEF Subscribed, IInv, TypeOK
<1>9. QED  BY <1>1, <1>5, <1>6, <1>7, <1>8 DEF Exchange!Join

LEMMA UnsubscribeMapped ==
  ASSUME IInv, IdInv, NEW t \in Threads, NEW k \in Sinks, Unsubscribe(t, k)
  PROVE  Exchange!Leave(k)
<1>1. PICK s \in Sources, i \in Nat \ {NoId} :
        s = SourceOf[k] /\ i = subscription_id[k]
  BY SourceAssumption DEF Unsubscribe, IInv, TypeOK
<1>2. /\ SourceUnlocked(s)
      /\ subscriptions' = [subscriptions EXCEPT ![s] = Clear(subscriptions[s], i)]
      /\ UNCHANGED <<packet_usages, filling, tasks, running, owed, unreleased, pc>>
  BY <1>1 DEF Unsubscribe, sourceVars, queueVars, callVars
<1>3. UNCHANGED <<ExchangeStatus, ExchangeDue, ExchangeReading>>
  <2>1. \A r \in Sources : r # s => subscriptions'[r] = subscriptions[r]
    BY <1>2 DEF IInv, TypeOK
  <2>2. QED  BY <1>2, <2>1, SubscriptionsMapped
<1>4. /\ i \in DOMAIN subscriptions[s] /\ subscriptions[s][i] = k
      /\ \A j \in DOMAIN subscriptions[s] : subscriptions[s][j] = k => j = i
  <2>1. \A j \in Nat \ {NoId} : Denotes(k, j) <=> j = i
    BY <1>1 DEF Denotes, IdInv
  <2>2. \A j \in Nat \ {NoId} : Slot(k, j) <=> j = i
    BY <2>1 DEF IdInv
  <2>3. \A j \in DOMAIN subscriptions[s] : j \in Nat \ {NoId}
    BY DEF IInv, TypeOK, NoId
  <2>4. QED  BY <1>1, <2>2, <2>3 DEF Slot
<1>5. Subscribed(s)' = Subscribed(s) \ {k}
  <2> DEFINE old == subscriptions[s]
  <2>1. subscriptions'[s] = [old EXCEPT ![i] = NoSink]
    BY <1>2 DEF Clear, IInv, TypeOK
  <2>2. i \in DOMAIN old /\ old[i] = k /\ \A j \in DOMAIN old : old[j] = k => j = i
    BY <1>4
  <2> HIDE DEF old
  <2>3. {[old EXCEPT ![i] = NoSink][j] : j \in DOMAIN old} \ {NoSink} =
          ({old[j] : j \in DOMAIN old} \ {NoSink}) \ {k}
    BY <2>2
  <2>4. DOMAIN [old EXCEPT ![i] = NoSink] = DOMAIN old
    OBVIOUS
  <2>5. Subscribed(s)' =
          {[old EXCEPT ![i] = NoSink][j] : j \in DOMAIN old} \ {NoSink}
    BY <2>1, <2>4 DEF Subscribed
  <2>6. QED  BY <2>3, <2>5 DEF Subscribed, old
<1>6. k \in Subscribed(s)
  BY <1>4, SourceAssumption DEF Subscribed
<1>7. \A r \in Sources : r # s => Subscribed(r)' = Subscribed(r)
  BY <1>2 DEF Subscribed, IInv, TypeOK
<1>8. QED  BY <1>1, <1>3, <1>5, <1>6, <1>7 DEF Exchange!Leave

LEMMA AcquireMapped ==
  ASSUME IInv, NEW t \in Threads, NEW s \in Sources, GetPacketForSubmission(t, s)
  PROVE  \/ UNCHANGED Exchange!vars
         \/ \E p \in Packets : Exchange!Acquire(s, p)
<1> DEFINE free == free_packets[s]
<1>1. /\ pc[t] = "client" /\ filling[t] = NoPacket
      /\ UNCHANGED <<tasks, subscriptions, running, owed, unreleased, pc>>
  BY DEF GetPacketForSubmission, InClientCode, queueVars, subVars
<1>2. CASE free = <<>>
  <2>1. UNCHANGED <<packet_usages, filling>>
    BY <1>2 DEF GetPacketForSubmission
  <2>2. QED  BY <1>1, <2>1, Hidden
<1>3. CASE free # <<>>
  <2>1. PICK top \in Packets : top = free[Len(free)] /\ Len(free) \in DOMAIN free
    BY <1>3, RemoveLast DEF IInv, TypeOK
  <2>2. packet_usages' = [packet_usages EXCEPT ![s][top] = TRUE]
    BY <1>3, <2>1 DEF GetPacketForSubmission
  <2>3. PICK new : /\ new.source_id = s /\ new.packet = top /\ new # NoPacket
                   /\ filling' = [filling EXCEPT ![t] = new]
    BY <1>3, <2>1 DEF GetPacketForSubmission, NoPacket, Packets
  <2>4. ~packet_usages[s][top] /\ \A u \in Threads : ~Fills(u, s, top)
    <3>1. ~packet_usages[s][top]
      BY <2>1 DEF IInv, PoolInv
    <3>2. QED  BY <3>1 DEF IInv, FillInv
  <2>5. \A u \in Threads, r \in Sources, n \in Packets :
          Fills(u, r, n)' <=> Fills(u, r, n) \/ (u = t /\ r = s /\ n = top)
    BY <1>1, <2>3 DEF Fills, IInv, TypeOK
  <2>6. \A r \in Sources, n \in Packets :
          packet_usages'[r][n] <=> packet_usages[r][n] \/ (r = s /\ n = top)
    BY <2>2 DEF IInv, TypeOK
  <2>7. \A r \in Sources, n \in Packets :
          StatusOf(r, n)' = IF r = s /\ n = top THEN "filling" ELSE StatusOf(r, n)
    <3> SUFFICES ASSUME NEW r \in Sources, NEW n \in Packets
                 PROVE  StatusOf(r, n)' =
                          IF r = s /\ n = top THEN "filling" ELSE StatusOf(r, n)
      OBVIOUS
    <3>1. CASE r = s /\ n = top
      BY <1>1, <2>4, <2>5, <2>6, <3>1 DEF StatusOf, Publications
    <3>2. CASE ~(r = s /\ n = top)
      BY <1>1, <2>5, <2>6, <3>2 DEF StatusOf
    <3>3. QED  BY <3>1, <3>2
  <2>8. ExchangeStatus' = [ExchangeStatus EXCEPT ![s][top] = "filling"]
    BY <2>7, StatusBecomes
  <2>9. ExchangeStatus[s][top] = "free"
    BY <2>4, MappedNow DEF Mapped, StatusOf
  <2>10. \A u \in Threads, r \in Sources, n \in Packets :
           \A k : Publishes(u, r, n, k)' <=> Publishes(u, r, n, k)
    BY <1>1, <2>5 DEF Publishes, Subscribed
  <2>11. ExchangeDue' = ExchangeDue /\ ExchangeReading' = ExchangeReading
    BY <1>1, <2>10, DueKept, ReadingKept
  <2>12. QED  BY <1>1, <2>8, <2>9, <2>11 DEF Exchange!Acquire, Subscribed
<1>4. QED  BY <1>2, <1>3

\* The moment of a publication is that at which the source is locked.
LEMMA PublishMapped ==
  ASSUME IInv, NEW t \in Threads, Submit_Lock(t)
  PROVE  \E s \in Sources, p \in Packets : Exchange!Publish(s, p)
<1>1. /\ pc[t] = "submit" /\ pc' = [pc EXCEPT ![t] = "enqueue_UI"]
      /\ UNCHANGED <<packet_usages, tasks, filling, subscriptions, running, owed,
                     unreleased>>
  BY DEF Submit_Lock, Goto, queueVars, subVars
<1>2. filling[t] # NoPacket
  BY <1>1 DEF IInv, CallInv
<1>3. PICK s \in Sources, p \in Packets :
        s = filling[t].source_id /\ p = filling[t].packet
  BY <1>2, FillingFacts DEF IInv
<1>4. Fills(t, s, p) /\ \A r, n : Fills(t, r, n) => r = s /\ n = p
  BY <1>2, <1>3 DEF Fills
<1>5. /\ packet_usages[s][p] /\ References(s, p) = {}
      /\ \A u \in Threads : Fills(u, s, p) => u = t
  BY <1>1, <1>4 DEF IInv, FillInv
<1>6. /\ \A u, r, n : Fills(u, r, n)' = Fills(u, r, n)
      /\ \A r : Subscribed(r)' = Subscribed(r)
  BY <1>1 DEF Fills, Subscribed
<1>7. pc'[t] = "enqueue_UI" /\ \A u \in Threads : u # t => pc'[u] = pc[u]
  BY <1>1 DEF IInv, TypeOK
<1>8. \A r \in Sources, n \in Packets :
        StatusOf(r, n)' = IF r = s /\ n = p THEN "shared" ELSE StatusOf(r, n)
  <2> SUFFICES ASSUME NEW r \in Sources, NEW n \in Packets
               PROVE  StatusOf(r, n)' =
                        IF r = s /\ n = p THEN "shared" ELSE StatusOf(r, n)
    OBVIOUS
  <2>1. CASE r = s /\ n = p
    BY <1>1, <1>4, <1>5, <1>6, <1>7, <2>1 DEF StatusOf, Publications
  <2>2. CASE ~(r = s /\ n = p)
    <3>1. ~Fills(t, r, n)
      BY <1>4, <2>2
    <3>2. QED  BY <1>1, <1>6, <1>7, <2>2, <3>1 DEF StatusOf
  <2>3. QED  BY <2>1, <2>2
<1>9. ExchangeStatus' = [ExchangeStatus EXCEPT ![s][p] = "shared"]
  BY <1>8, StatusBecomes
<1>10. ExchangeStatus[s][p] = "filling"
  BY <1>1, <1>4, <1>5, MappedNow DEF Mapped, StatusOf, Publications
<1>11. ASSUME NEW r \in Sources, NEW n \in Packets
       PROVE  \A k : IsDue(r, n, k)' <=>
                IF r = s /\ n = p THEN k \in Subscribed(s) ELSE IsDue(r, n, k)
  <2>1. \A k : Queued(r, n, k)' <=> Queued(r, n, k)
    BY <1>1 DEF Queued
  <2>2. CASE r = s /\ n = p
    <3>1. \A k : ~Queued(s, p, k)
      BY <1>5 DEF Queued, References
    <3>2. \A u \in Threads : \A k :
            Publishes(u, s, p, k)' <=> u = t /\ k \in Subscribed(s)
      BY <1>4, <1>5, <1>6, <1>7 DEF Publishes
    <3>3. QED  BY <2>1, <2>2, <3>1, <3>2 DEF IsDue
  <2>3. CASE ~(r = s /\ n = p)
    <3>1. ~Fills(t, r, n)
      BY <1>4, <2>3
    <3>2. \A u \in Threads : \A k : Publishes(u, r, n, k)' <=> Publishes(u, r, n, k)
      BY <1>6, <1>7, <3>1 DEF Publishes
    <3>3. QED  BY <2>1, <2>3, <3>2 DEF IsDue
  <2>4. QED  BY <2>2, <2>3
<1>12. ExchangeDue' = [ExchangeDue EXCEPT ![s][p] = Subscribed(s)]
  BY <1>11, DueBecomes
<1>13. ExchangeReading' = ExchangeReading
  BY <1>1, ReadingKept
<1>14. QED
  BY <1>6, <1>9, <1>10, <1>12, <1>13 DEF Exchange!Publish

LEMMA FinishMapped ==
  ASSUME IInv, NEW t \in Threads, Submit_Finish(t)
  PROVE  \/ UNCHANGED Exchange!vars
         \/ \E s \in Sources, p \in Packets : Exchange!Reclaim(s, p)
<1>1. /\ pc[t] = "notify" /\ pc' = [pc EXCEPT ![t] = "client"]
      /\ filling' = [filling EXCEPT ![t] = NoPacket]
      /\ UNCHANGED <<packet_refcounts, tasks, subscriptions, running, owed,
                     unreleased>>
  BY DEF Submit_Finish, Goto, queueVars, subVars
<1>2. filling[t] # NoPacket
  BY <1>1 DEF IInv, CallInv, Publications
<1>3. PICK s \in Sources, p \in Packets :
        s = filling[t].source_id /\ p = filling[t].packet
  BY <1>2, FillingFacts DEF IInv
<1>4. Fills(t, s, p) /\ \A r, n : Fills(t, r, n) => r = s /\ n = p
  BY <1>2, <1>3 DEF Fills
<1>5. packet_usages[s][p] /\ \A u \in Threads : Fills(u, s, p) => u = t
  BY <1>4 DEF IInv, FillInv
<1>6. /\ \A u \in Threads : \A r, n : Fills(u, r, n)' <=> Fills(u, r, n) /\ u # t
      /\ \A r : Subscribed(r)' = Subscribed(r)
  BY <1>1 DEF Fills, Subscribed, IInv, TypeOK
<1>7. pc'[t] = "client" /\ \A u \in Threads : u # t => pc'[u] = pc[u]
  BY <1>1 DEF IInv, TypeOK
<1>8. packet_refcounts[s][p] = 0 <=> References(s, p) = {}
  BY FS_EmptySet DEF IInv, RefInv
<1>9. \A u \in Threads : \A r, n, k : Publishes(u, r, n, k)' <=> Publishes(u, r, n, k)
  BY <1>1, <1>6, <1>7 DEF Publishes
<1>10. ExchangeDue' = ExchangeDue /\ ExchangeReading' = ExchangeReading
  BY <1>1, <1>9, DueKept, ReadingKept
<1>11. ExchangeStatus[s][p] = "shared"
  BY <1>1, <1>4, <1>5, MappedNow DEF Mapped, StatusOf, Publications
<1>12. \A r \in Sources, n \in Packets : ~(r = s /\ n = p) =>
         \A u \in Threads : Fills(u, r, n)' <=> Fills(u, r, n)
  BY <1>4, <1>6
<1>13. \A u \in Threads : \A r, n : Fills(u, r, n)' => pc'[u] = pc[u]
  BY <1>6, <1>7
<1>14. CASE packet_refcounts[s][p] = 0
  <2>1. packet_usages' = [packet_usages EXCEPT ![s][p] = FALSE]
    BY <1>3, <1>14 DEF Submit_Finish, PutBack
  <2>2. \A r \in Sources, n \in Packets :
          packet_usages'[r][n] <=> packet_usages[r][n] /\ ~(r = s /\ n = p)
    BY <2>1 DEF IInv, TypeOK
  <2>3. \A r \in Sources, n \in Packets :
          StatusOf(r, n)' = IF r = s /\ n = p THEN "free" ELSE StatusOf(r, n)
    BY <1>12, <1>13, <2>2 DEF StatusOf
  <2>4. ExchangeStatus' = [ExchangeStatus EXCEPT ![s][p] = "free"]
    BY <2>3, StatusBecomes
  <2>5. \A k : ~IsDue(s, p, k) /\ ~IsReading(s, p, k)
    <3>1. \A k : ~Queued(s, p, k) /\ ~IsReading(s, p, k)
      BY <1>8, <1>14 DEF References, Queued, IsReading
    <3>2. \A u \in Threads : \A k : ~Publishes(u, s, p, k)
      BY <1>1, <1>5 DEF Publishes
    <3>3. QED  BY <3>1, <3>2 DEF IsDue
  <2>6. ExchangeDue[s][p] = {} /\ ExchangeReading[s][p] = {}
    BY <2>5, MappedNow DEF Mapped
  <2>7. QED
    BY <1>6, <1>10, <1>11, <2>4, <2>6 DEF Exchange!Reclaim
<1>15. CASE packet_refcounts[s][p] # 0
  <2>1. packet_usages' = packet_usages
    BY <1>3, <1>15 DEF Submit_Finish
  <2>2. StatusOf(s, p) = "shared"
    BY <1>11, MappedNow DEF Mapped
  <2>3. StatusOf(s, p)' = "shared"
    BY <1>5, <1>6, <2>1 DEF StatusOf
  <2>4. \A r \in Sources, n \in Packets :
          ~(r = s /\ n = p) => StatusOf(r, n)' = StatusOf(r, n)
    BY <1>12, <1>13, <2>1 DEF StatusOf
  <2>5. ExchangeStatus' = ExchangeStatus
    BY <2>2, <2>3, <2>4, StatusIs
  <2>6. QED  BY <1>6, <1>10, <2>5 DEF Exchange!vars
<1>16. QED  BY <1>14, <1>15

\* A packet is released for good by the last of its sinks and no other.
LEMMA ReleaseMapped ==
  ASSUME IInv, OnceInv, NEW t \in Threads, Release_Locked(t)
  PROVE  \E s \in Sources, p \in Packets, k \in Sinks : Exchange!Done(s, p, k)
<1>1. /\ pc[t] = "release" /\ pc' = [pc EXCEPT ![t] = "client"]
      /\ owed' = owed \ {t}
      /\ UNCHANGED <<tasks, filling, subscriptions, running, unreleased>>
  BY DEF Release_Locked, Goto, queueVars, subVars
<1>2. t \in owed /\ running[t] # NoTask
  BY <1>1 DEF IInv, CallInv
<1>3. PICK s \in Sources, p \in Packets, k \in Sinks :
        s = running[t].source_id /\ p = running[t].packet /\ k = running[t].sink
  BY <1>2, RunningFacts DEF IInv
<1>4. /\ running[t] \in References(s, p) /\ packet_usages[s][p]
      /\ packet_refcounts[s][p] \in Nat \ {0}
  BY <1>1, <1>3, ReleaseFacts
<1>5. /\ source_mtx[s] = NoThread
      /\ packet_refcounts' = [packet_refcounts EXCEPT ![s][p] = @ - 1]
      /\ packet_usages' = IF packet_refcounts'[s][p] = 0
                            THEN [packet_usages EXCEPT ![s][p] = FALSE]
                            ELSE packet_usages
  BY <1>3 DEF Release_Locked, SourceUnlocked, PutBack
<1>6. \A u \in Threads : ~Fills(u, s, p)
  <2> SUFFICES ASSUME NEW u \in Threads, Fills(u, s, p) PROVE FALSE
    OBVIOUS
  <2>1. pc[u] \in Publications
    BY <1>4 DEF IInv, FillInv, Publications
  <2>2. filling[u].source_id = s
    BY DEF Fills
  <2>3. QED  BY <1>5, <2>1, <2>2, UnlockedIdle DEF SourceUnlocked
\* The only task with this sink is the one released.
<1>7. \A l \in References(s, p) : l.sink = k => l = running[t]
  BY <1>3, <1>4 DEF OnceInv
<1>8. /\ running[t] \notin tasks["UI"] \cup tasks["workers"] \cup unreleased
      /\ \A u \in owed : running[u] = running[t] => u = t
  BY <1>2 DEF IInv, TaskInv
<1>9. ~IsDue(s, p, k)
  <2>1. ~Queued(s, p, k)
    BY <1>7, <1>8 DEF Queued, References
  <2>2. QED  BY <1>6, <2>1 DEF IsDue, Publishes
<1>10. \A r \in Sources, n \in Packets : \A l :
         IsReading(r, n, l)' <=>
           IF r = s /\ n = p THEN l \in ExchangeReading[s][p] \ {k}
                             ELSE IsReading(r, n, l)
  <2> SUFFICES ASSUME NEW r \in Sources, NEW n \in Packets, NEW l
               PROVE  IsReading(r, n, l)' <=>
                        IF r = s /\ n = p THEN IsReading(s, p, l) /\ l # k
                                          ELSE IsReading(r, n, l)
    BY MappedNow DEF Mapped
  <2>1. IsReading(r, n, l)' <=>
          \/ \E x \in unreleased : x.source_id = r /\ x.packet = n /\ x.sink = l
          \/ \E u \in owed \ {t} : /\ running[u].source_id = r
                                   /\ running[u].packet = n
                                   /\ running[u].sink = l
    BY <1>1 DEF IsReading
  <2>2. CASE r = s /\ n = p
    <3>1. \A x \in unreleased : x.source_id = s /\ x.packet = p => x.sink # k
      BY <1>7, <1>8 DEF References
    <3>2. \A u \in owed : /\ running[u].source_id = s /\ running[u].packet = p
                          /\ running[u].sink = k
                          => u = t
      BY <1>7, <1>8 DEF References
    <3>3. QED  BY <1>3, <2>1, <2>2, <3>1, <3>2 DEF IsReading
  <2>3. CASE ~(r = s /\ n = p)
    BY <1>3, <2>1, <2>3 DEF IsReading
  <2>4. QED  BY <2>2, <2>3
<1>11. ExchangeReading' =
         [ExchangeReading EXCEPT ![s][p] = ExchangeReading[s][p] \ {k}]
  BY <1>10, ReadingBecomes
<1>12. k \in ExchangeReading[s][p]
  BY <1>2, <1>3, MappedNow DEF Mapped, IsReading
<1>13. ExchangeDue' = ExchangeDue
  <2>1. \A u \in Threads :
          pc'[u] = pc[u] \/ (pc[u] \notin Publications /\ pc'[u] \notin Publications)
    BY <1>1 DEF IInv, TypeOK, Publications
  <2>2. QED  BY <1>1, <2>1, PublishesKept, DueKept
\* The count reaches zero exactly when this is the last sink.
<1>14. packet_refcounts'[s][p] = 0 <=> References(s, p) = {running[t]}
  <2>1. /\ IsFiniteSet(References(s, p))
        /\ packet_refcounts[s][p] = Cardinality(References(s, p))
    BY DEF IInv, RefInv
  <2>2. packet_refcounts'[s][p] = packet_refcounts[s][p] - 1
    BY <1>5 DEF IInv, TypeOK
  <2>3. /\ IsFiniteSet(References(s, p) \ {running[t]})
        /\ Cardinality(References(s, p) \ {running[t]}) =
             Cardinality(References(s, p)) - 1
    BY <1>4, <2>1, FS_RemoveElement
  <2>4. Cardinality(References(s, p) \ {running[t]}) = 0
          <=> References(s, p) \ {running[t]} = {}
    BY <2>3, FS_EmptySet
  <2>5. QED  BY <1>4, <2>1, <2>2, <2>3, <2>4
<1>15. References(s, p) = {running[t]} <=>
         ExchangeDue[s][p] = {} /\ ExchangeReading[s][p] = {k}
  <2>1. /\ \A l : l \in ExchangeDue[s][p] <=> IsDue(s, p, l)
        /\ \A l : l \in ExchangeReading[s][p] <=> IsReading(s, p, l)
    BY MappedNow DEF Mapped
  <2>2. \A l : IsDue(s, p, l) <=> Queued(s, p, l)
    BY <1>6 DEF IsDue, Publishes
  <2>3. \A x \in References(s, p) : Queued(s, p, x.sink) \/ IsReading(s, p, x.sink)
    BY DEF References, Queued, IsReading
  <2>4. \A l : Queued(s, p, l) \/ IsReading(s, p, l) =>
                 \E x \in References(s, p) : x.sink = l
    BY DEF References, Queued, IsReading
  <2>5. \A x \in References(s, p) : x.sink = k => x = running[t]
    BY <1>7
  <2>6. ASSUME References(s, p) = {running[t]}
        PROVE  ExchangeDue[s][p] = {} /\ ExchangeReading[s][p] = {k}
    <3>1. \A l : IsDue(s, p, l) \/ IsReading(s, p, l) => l = k
      BY <1>3, <2>2, <2>4, <2>6
    <3>2. QED  BY <1>9, <1>12, <2>1, <3>1
  <2>7. ASSUME ExchangeDue[s][p] = {}, ExchangeReading[s][p] = {k}
        PROVE  References(s, p) = {running[t]}
    <3>1. \A x \in References(s, p) : x.sink = k
      BY <2>1, <2>2, <2>3, <2>7
    <3>2. QED  BY <1>4, <2>5, <3>1
  <2>8. QED  BY <2>6, <2>7
<1>16. \A r \in Sources, n \in Packets :
         packet_usages'[r][n] <=>
           packet_usages[r][n] /\ ~(/\ r = s /\ n = p
                                    /\ packet_refcounts'[s][p] = 0)
  BY <1>5 DEF IInv, TypeOK
<1>17. \A r \in Sources, n \in Packets :
         StatusOf(r, n)' = IF r = s /\ n = p /\ packet_refcounts'[s][p] = 0
                             THEN "free" ELSE StatusOf(r, n)
  <2>1. \A u \in Threads : \A r, n : Fills(u, r, n)' <=> Fills(u, r, n)
    BY <1>1 DEF Fills
  <2>2. \A u \in Threads : pc'[u] \in Publications <=> pc[u] \in Publications
    BY <1>1 DEF IInv, TypeOK, Publications
  <2>3. QED  BY <1>16, <2>1, <2>2 DEF StatusOf
<1>18. ExchangeStatus' = IF packet_refcounts'[s][p] = 0
                           THEN [ExchangeStatus EXCEPT ![s][p] = "free"]
                           ELSE ExchangeStatus
  <2>1. CASE packet_refcounts'[s][p] = 0
    BY <1>17, <2>1, StatusBecomes
  <2>2. CASE packet_refcounts'[s][p] # 0
    BY <1>17, <2>2, StatusIs
  <2>3. QED  BY <2>1, <2>2
<1>19. Exchange!IsLast(s, p, k) <=> packet_refcounts'[s][p] = 0
  BY <1>14, <1>15 DEF Exchange!IsLast
<1>20. Exchange!Done(s, p, k)
  BY <1>1, <1>11, <1>12, <1>13, <1>18, <1>19 DEF Exchange!Done, Subscribed
<1>21. QED  BY <1>20

LEMMA PopMapped ==
  ASSUME IInv, OnceInv, NEW t \in Threads, Dispatch_Pop(t)
  PROVE  \E s \in Sources, p \in Packets, k \in Sinks : Exchange!Give(s, p, k)
<1>1. /\ pc[t] = "pop" /\ pc' = [pc EXCEPT ![t] = "client"]
      /\ owed' = owed \cup {t}
      /\ UNCHANGED <<packet_usages, filling, subscriptions, unreleased>>
  BY DEF Dispatch_Pop, Goto, sourceVars, subVars
<1>2. PICK q \in Queues, x \in TaskType :
        /\ x \in tasks[q]
        /\ tasks' = [tasks EXCEPT ![q] = @ \ {x}]
        /\ running' = [running EXCEPT ![t] = x]
  BY DEF Dispatch_Pop, Top, Queue, Queues, IInv, TypeOK
<1>3. PICK s \in Sources, p \in Packets, k \in Sinks :
        s = x.source_id /\ p = x.packet /\ k = x.sink
  BY <1>2 DEF IInv, TypeOK, TaskType
<1>4. /\ t \notin owed /\ running'[t] = x
      /\ \A u \in owed : running'[u] = running[u]
  BY <1>1, <1>2 DEF IInv, TypeOK, CallInv, DispatchSteps
<1>5. /\ tasks'["UI"] \cup tasks'["workers"] = (tasks["UI"] \cup tasks["workers"]) \ {x}
      /\ x \in tasks["UI"] \cup tasks["workers"]
  <2>1. tasks["UI"] \cap tasks["workers"] = {}
    BY DEF IInv, TaskInv
  <2>2. QED  BY <1>2, <2>1 DEF IInv, TypeOK, Queues
<1>6. x \in References(s, p) /\ \A l \in References(s, p) : l.sink = k => l = x
  <2>1. x \in References(s, p)
    BY <1>3, <1>5 DEF References
  <2>2. QED  BY <1>3, <2>1 DEF OnceInv
\* Whoever publishes the packet has served this sink.
<1>7. \A u \in Threads : ~Publishes(u, s, p, k)
  <2> SUFFICES ASSUME NEW u \in Threads, Publishes(u, s, p, k) PROVE FALSE
    OBVIOUS
  <2>1. /\ Fills(u, s, p) /\ pc[u] \in {"enqueue_UI", "enqueue_workers"}
        /\ pc[u] = "enqueue_workers" => k \notin UISinks
    BY DEF Publishes
  <2>2. /\ pc[u] = "enqueue_UI" => References(s, p) = {}
        /\ pc[u] = "enqueue_workers" => x.sink \in UISinks
    BY <1>6, <2>1 DEF IInv, FillInv
  <2>3. QED  BY <1>3, <1>6, <2>1, <2>2
<1>8. \A u \in Threads : \A r, n, l : Publishes(u, r, n, l)' <=> Publishes(u, r, n, l)
  <2>1. \A u \in Threads :
          pc'[u] = pc[u] \/ (pc[u] \notin Publications /\ pc'[u] \notin Publications)
    BY <1>1 DEF IInv, TypeOK, Publications
  <2>2. QED  BY <1>1, <2>1, PublishesKept
<1>9. \A r \in Sources, n \in Packets : \A l :
        IsDue(r, n, l)' <=>
          IF r = s /\ n = p THEN l \in ExchangeDue[s][p] \ {k} ELSE IsDue(r, n, l)
  <2> SUFFICES ASSUME NEW r \in Sources, NEW n \in Packets, NEW l
               PROVE  IsDue(r, n, l)' <=>
                        IF r = s /\ n = p THEN IsDue(s, p, l) /\ l # k
                                          ELSE IsDue(r, n, l)
    BY MappedNow DEF Mapped
  <2>1. Queued(r, n, l)' <=> Queued(r, n, l) /\ ~(r = s /\ n = p /\ l = k)
    <3>1. \A y \in tasks["UI"] \cup tasks["workers"] :
            y.source_id = s /\ y.packet = p /\ y.sink = k => y = x
      BY <1>6 DEF References
    <3>2. QED  BY <1>3, <1>5, <3>1 DEF Queued
  <2>2. QED  BY <1>7, <1>8, <2>1 DEF IsDue
<1>10. ExchangeDue' = [ExchangeDue EXCEPT ![s][p] = ExchangeDue[s][p] \ {k}]
  BY <1>9, DueBecomes
<1>11. \A r \in Sources, n \in Packets : \A l :
         IsReading(r, n, l)' <=>
           IF r = s /\ n = p THEN l \in ExchangeReading[s][p] \cup {k}
                             ELSE IsReading(r, n, l)
  <2> SUFFICES ASSUME NEW r \in Sources, NEW n \in Packets, NEW l
               PROVE  IsReading(r, n, l)' <=>
                        IF r = s /\ n = p THEN IsReading(s, p, l) \/ l = k
                                          ELSE IsReading(r, n, l)
    BY MappedNow DEF Mapped
  <2>1. IsReading(r, n, l)' <=> IsReading(r, n, l) \/ (r = s /\ n = p /\ l = k)
    BY <1>1, <1>3, <1>4 DEF IsReading
  <2>2. QED  BY <2>1
<1>12. ExchangeReading' =
         [ExchangeReading EXCEPT ![s][p] = ExchangeReading[s][p] \cup {k}]
  BY <1>11, ReadingBecomes
<1>13. ExchangeStatus' = ExchangeStatus
  <2>1. \A u \in Threads : pc'[u] \in Publications <=> pc[u] \in Publications
    BY <1>1 DEF IInv, TypeOK, Publications
  <2>2. QED  BY <1>1, <2>1, StatusKept
<1>14. k \in ExchangeDue[s][p]
  BY <1>3, <1>5, MappedNow DEF Mapped, IsDue, Queued
<1>15. Exchange!Give(s, p, k)
  BY <1>1, <1>10, <1>12, <1>13, <1>14 DEF Exchange!Give, Subscribed
<1>16. QED  BY <1>15

LEMMA MappedInit == Init => Exchange!Init
<1> SUFFICES ASSUME Init PROVE Exchange!Init
  OBVIOUS
<1>1. /\ \A t \in Threads : filling[t] = NoPacket
      /\ tasks["UI"] = {} /\ tasks["workers"] = {} /\ owed = {} /\ unreleased = {}
      /\ \A s \in Sources, p \in Packets : ~packet_usages[s][p]
  BY DEF Init, Queues
<1>2. \A s \in Sources, p \in Packets :
        /\ StatusOf(s, p) = "free"
        /\ \A k : ~IsDue(s, p, k) /\ ~IsReading(s, p, k)
  BY <1>1 DEF StatusOf, IsDue, Queued, Publishes, Fills, IsReading
<1>3. \A s \in Sources, p \in Packets :
        /\ ExchangeStatus[s][p] = "free"
        /\ ExchangeDue[s][p] = {} /\ ExchangeReading[s][p] = {}
  BY <1>2, MappedNow DEF Mapped
<1>4. IsTable(ExchangeStatus) /\ IsTable(ExchangeDue) /\ IsTable(ExchangeReading)
  BY MappedNow DEF Mapped
<1>5. /\ ExchangeStatus = [s \in Sources |-> [p \in Packets |-> "free"]]
      /\ ExchangeDue = [s \in Sources |-> [p \in Packets |-> {}]]
      /\ ExchangeReading = [s \in Sources |-> [p \in Packets |-> {}]]
  BY <1>3, <1>4 DEF IsTable
<1>6. \A s \in Sources : Subscribed(s) = {}
  BY DEF Init, Subscribed
<1>7. QED  BY <1>5, <1>6 DEF Exchange!Init

LEMMA MappedStep ==
  ASSUME IInv, IdInv, OnceInv, [Next]_vars
  PROVE  [Exchange!Next]_Exchange!vars
<1>1. ASSUME NEW t \in Threads, Quiet(t) PROVE UNCHANGED Exchange!vars
  BY <1>1, QuietMoves, Hidden DEF sourceVars, subVars
<1>2. ASSUME NEW t \in Threads, Subscribe_Return(t) PROVE UNCHANGED Exchange!vars
  <2>1. \A u \in Threads :
          pc'[u] = pc[u] \/ (pc[u] \notin Publications /\ pc'[u] \notin Publications)
    BY <1>2 DEF Subscribe_Return, Goto, Publications, IInv, TypeOK
  <2>2. QED
    BY <1>2, <2>1, Hidden
    DEF Subscribe_Return, sourceVars, queueVars, callVars
<1>3. CASE UNCHANGED vars
  BY <1>3, Hidden DEF vars, sourceVars, queueVars, subVars, callVars
<1>4. ASSUME NEW t \in Threads, NEW k \in Sinks, Subscribe(t, k) \/ Unsubscribe(t, k)
      PROVE  Exchange!Next
  BY <1>4, SubscribeMapped, UnsubscribeMapped DEF Exchange!Next
<1>5. ASSUME NEW t \in Threads, NEW s \in Sources, GetPacketForSubmission(t, s)
      PROVE  [Exchange!Next]_Exchange!vars
  BY <1>5, AcquireMapped DEF Exchange!Next
<1>6. ASSUME NEW t \in Threads, Submit_Lock(t) PROVE Exchange!Next
  BY <1>6, PublishMapped DEF Exchange!Next
<1>7. ASSUME NEW t \in Threads, Submit_Finish(t)
      PROVE  [Exchange!Next]_Exchange!vars
  BY <1>7, FinishMapped DEF Exchange!Next
<1>8. ASSUME NEW t \in Threads, Release_Locked(t) \/ Dispatch_Pop(t)
      PROVE  Exchange!Next
  BY <1>8, ReleaseMapped, PopMapped DEF Exchange!Next
<1>9. QED
  BY <1>1, <1>2, <1>3, <1>4, <1>5, <1>6, <1>7, <1>8, Steps, CallbackMapped,
     EnqueueMapped

\* With all its locks, queues and counts the scheduler does what the packet
\* exchange does in single steps: every step of a submission, a dispatch, a
\* release or a subscription is a step of the exchange or changes nothing there.
THEOREM Implements == Spec => ImplementsExchange
<1>1. IInv /\ IdInv /\ OnceInv /\ [Next]_vars => [Exchange!Next]_Exchange!vars
  BY MappedStep
<1>2. QED
  BY MappedInit, Invariance, IdHolds, OnceHolds, <1>1, PTL
  DEF Spec, ImplementsExchange, Exchange!Spec

-----------------------------------------------------------------------------

LEMMA ExchangeKeepsRanges ==
  ASSUME Exchange!TypeOK, [Exchange!Next]_Exchange!vars
  PROVE  Exchange!TypeOK'
<1> DEFINE joined == [s \in Sources |-> Subscribed(s)]
<1> USE DEF Exchange!TypeOK, Exchange!Status
<1>1. ASSUME NEW s \in Sources, NEW p \in Packets, Exchange!Acquire(s, p)
      PROVE  Exchange!TypeOK'
  BY <1>1 DEF Exchange!Acquire
<1>2. ASSUME NEW s \in Sources, NEW p \in Packets, Exchange!Publish(s, p)
      PROVE  Exchange!TypeOK'
  BY <1>2 DEF Exchange!Publish
<1>3. ASSUME NEW s \in Sources, NEW p \in Packets, Exchange!Reclaim(s, p)
      PROVE  Exchange!TypeOK'
  BY <1>3 DEF Exchange!Reclaim
<1>4. ASSUME NEW s \in Sources, NEW p \in Packets, NEW k \in Sinks,
             Exchange!Give(s, p, k)
      PROVE  Exchange!TypeOK'
  BY <1>4 DEF Exchange!Give
<1>5. ASSUME NEW s \in Sources, NEW p \in Packets, NEW k \in Sinks,
             Exchange!Done(s, p, k)
      PROVE  Exchange!TypeOK'
  BY <1>5 DEF Exchange!Done, Exchange!IsLast
<1>6. ASSUME NEW k \in Sinks, Exchange!Join(k) \/ Exchange!Leave(k)
      PROVE  Exchange!TypeOK'
  <2>1. PICK S \in SUBSET Sinks :
          joined' = [joined EXCEPT ![SourceOf[k]] = S]
    <3>1. joined \in [Sources -> SUBSET Sinks]
      OBVIOUS
    <3>2. CASE Exchange!Join(k)
      <4>1. joined' = [joined EXCEPT ![SourceOf[k]] = @ \cup {k}]
        BY <3>2 DEF Exchange!Join
      <4>2. joined[SourceOf[k]] \cup {k} \in SUBSET Sinks
        BY <3>1, SourceAssumption
      <4>3. QED  BY <4>1, <4>2
    <3>3. CASE Exchange!Leave(k)
      <4>1. joined' = [joined EXCEPT ![SourceOf[k]] = @ \ {k}]
        BY <3>3 DEF Exchange!Leave
      <4>2. joined[SourceOf[k]] \ {k} \in SUBSET Sinks
        BY <3>1, SourceAssumption
      <4>3. QED  BY <4>1, <4>2
    <3>4. QED  BY <1>6, <3>2, <3>3
  <2>2. joined' \in [Sources -> SUBSET Sinks]
    <3>1. joined \in [Sources -> SUBSET Sinks]
      OBVIOUS
    <3> HIDE DEF joined
    <3>2. QED  BY <2>1, <3>1
  <2>3. QED  BY <1>6, <2>2 DEF Exchange!Join, Exchange!Leave
<1>7. CASE UNCHANGED Exchange!vars
  BY <1>7 DEF Exchange!vars
<1>8. QED
  BY <1>1, <1>2, <1>3, <1>4, <1>5, <1>6, <1>7 DEF Exchange!Next

\* Seen as an exchange, the scheduler keeps its promise to sinks: only a packet
\* that was published concerns any of them, and none is due a packet that it
\* still reads.
THEOREM ExchangeSound == Spec => []Exchange!TypeOK
<1>1. Exchange!Init => Exchange!TypeOK
  BY DEF Exchange!Init, Exchange!TypeOK, Exchange!Status
<1>2. Exchange!TypeOK /\ [Exchange!Next]_Exchange!vars => Exchange!TypeOK'
  BY ExchangeKeepsRanges
<1>3. QED  BY <1>1, <1>2, Implements, PTL DEF ImplementsExchange, Exchange!Spec
=============================================================================
