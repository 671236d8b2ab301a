------------------------------ MODULE Scheduler ------------------------------
(***************************************************************************)
(* The packet scheduler of zamt (core/src/Scheduler.cpp).                  *)
(*                                                                         *)
(* Sources hand out packets from a fixed pool, fill and submit them; one   *)
(* task per subscribed sink is queued for the workers or for the UI        *)
(* thread; sinks release the packet; the last release returns it to the    *)
(* pool.  Threads interleave at every lock they take: the spin lock of a   *)
(* source, the mutex of each task queue, the wait on the condition         *)
(* variable.  A critical section in which no other lock is taken and no    *)
(* unprotected variable is read is one step.                               *)
(*                                                                         *)
(* The sources are the registered ones: the table GetSourceById searches   *)
(* and its reader/writer semaphore are module SourceTable.                 *)
(***************************************************************************)
EXTENDS Integers, Sequences, FiniteSets

CONSTANTS Workers,          \* the worker threads
          UI,               \* the thread that calls DoUITaskStep
          Clients,          \* other threads that use the scheduler
          Sources,          \* the registered sources
          NumPackets,       \* packets_in_queue of every source
          Sinks,            \* the subscribable callbacks
          SourceOf,         \* the source each sink subscribes to
          UISinks,          \* sinks that subscribe with on_UI
          Slackers,         \* sinks that return without releasing
          Timestamps,       \* per source: labels of the packets it produces
          Produces,         \* per thread: sources it submits packets of
          Configures,       \* per thread: sinks it subscribes, unsubscribes
          Stoppers,         \* threads that call Shutdown
          NoThread,         \* owner of a lock that is free
          NoSink            \* the null callback of an empty slot

NoTask   == [packet |-> -1]
NoPacket == [packet |-> -1]
NoId     == 0

Threads     == Workers \cup Clients \cup {UI}
Packets     == 0 .. NumPackets - 1
Queues      == {"UI", "workers"}
TaskType    == [timestamp : Nat, source_id : Sources,
                packet : Packets, sink : Sinks]
FillingType == [timestamp : Nat, source_id : Sources, packet : Packets]
NewIdType   == [sink : Sinks, id : Nat \ {NoId}]
NoNewId     == [id |-> NoId]

ASSUME ThreadAssumption ==
  /\ Workers \cap Clients = {}
  /\ UI \notin Workers \cup Clients
  /\ IsFiniteSet(Workers) /\ IsFiniteSet(Clients)
  /\ Workers # {}
  /\ NoThread \notin Workers \cup Clients \cup {UI}

ASSUME SourceAssumption ==
  /\ NumPackets \in Nat \ {0}
  /\ IsFiniteSet(Sinks)
  /\ NoSink \notin Sinks
  /\ SourceOf \in [Sinks -> Sources]
  /\ UISinks \subseteq Sinks
  /\ Slackers \subseteq Sinks
  /\ Timestamps \in [Sources -> Seq(Nat)]

ASSUME CallerAssumption ==
  /\ Produces   \in [Threads -> SUBSET Sources]
  /\ Configures \in [Threads -> SUBSET Sinks]
  /\ Stoppers \subseteq Threads

VARIABLES
  source_mtx,          \* per source: who holds the spin lock
  free_packets,        \* per source: stack of free packet numbers
  packet_usages,       \* per source and packet: handed out
  packet_refcounts,    \* per source and packet: tasks not yet released
  subscriptions,       \* per source: slots, each a sink or none
  tasks,               \* per queue: the set of pending tasks
  queue_mtx,           \* per queue: who holds its mutex
  waiting,             \* workers asleep on worker_queue_cv_
  shutdown_initiated,
  pc,                  \* per thread: where it is in the code
  filling,             \* per thread: packet acquired and not yet submitted
  notifies,            \* per thread: normal_subscribers still to notify
  running,             \* per thread: the task whose callback it is in
  owed,                \* threads whose callback has still to release
  new_id,              \* per thread: id that a Subscribe is returning
  subscription_id,     \* per sink: the id the subscriber was given
  unreleased,          \* tasks whose callback returned without releasing
  produced             \* per source: packets acquired so far (bounds runs)

sourceVars == <<free_packets, packet_usages, packet_refcounts>>
queueVars  == <<tasks, queue_mtx, waiting>>
subVars    == <<subscriptions, new_id, subscription_id>>
callVars   == <<filling, notifies, running, owed, unreleased, produced>>
vars == <<source_mtx, sourceVars, queueVars, subVars, callVars,
          shutdown_initiated, pc>>

Init ==
  /\ source_mtx = [s \in Sources |-> NoThread]
  /\ free_packets = [s \in Sources |-> [i \in 1..NumPackets |-> NumPackets - i]]
  /\ packet_usages = [s \in Sources |-> [p \in Packets |-> FALSE]]
  /\ packet_refcounts = [s \in Sources |-> [p \in Packets |-> 0]]
  /\ subscriptions = [s \in Sources |-> <<>>]
  /\ tasks = [q \in Queues |-> {}]
  /\ queue_mtx = [q \in Queues |-> NoThread]
  /\ waiting = {}
  /\ shutdown_initiated = FALSE
  /\ pc = [t \in Threads |-> IF t \in Workers THEN "loop" ELSE "client"]
  /\ filling = [t \in Threads |-> NoPacket]
  /\ notifies = [t \in Threads |-> 0]
  /\ running = [t \in Threads |-> NoTask]
  /\ owed = {}
  /\ new_id = [t \in Threads |-> NoNewId]
  /\ subscription_id = [k \in Sinks |-> NoId]
  /\ unreleased = {}
  /\ produced = [s \in Sources |-> 0]

Goto(t, l) == pc' = [pc EXCEPT ![t] = l]

\* Definitions named Bug... are faulty variants of the definition that follows;
\* they serve to see a property fail.
BugNoSpinLock(s)  == TRUE
SourceUnlocked(s) == source_mtx[s] = NoThread

BugNoQueueMutex(q) == q = "UI" => queue_mtx[q] = NoThread
QueueUnlocked(q)   == queue_mtx[q] = NoThread

\* Code outside the scheduler: a client, the UI thread between two calls of
\* DoUITaskStep, or a sink callback.  Clients do not use a scheduler that is
\* being destroyed; callbacks still running do.
Destroying      == pc[UI] \in {"destroy_notify", "join", "destroyed"}
InClientCode(t) == pc[t] = "client" /\ (t \in Clients => ~Destroying)

-----------------------------------------------------------------------------
(* Packets.                                                                *)

\* A null result leaves everything as it is.
GetPacketForSubmission(t, s) ==
  /\ InClientCode(t)
  /\ s \in Produces[t]
  /\ filling[t] = NoPacket
  /\ produced[s] < Len(Timestamps[s])
  /\ SourceUnlocked(s)
  /\ LET free == free_packets[s]
         top  == free[Len(free)]
     IN IF free = <<>>
          THEN UNCHANGED <<free_packets, packet_usages, filling, produced>>
          ELSE /\ free_packets' = [free_packets EXCEPT
                                     ![s] = SubSeq(free, 1, Len(free) - 1)]
               /\ packet_usages' = [packet_usages EXCEPT ![s][top] = TRUE]
               /\ filling' = [filling EXCEPT ![t] =
                                [timestamp |-> Timestamps[s][produced[s] + 1],
                                 source_id |-> s, packet |-> top]]
               /\ produced' = [produced EXCEPT ![s] = @ + 1]
  /\ UNCHANGED <<source_mtx, packet_refcounts, queueVars, subVars, notifies,
                 running, owed, unreleased, shutdown_initiated, pc>>

SubmitPacket(t) ==
  /\ InClientCode(t)
  /\ filling[t] # NoPacket
  /\ Goto(t, "submit")
  /\ UNCHANGED <<source_mtx, sourceVars, queueVars, subVars, callVars,
                 shutdown_initiated>>

Subscribed(s) ==
  {subscriptions[s][i] : i \in DOMAIN subscriptions[s]} \ {NoSink}

NormalSubscribers(s) == Subscribed(s) \ UISinks
UISubscribers(s)     == Subscribed(s) \cap UISinks

Submit_Lock(t) ==
  /\ pc[t] = "submit"
  /\ LET s == filling[t].source_id
     IN /\ SourceUnlocked(s)
        /\ source_mtx' = [source_mtx EXCEPT ![s] = t]
        /\ packet_refcounts' =
             [packet_refcounts EXCEPT ![s][filling[t].packet] = 0]
        /\ notifies' =
             [notifies EXCEPT ![t] = Cardinality(NormalSubscribers(s))]
  /\ Goto(t, "enqueue_UI")
  /\ UNCHANGED <<free_packets, packet_usages, queueVars, subVars, filling,
                 running, owed, unreleased, produced, shutdown_initiated>>

TasksFor(packet, sinks) ==
  {[timestamp |-> packet.timestamp, source_id |-> packet.source_id,
    packet |-> packet.packet, sink |-> k] : k \in sinks}

BugUncounted(s, p, n) == UNCHANGED packet_refcounts
BugOverwrittenCount(s, p, n) ==
  packet_refcounts' = [packet_refcounts EXCEPT ![s][p] = n]
AddReferences(s, p, n) ==
  packet_refcounts' = [packet_refcounts EXCEPT ![s][p] = @ + n]

\* The queue's mutex is taken only if there is something to put in.
Enqueue(t, q, sinks) ==
  LET f == filling[t]
  IN /\ sinks # {} => QueueUnlocked(q)
     /\ tasks' = [tasks EXCEPT ![q] = @ \cup TasksFor(f, sinks)]
     /\ AddReferences(f.source_id, f.packet, Cardinality(sinks))
     /\ UNCHANGED <<source_mtx, free_packets, packet_usages, queue_mtx, waiting,
                    subVars, callVars, shutdown_initiated>>

\* Nobody waits on UI_queue_cv_: its notify_one has no effect.
Submit_EnqueueUI(t) ==
  /\ pc[t] = "enqueue_UI"
  /\ Enqueue(t, "UI", UISubscribers(filling[t].source_id))
  /\ Goto(t, "enqueue_workers")

Submit_EnqueueWorkers(t) ==
  /\ pc[t] = "enqueue_workers"
  /\ Enqueue(t, "workers", NormalSubscribers(filling[t].source_id))
  /\ Goto(t, "notify")

Submit_NotifyOne(t) ==
  /\ pc[t] = "notify"
  /\ notifies[t] > 0
  /\ notifies' = [notifies EXCEPT ![t] = @ - 1]
  /\ IF waiting = {}
       THEN UNCHANGED <<waiting, pc>>
       ELSE \E w \in waiting : /\ waiting' = waiting \ {w}
                               /\ Goto(w, "lock")
  /\ UNCHANGED <<source_mtx, sourceVars, tasks, queue_mtx, subVars, filling,
                 running, owed, unreleased, produced, shutdown_initiated>>

BugLostPacket(s, p) ==
  /\ packet_usages' = [packet_usages EXCEPT ![s][p] = FALSE]
  /\ UNCHANGED free_packets
PutBack(s, p) ==
  /\ free_packets' = [free_packets EXCEPT ![s] = Append(@, p)]
  /\ packet_usages' = [packet_usages EXCEPT ![s][p] = FALSE]

Submit_Finish(t) ==
  /\ pc[t] = "notify"
  /\ notifies[t] = 0
  /\ LET s == filling[t].source_id
         p == filling[t].packet
     IN /\ source_mtx' = [source_mtx EXCEPT ![s] = NoThread]
        /\ IF packet_refcounts[s][p] = 0
             THEN PutBack(s, p)
             ELSE UNCHANGED <<free_packets, packet_usages>>
  /\ filling' = [filling EXCEPT ![t] = NoPacket]
  /\ Goto(t, "client")
  /\ UNCHANGED <<packet_refcounts, queueVars, subVars, notifies, running, owed,
                 unreleased, produced, shutdown_initiated>>

\* Called by a sink from its callback, for the packet the callback was given.
ReleasePacket(t) ==
  /\ InClientCode(t)
  /\ t \in owed
  /\ running[t].sink \notin Slackers
  /\ Goto(t, "release")
  /\ UNCHANGED <<source_mtx, sourceVars, queueVars, subVars, callVars,
                 shutdown_initiated>>

Release_Locked(t) ==
  /\ pc[t] = "release"
  /\ LET s == running[t].source_id
         p == running[t].packet
     IN /\ SourceUnlocked(s)
        /\ packet_refcounts' = [packet_refcounts EXCEPT ![s][p] = @ - 1]
        /\ IF packet_refcounts'[s][p] = 0
             THEN PutBack(s, p)
             ELSE UNCHANGED <<free_packets, packet_usages>>
  /\ owed' = owed \ {t}
  /\ Goto(t, "client")
  /\ UNCHANGED <<source_mtx, queueVars, subVars, filling, notifies, running,
                 unreleased, produced, shutdown_initiated>>

-----------------------------------------------------------------------------
(* Subscriptions.  A sink is subscribed by its owner, who keeps the id.    *)

BugLastSlot(subs, i) == i = IF subs = <<>> THEN 1 ELSE Len(subs)

\* The first slot whose callback is null, or a new slot at the end.  Slots
\* count from 1 here and from 0 in the code.
FirstSlot(subs, i) ==
  /\ i <= Len(subs) => subs[i] = NoSink
  /\ \A j \in 1 .. i - 1 : subs[j] # NoSink

Put(subs, i, k) ==
  IF i \in DOMAIN subs THEN [subs EXCEPT ![i] = k] ELSE Append(subs, k)

BugErasedSlot(subs, i) ==
  SubSeq(subs, 1, i - 1) \o SubSeq(subs, i + 1, Len(subs))
Clear(subs, i) == [subs EXCEPT ![i] = NoSink]

\* The sink's owner has called Subscribe and not yet Unsubscribe.
InUse(k) == \/ subscription_id[k] # NoId
            \/ \E t \in Threads : new_id[t] # NoNewId /\ new_id[t].sink = k

Subscribe(t, k) ==
  /\ InClientCode(t)
  /\ k \in Configures[t]
  /\ ~InUse(k)
  /\ SourceUnlocked(SourceOf[k])
  /\ \E i \in 1 .. Len(subscriptions[SourceOf[k]]) + 1 :
       /\ FirstSlot(subscriptions[SourceOf[k]], i)
       /\ subscriptions' = [subscriptions EXCEPT ![SourceOf[k]] = Put(@, i, k)]
       /\ new_id' = [new_id EXCEPT ![t] = [sink |-> k, id |-> i]]
  /\ Goto(t, "subscribed")
  /\ UNCHANGED <<source_mtx, sourceVars, queueVars, subscription_id, callVars,
                 shutdown_initiated>>

\* The id reaches the subscriber after the source is unlocked.
Subscribe_Return(t) ==
  /\ pc[t] = "subscribed"
  /\ subscription_id' =
       [subscription_id EXCEPT ![new_id[t].sink] = new_id[t].id]
  /\ new_id' = [new_id EXCEPT ![t] = NoNewId]
  /\ Goto(t, "client")
  /\ UNCHANGED <<source_mtx, sourceVars, queueVars, subscriptions, callVars,
                 shutdown_initiated>>

\* The slot is emptied and kept; tasks already queued stay queued.
Unsubscribe(t, k) ==
  /\ InClientCode(t)
  /\ k \in Configures[t]
  /\ subscription_id[k] # NoId
  /\ SourceUnlocked(SourceOf[k])
  /\ subscriptions' = [subscriptions EXCEPT
                         ![SourceOf[k]] = Clear(@, subscription_id[k])]
  /\ subscription_id' = [subscription_id EXCEPT ![k] = NoId]
  /\ UNCHANGED <<source_mtx, sourceVars, queueVars, new_id, callVars,
                 shutdown_initiated, pc>>

-----------------------------------------------------------------------------
(* DispatchTasks.                                                          *)

Queue(t) == IF t = UI THEN "UI" ELSE "workers"

\* A worker dispatches for ever; the UI thread returns after one round.
AfterRound(t) == IF t = UI THEN "client" ELSE "loop"

DoUITaskStep ==
  /\ InClientCode(UI)
  /\ running[UI] = NoTask
  /\ filling[UI] = NoPacket
  /\ Goto(UI, "loop")
  /\ UNCHANGED <<source_mtx, sourceVars, queueVars, subVars, callVars,
                 shutdown_initiated>>

Dispatch_Loop(t) ==
  /\ pc[t] = "loop"
  /\ Goto(t, IF ~shutdown_initiated THEN "lock"
             ELSE IF t = UI THEN "client" ELSE "done")
  /\ UNCHANGED <<source_mtx, sourceVars, queueVars, subVars, callVars,
                 shutdown_initiated>>

\* Entering the critical section, or leaving wait() after a wake-up.
Dispatch_Lock(t) ==
  /\ pc[t] = "lock"
  /\ QueueUnlocked(Queue(t))
  /\ queue_mtx' = [queue_mtx EXCEPT ![Queue(t)] = t]
  /\ Goto(t, "test")
  /\ UNCHANGED <<source_mtx, sourceVars, tasks, waiting, subVars, callVars,
                 shutdown_initiated>>

\* Nothing to do: a worker goes to sleep, the UI thread leaves; both leave on
\* shutdown.
Dispatch_Test(t) ==
  /\ pc[t] = "test"
  /\ IF tasks[Queue(t)] # {} /\ ~shutdown_initiated
       THEN Goto(t, "pop") /\ UNCHANGED queue_mtx
     ELSE IF t # UI /\ ~shutdown_initiated
       THEN Goto(t, "wait") /\ UNCHANGED queue_mtx
     ELSE /\ Goto(t, AfterRound(t))
          /\ queue_mtx' = [queue_mtx EXCEPT ![Queue(t)] = NoThread]
  /\ UNCHANGED <<source_mtx, sourceVars, tasks, waiting, subVars, callVars,
                 shutdown_initiated>>

\* cond_var.wait: unlocks the mutex and falls asleep in one go.
Dispatch_Wait(t) ==
  /\ pc[t] = "wait"
  /\ queue_mtx' = [queue_mtx EXCEPT ![Queue(t)] = NoThread]
  /\ waiting' = waiting \cup {t}
  /\ Goto(t, "waiting")
  /\ UNCHANGED <<source_mtx, sourceVars, tasks, subVars, callVars,
                 shutdown_initiated>>

SpuriousWakeup(t) ==
  /\ t \in waiting
  /\ waiting' = waiting \ {t}
  /\ Goto(t, "lock")
  /\ UNCHANGED <<source_mtx, sourceVars, tasks, queue_mtx, subVars, callVars,
                 shutdown_initiated>>

\* TaskRef::operator<: the earliest timestamp on top, equal ones in any order.
BugLatest(queue) == {k \in queue : \A l \in queue : l.timestamp <= k.timestamp}
Top(queue) == {k \in queue : \A l \in queue : k.timestamp <= l.timestamp}

Dispatch_Pop(t) ==
  /\ pc[t] = "pop"
  /\ \E k \in Top(tasks[Queue(t)]) :
       /\ tasks' = [tasks EXCEPT ![Queue(t)] = @ \ {k}]
       /\ running' = [running EXCEPT ![t] = k]
  /\ queue_mtx' = [queue_mtx EXCEPT ![Queue(t)] = NoThread]
  /\ owed' = owed \cup {t}
  /\ Goto(t, "client")
  /\ UNCHANGED <<source_mtx, sourceVars, waiting, subVars, filling, notifies,
                 unreleased, produced, shutdown_initiated>>

\* The sink callback returns: it has submitted what it acquired, and released
\* its packet unless it is a slacker.
CallbackReturns(t) ==
  /\ InClientCode(t)
  /\ running[t] # NoTask
  /\ filling[t] = NoPacket
  /\ t \in owed => running[t].sink \in Slackers
  /\ unreleased' =
       unreleased \cup (IF t \in owed THEN {running[t]} ELSE {})
  /\ owed' = owed \ {t}
  /\ running' = [running EXCEPT ![t] = NoTask]
  /\ Goto(t, AfterRound(t))
  /\ UNCHANGED <<source_mtx, sourceVars, queueVars, subVars, filling, notifies,
                 produced, shutdown_initiated>>

-----------------------------------------------------------------------------
(* Shutdown and destruction.                                               *)

\* The flag is set under worker_queue_mtx_ and seen by the UI at any time.
BugUnlockedFlag ==
  /\ shutdown_initiated' = TRUE
  /\ UNCHANGED <<source_mtx, sourceVars, queueVars, subVars, callVars>>
SetShutdownFlag ==
  /\ QueueUnlocked("workers")
  /\ shutdown_initiated' = TRUE
  /\ UNCHANGED <<source_mtx, sourceVars, queueVars, subVars, callVars>>

Shutdown(t) ==
  /\ InClientCode(t)
  /\ t \in Stoppers
  /\ SetShutdownFlag
  /\ Goto(t, "notify_all")

\* Wakes every sleeping worker; Shutdown returns to its caller, the
\* destructor goes on to join.
Shutdown_NotifyAll(t) ==
  /\ pc[t] \in {"notify_all", "destroy_notify"}
  /\ waiting' = {}
  /\ pc' = [u \in Threads |->
              IF u \in waiting THEN "lock"
              ELSE IF u # t THEN pc[u]
              ELSE IF pc[t] = "notify_all" THEN "client" ELSE "join"]
  /\ UNCHANGED <<source_mtx, sourceVars, tasks, queue_mtx, subVars, callVars,
                 shutdown_initiated>>

\* The UI thread destroys the scheduler when no client is using it.
Unused ==
  /\ running[UI] = NoTask /\ filling[UI] = NoPacket
  /\ \A t \in Clients : pc[t] = "client" /\ filling[t] = NoPacket

Destroy ==
  /\ InClientCode(UI)
  /\ Unused
  /\ IF shutdown_initiated
       THEN /\ Goto(UI, "join")
            /\ UNCHANGED <<source_mtx, sourceVars, queueVars, subVars, callVars,
                           shutdown_initiated>>
       ELSE /\ SetShutdownFlag
            /\ Goto(UI, "destroy_notify")

Destroy_Join ==
  /\ pc[UI] = "join"
  /\ \A w \in Workers : pc[w] = "done"
  /\ Goto(UI, "destroyed")
  /\ UNCHANGED <<source_mtx, sourceVars, queueVars, subVars, callVars,
                 shutdown_initiated>>

-----------------------------------------------------------------------------

\* What code outside the scheduler may do.
Call(t) ==
  \/ \E s \in Sources : GetPacketForSubmission(t, s)
  \/ SubmitPacket(t)
  \/ ReleasePacket(t)
  \/ \E k \in Sinks : Subscribe(t, k) \/ Unsubscribe(t, k)
  \/ Shutdown(t)
  \/ CallbackReturns(t)

\* The steps of a call under way that take a mutex.
TakeMutex(t) ==
  \/ Submit_EnqueueUI(t)
  \/ Submit_EnqueueWorkers(t)
  \/ Dispatch_Lock(t)

\* The other steps of a call under way.
Proceed(t) ==
  \/ Submit_Lock(t)
  \/ Submit_NotifyOne(t)
  \/ Submit_Finish(t)
  \/ Release_Locked(t)
  \/ Subscribe_Return(t)
  \/ Dispatch_Loop(t)
  \/ Dispatch_Test(t)
  \/ Dispatch_Wait(t)
  \/ Dispatch_Pop(t)
  \/ Shutdown_NotifyAll(t)

Destroyed == pc[UI] = "destroyed" /\ UNCHANGED vars

Next ==
  \/ \E t \in Threads : Call(t) \/ TakeMutex(t) \/ Proceed(t)
  \/ \E w \in Workers : SpuriousWakeup(w)
  \/ DoUITaskStep
  \/ Destroy
  \/ Destroy_Join
  \/ Destroyed

Spec == Init /\ [][Next]_vars

\* What code outside the scheduler owes: a producer submits what it acquired, a
\* callback releases its packet and returns.
Obligation(t) == SubmitPacket(t) \/ ReleasePacket(t) \/ CallbackReturns(t)

\* A call under way goes on; a mutex that is released again and again is
\* eventually had; obligations are met, and the main loop calls DoUITaskStep
\* again, however often the same threads subscribe and unsubscribe in between.
Fairness ==
  /\ \A t \in Threads :
       WF_vars(Proceed(t)) /\ SF_vars(TakeMutex(t)) /\ SF_vars(Obligation(t))
  /\ SF_vars(DoUITaskStep)
  /\ WF_vars(Destroy_Join)

FairSpec == Spec /\ Fairness

-----------------------------------------------------------------------------
(* Properties.                                                             *)

Locations == {"client", "submit", "enqueue_UI", "enqueue_workers", "notify",
              "release", "subscribed", "loop", "lock", "test", "wait",
              "waiting", "pop", "done", "notify_all", "destroy_notify", "join",
              "destroyed"}

\* The variables stay in their ranges: among them, a reference count is never
\* negative and the lists hold packet numbers and sinks.
TypeOK ==
  /\ source_mtx \in [Sources -> Threads \cup {NoThread}]
  /\ free_packets \in [Sources -> Seq(Packets)]
  /\ packet_usages \in [Sources -> [Packets -> BOOLEAN]]
  /\ packet_refcounts \in [Sources -> [Packets -> Nat]]
  /\ subscriptions \in [Sources -> Seq(Sinks \cup {NoSink})]
  /\ tasks \in [Queues -> SUBSET TaskType]
  /\ queue_mtx \in [Queues -> Threads \cup {NoThread}]
  /\ waiting \subseteq Workers
  /\ shutdown_initiated \in BOOLEAN
  /\ pc \in [Threads -> Locations]
  /\ filling \in [Threads -> FillingType \cup {NoPacket}]
  /\ notifies \in [Threads -> Nat]
  /\ running \in [Threads -> TaskType \cup {NoTask}]
  /\ owed \subseteq Threads
  /\ new_id \in [Threads -> NewIdType \cup {NoNewId}]
  /\ subscription_id \in [Sinks -> Nat]
  /\ unreleased \subseteq TaskType
  /\ produced \in [Sources -> Nat]

\* The tasks through which somebody may still read the packet: pending ones,
\* those whose callback has not released, those that never will.
References(s, p) ==
  {k \in tasks["UI"] \cup tasks["workers"] \cup unreleased
           \cup {running[t] : t \in owed} :
     k.source_id = s /\ k.packet = p}

Fillers(s, p) == {t \in Threads : /\ filling[t] # NoPacket
                                  /\ filling[t].source_id = s
                                  /\ filling[t].packet = p}

\* The assertions of the code hold, the ones evaluated before the source is
\* locked (SubmitPacket, ReleasePacket) whatever the other threads do meanwhile.
AssertionsHold ==
  /\ \A t \in Threads :
       /\ pc[t] = "submit" =>
            LET s == filling[t].source_id
                p == filling[t].packet
            IN /\ Len(free_packets[s]) < NumPackets
               /\ packet_usages[s][p]
               /\ packet_refcounts[s][p] = 0
       /\ pc[t] = "release" =>
            LET s == running[t].source_id
                p == running[t].packet
            IN /\ Len(free_packets[s]) < NumPackets
               /\ packet_usages[s][p]
               /\ packet_refcounts[s][p] > 0
  /\ \A s \in Sources :
       /\ Len(free_packets[s]) <= NumPackets
       /\ \A i \in DOMAIN free_packets[s] :
            /\ ~packet_usages[s][free_packets[s][i]]
            /\ packet_refcounts[s][free_packets[s][i]] = 0

\* A packet's reference count is the number of sinks that may still read it,
\* at every moment of every submission, dispatch and release.
RefcountMatchesReferences ==
  \A s \in Sources, p \in Packets :
    packet_refcounts[s][p] = Cardinality(References(s, p))

\* No packet is lost or handed out twice: a packet is on the free stack once
\* and nobody has it, or it is off the stack and one producer or some sinks
\* have it.
PacketsPartitioned ==
  \A s \in Sources, p \in Packets :
    LET onStack == {i \in DOMAIN free_packets[s] : free_packets[s][i] = p}
    IN IF packet_usages[s][p]
         THEN /\ onStack = {}
              /\ \/ Fillers(s, p) = {} /\ References(s, p) # {}
                 \/ Cardinality(Fillers(s, p)) = 1
         ELSE /\ Cardinality(onStack) = 1
              /\ Fillers(s, p) = {} /\ References(s, p) = {}

\* Wake-ups still owed by SubmitPacket, and workers on their way to the queue.
PendingNotifies == UNION {{t} \X (1 .. notifies[t]) : t \in Threads}
Dispatching     == {w \in Workers : pc[w] \in {"loop", "lock", "test", "pop"}}

\* No wake-up is lost: as long as a worker sleeps, every pending task is matched
\* by a notify_one still to come or a worker heading for the queue; after the
\* shutdown flag is set, whoever set it has still to call notify_all.
NoLostWakeup ==
  waiting # {} =>
    IF shutdown_initiated
      THEN \E t \in Threads : pc[t] \in {"notify_all", "destroy_notify"}
      ELSE Cardinality(tasks["workers"]) <=
             Cardinality(PendingNotifies) + Cardinality(Dispatching)

\* Reusing the slots that Unsubscribe empties never gives two subscribers the
\* same id: an id somebody holds, or is about to be given, denotes his sink's
\* slot and no other slot holds that sink.
SubscriptionIdsValid ==
  \A k \in Sinks :
    LET subs  == subscriptions[SourceOf[k]]
        given == {subscription_id[k]} \ {NoId}
        coming == {new_id[t].id : t \in {u \in Threads :
                     new_id[u] # NoNewId /\ new_id[u].sink = k}}
    IN {i \in DOMAIN subs : subs[i] = k} = given \cup coming

\* The one thread that produces the source labels its packets in time order.
ProducedInOrder(s) ==
  /\ Cardinality({t \in Threads : s \in Produces[t]}) <= 1
  /\ \A i \in 1 .. Len(Timestamps[s]) - 1 :
       Timestamps[s][i] < Timestamps[s][i + 1]

\* Of the packets of an ordered source a sink is never given a later one while
\* an earlier one is still queued for it, so a callback that waits for earlier
\* jobs to finish waits only for callbacks already running (Scheduler.h:17-18).
EarliestFirst ==
  \A t \in Threads, q \in Queues : \A k \in tasks[q] :
    LET r == running[t]
    IN r # NoTask /\ r.sink = k.sink /\ ProducedInOrder(k.source_id) =>
         r.timestamp < k.timestamp

\* No worker starts a task once Shutdown has set the flag: the test of the flag
\* and the pop are one critical section of the mutex Shutdown takes.
NoTaskAfterShutdown ==
  [][shutdown_initiated => tasks["workers"] \subseteq tasks'["workers"]]_vars

\* After Shutdown every worker leaves its loop, asleep or not, so that the
\* destructor returns.
ShutdownStops ==
  /\ shutdown_initiated ~> \A w \in Workers : pc[w] = "done"
  /\ (pc[UI] = "destroy_notify") ~> (pc[UI] = "destroyed")

\* Every packet handed out comes back to the pool, unless the scheduler is shut
\* down or a sink keeps it.
PacketsComeBack ==
  \A s \in Sources, p \in Packets :
    packet_usages[s][p] ~>
      \/ ~packet_usages[s][p]
      \/ shutdown_initiated
      \/ \E k \in unreleased : k.source_id = s /\ k.packet = p

-----------------------------------------------------------------------------
(* What the scheduler promises: module PacketExchange.                     *)

Publishing(s, p) ==
  {t \in Fillers(s, p) : pc[t] \in {"enqueue_UI", "enqueue_workers", "notify"}}

ToEnqueue(t) ==
  CASE pc[t] = "enqueue_UI"      -> Subscribed(filling[t].source_id)
    [] pc[t] = "enqueue_workers" -> NormalSubscribers(filling[t].source_id)
    [] OTHER                     -> {}

ExchangeStatus ==
  [s \in Sources |-> [p \in Packets |->
     IF ~packet_usages[s][p] THEN "free"
     ELSE IF Publishing(s, p) = {} /\ Fillers(s, p) # {} THEN "filling"
     ELSE "shared"]]

\* Sinks whose task is queued or about to be.
ExchangeDue ==
  [s \in Sources |-> [p \in Packets |->
     {k.sink : k \in {l \in tasks["UI"] \cup tasks["workers"] :
                        l.source_id = s /\ l.packet = p}}
       \cup UNION {ToEnqueue(t) : t \in Publishing(s, p)}]]

\* Sinks that were given the packet and have not released it.
ExchangeReading ==
  [s \in Sources |-> [p \in Packets |->
     {k.sink : k \in {l \in {running[t] : t \in owed} \cup unreleased :
                        l.source_id = s /\ l.packet = p}}]]

Exchange == INSTANCE PacketExchange WITH
  status <- ExchangeStatus, due <- ExchangeDue, reading <- ExchangeReading,
  subscribed <- [s \in Sources |-> Subscribed(s)]

\* The scheduler implements the packet exchange.
ImplementsExchange == Exchange!Spec
=============================================================================
