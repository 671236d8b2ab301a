# ZAMT, specified and verified

ZAMT analyses live audio in real time. It is a set of modules - audio capture,
Fourier transform, visualization - around a core that starts and stops them and
carries packets of samples between them. This directory holds TLA+ models of
the parts that run concurrently, the TLC runs that check them on small
instances, and TLAPS proofs that hold for every size.

    tlc -config Scheduler_Pipeline.cfg MCScheduler.tla     # a run, see "Runs"
    tlapm SchedulerProofs.tla                              # a proof

`PROJECT.json` lists the runs, the lines of `src/` behind every definition, a
faulty variant of the code (a `Bug...` definition) for every property, the
hazards the properties are aimed at, and the disagreements found.

## The system

| Component | State | Operations | Talks to |
|---|---|---|---|
| **Scheduler** `core/src/Scheduler.cpp` | a table of sources; per source a pool of packets, use flags, reference counts and subscription slots under a spin lock; two task queues, each with a mutex and a condition variable; the worker threads; the shutdown flag | `RegisterSource`, `GetPacketForSubmission`, `SubmitPacket`, `ReleasePacket`, `Subscribe`, `Unsubscribe`, `DoUITaskStep`, `Shutdown`, destructor | called by every module and by the sink callbacks it runs on its own threads |
| **Core** `core/src/Core.cpp`, `main.cpp` | quit callbacks, exit code, `mutex_` and condition variable, the pointer `g_core` for the signal handler | constructor, `RegisterForQuitEvent`, `Quit`, `WaitForQuit`, destructor | owns the scheduler; the main thread waits, module threads and signal handlers quit |
| **ModuleCenter** `core/src/ModuleCenter.cpp` | the list of module instances | create all, initialize all, destroy all in creation order | constructs Core and every module from main |
| **Visualization** `vis_gtk/src/Visualization.cpp` | a deque of windows (title, size, GTK objects, a queried render callback with its mutex), the shutdown flag, the rendering thread | `OpenWindow`, `QueryRender`, `CloseWindow`, `Shutdown`, and on the rendering thread `OnTimeout` (every 40 ms), `OnDraw` | clients on any thread; GTK objects on its own thread; told by Core to quit |
| **LiveAudio** `liveaudio_pulse/src/LiveAudio.cpp` | PulseAudio context and stream, a buffer of samples that do not yet fill a packet, latency and timestamps, the audio thread | `Initialize`, context, source info and stream state callbacks, `ProcessFragment`, `Shutdown` | submits packets of the audio source; quits Core on failure |
| **RawAudioVisualizer** `liveaudio_pulse/src/RawAudioVisualizer.cpp` | a ring buffer and statistics under spin locks | `Show` per packet, `Draw`, destructor | a client of Visualization |
| **FourierTransform** `dft_fftw/src/FourierTransform.cpp` | a worker object with plan, input and output; a timestamp | `Initialize` (subscribe, register), the sink callback | sink of the audio source, producer of its own source, on worker threads |
| **CLIParameters**, **Log** | arguments; none | lookups; printing | everybody |

What is hard here:

- **The scheduler** is called by several threads at once and calls back into
  modules, which call it again. A packet's life spans many critical sections of
  different locks: a sink can release a packet while `SubmitPacket` is still
  handing it out; assertions are evaluated before the lock is taken; the flag
  that stops workers is tested once outside and once inside a mutex; the reader
  count of the source table is a hand-made semaphore with fewer units than there
  may be threads. *Correct* means: counts are exact, no packet is lost or handed
  out twice, no wake-up is lost, shutdown always ends.
- **Quitting** is done from signal handlers, which run on top of any thread,
  holders of locks included, and at any phase of start-up. *Correct* means: once
  somebody quits, `WaitForQuit` returns, and not before all callbacks ran.
- **The windows** are shared by clients, a timer and draw events, partly without
  the mutex. *Correct* means: a window belongs to one client, a query is
  rendered once and in its own window, shutdown ends the thread.
- **The transform** runs in worker callbacks, two at once if packets come fast,
  which share FFTW's buffers and a counter. *Correct* means: every packet leads to
  a result, and results are in order as long as callbacks do not overlap.
- **The picture** is written by the audio thread and read by the rendering thread
  under two locks, taken one after the other. *Correct* means: a picture is of
  one moment, its numbers count what it shows, none is lost or doubled.
- **The life cycle**: modules are destroyed in the order of creation, with
  threads of later modules possibly still running. *Correct* means: no thread
  touches an object that is gone, and whoever quits ends the program.
- **Audio fragments** arrive in any size, with holes and with latencies that
  jump. *Correct* means: every sample is in one packet, in order, unless the pool
  is exhausted; timestamps increase and stay as accurate as the latencies;
  the audio thread ends when it is told to, or when opening fails.

`PROJECT.json` lists each of these hazards at its line, those without a
property yet included.

## Modules

Definitions keep the names of the code. A step is a critical section in which no
other lock is taken and no unprotected variable is read; where the code reads
shared state outside of a lock, that read is a step of its own. The `pc` of a
thread says which step of a call is next.

### `Scheduler` - the packet scheduler

| Code | Model |
|---|---|
| `Source::mtx_`, taken for one block | a step with guard `SourceUnlocked`; `SubmitPacket` holds it over several steps, hence `source_mtx` |
| `free_packets_`, `packet_usages_`, `packet_refcounts_` | same names, per source; packets are their indices |
| `subscriptions_` with emptied callbacks | a sequence of sinks or `NoSink`; slots count from 1, `NoId` is 0 |
| task queues, `std::priority_queue` | `tasks[q]`, a set; `Top` picks any task of least timestamp |
| `cond_var.wait`, `notify_one`, `notify_all` | `waiting`, the set of sleepers; `SpuriousWakeup` at any time |
| `SubmitPacket` | `SubmitPacket` (asserts), `Submit_Lock`, `Submit_EnqueueUI`, `Submit_EnqueueWorkers`, `Submit_NotifyOne` once per worker task, `Submit_Finish` |
| `ReleasePacket` | `ReleasePacket` (asserts), `Release_Locked` |
| `DispatchTasks` | `Dispatch_Loop`, `_Lock`, `_Test`, `_Wait`, `_Pop`; then the callback runs as client code of that thread until `CallbackReturns` |
| `Shutdown`, destructor | flag under the mutex, `Shutdown_NotifyAll`; `Destroy`, `Destroy_Join` |

A sink callback may do all that client code does: acquire and submit packets,
subscribe, shut down. `owed` are the threads whose callback has still to
release, `unreleased` the tasks whose sink (a *slacker*) returned without.
Pending tasks being sets loses nothing: a sink holds one slot, so two pending
tasks differ in packet or sink.

Assumed of callers, from the header and the way the modules call: a thread
fills one packet at a time; a sink is subscribed by its owner, once at a time,
and unsubscribed with the id it was given; a sink releases the packet it was
given at most once; clients leave a scheduler alone that is being destroyed
(callbacks still running do not).

`PacketExchange` is what the scheduler promises, without locks, queues, counts
or threads: a packet is *free*, *filling* or *shared*; publication fixes the
sinks it is due to; each is given it once; it is free again when the last is
done. `Scheduler` states its refinement mapping (`ExchangeStatus`,
`ExchangeDue`, `ExchangeReading`) and the property `ImplementsExchange`, which
is checked by TLC and proved for all sizes. The
moment of publication is `Submit_Lock`: sinks that join later do not get the
packet, sinks that leave later do.

### `SourceTable` - registration and lookup

`RegisterSource`, `GetSourceById` and the four lock operations on
`sources_semaphore`, one step per atomic access and per probe of the binary
search. The semaphore holds one unit more than there are workers; a writer takes
all, a reader one, by load and weak compare-and-swap, which may fail for no
reason. Spin and yield counters only delay and are left out. `Scheduler` uses
this table as if it were a constant, which is what `LookupsSucceed` and
`CallsReturn` license for sources registered before use. Callers are assumed to
look up only ids whose registration has returned, and to register an id once, as
the code asserts.

### `CoreQuit` - start, quit, wait

A *frame* is a thread's own code or a signal handler; each thread has a stack of
frames and only the topmost runs. So a handler that waits for a mutex its own
thread holds waits for ever. `Quit` is the same steps in every frame: its loop
over the callbacks (range fixed when it starts), lock, store, notify.
`WaitForQuit` is lock, load, sleep or return; the 300 ms it sleeps with the
mutex held are the location `grace`. Signals come at any time from the
installation of the handlers on, a module's thread may quit as soon as the first
module has registered, others being yet to follow, and main itself does if asked
for help (`MayAskHelp`). A handler that finds no `g_core` fails its assertion;
`Aborted` is where the model stops for that. `told` remembers how many callbacks
there were when the `Quit` that stored the exit code began. `SignalsWhileLocked`
says whether a signal may interrupt a holder of `mutex_`, as one does in
`quit_locked`.

### `Visualization` - windows

A window is its title (open or not), its canvas (created by the timer or not),
the queried callback, and whether GTK has a redraw queued. `OnTimeout` reads the
flag, closes windows at shutdown (`_Test` without, `_Close` with the mutex),
updates each window, and reads the flag again. `OnDraw` tests without the
callback mutex, takes the callback with it, and runs its copy after unlocking.
GTK may draw any created window at any time (uncovering). A client follows
`RawAudioVisualizer`: one window, a query per packet, closed by its destructor,
which may run at any time, before the timer has created the window and while the
program shuts down included (`LiveAudio.cpp:283`). The assertions of
`CloseWindow` and `QueryRender` are conditions of those steps; where one does
not hold, `Abort` stops all threads, as in a Debug build. Without `assert`, as in
a Release build, the code would go on with a window that is another's or nobody's,
which is not modelled.

### `LiveAudio` - from fragments to packets

| Code | Model |
|---|---|
| the latency plan of `Initialize` | operators over the constants: `submit_buffer_size`, `queue_capacity` |
| context and stream with their states, callbacks run by the main loop | `context`, `stream`; `Context_Ready`, `Context_Fails`, `source_info_callback`, `Stream_Ready`, `Stream_Fails`, in any order PulseAudio may call them |
| `audio_loop_`, `audio_loop_should_run_` | `audio_loop`, assigned a step after the thread runs; `should_run` |
| `Core::Quit` on failure, which calls `Shutdown` on the audio thread | `GiveUp` |
| `ProcessFragment` | `ProcessFragment` (timestamp), then per iteration `KeepRest`, `Overrun`, or `GetPacket` and `SubmitPacket` |
| samples | their position in the stream and what the packet holds for it: sound, silence or garbage |
| the pointer `buffer`, null for a hole | `data`; once advanced from null it points to `garbage` |
| the scheduler's pool | `in_use`, how many packets are not free (`PacketReleased` is the last sink's `ReleasePacket`) |

Time and latency appear only as their difference, which is the capture time of
the fragment's first sample plus one of `Errors`. `Second`, `Scale` and `Epoch`
scale the microseconds, the fixed point and the clock down.
`HolesCross` says whether holes may reach into the next packet, `QuitsEarly`
whether others quit before `Initialize` has returned.

Where the pool is exhausted, line 367 asserts that it is not and the lines after it
drop the fragment's rest. The model takes that branch, as a Release build does;
`NeverOverruns` states the assertion, which the model refutes. The assertions on
the buffer (lines 339-340, 416) and on the stream (96, 134) are in `TypeOK`.

### `FourierTransform` - from packets to results

Built over `PacketExchange`, not over `Scheduler`: that `Scheduler` implements it
(`SchedulerProofs!Implements`) is what licenses that. Besides what the exchange
promises it uses two facts: workers take the earliest packet first
(`EarliestFirst`, proved of the scheduler as well), and the audio source has one
producer at a time.

| Code | Model |
|---|---|
| `Initialize` | `Initialize_Subscribe`, `Initialize_RegisterSource`: a callback may run in between, the audio source being registered and its thread running |
| LiveAudio's `GetPacketForSubmission`, `SubmitPacket` | `Audio_Acquire`, `Audio_Submit`; `Audio_Reclaim` if nobody is subscribed yet |
| the callback | one step per access to what workers share, in the order of `Steps` |
| the `DFTWorkerR2CFFTW` object | `input`, written by `addData`, read by `transform`; two workers in there leave `Mixed` or either's data |
| `static timestamp`, `timestamp++` | `Timestamp_Read`, `Timestamp_Write` |
| the result's packet | acquired, filled and submitted as one of the `dft` source, whose pool is `ResultPool` |
| the assertions on the source (`Scheduler.cpp:263`) and on the result's packet (line 136) | `GetPacketForSubmission_Fails`, after which nothing goes on: `Aborted` |

Samples are the number of the packet they are from. Planning and execution in
FFTW, windowing and the timing printout are left out.

### `RawAudioVisualizer` - ring and statistics

`Show` on the audio thread and `Draw` on the rendering thread, a step per sample
copied in or out and per block under `statistics_mutex_`. A sample is its position
in the stream. Latencies and samples are added under the same mutex in two steps
(`UpdateStatistics_Latency`, `_Samples`), likewise read and reset. `PacketSizes`
has packets smaller than the ring, not dividing it, and larger than it. The window
is reduced to what `Visualization` promises: the last query is rendered once, at
any later time.

### `Lifecycle` - the program from main's first line to its last

| Code | Model |
|---|---|
| ModuleCenter's `module_inits_`, filled by static initializers | `order`, any of `Orders` |
| its three loops | `Create`, `Initialize_Module` (LiveAudio in three steps, since its thread starts inside), `Destroy`, with `next` the module; `alive` the instances |
| threads | `audio`, `gtk`, `worker`, each with a location before each object of somebody else it touches |
| `OnTimeout` with its two reads of the flag | `OnTimeout`, `OnTimeout_Return`; `timer`, whether it is still connected |
| `Core::Quit` of the audio thread and of signal handlers | `Quit_Callback` per callback, `Quit_Store`; `remaining` holds the loop's rest |
| the joins of the destructors | `Joined` |
| `RawAudioVisualizer`, made and destroyed on the audio thread | `visualizer`; a window that still holds a callback bound to it is `queried` |

`NoUseAfterDestroy` compares what each thread is about to touch with what exists.
Assertions that the other modules may fail, which would end the program as well, are
left to their models.
`QuitsEarly` and `LateSignals` say whether somebody quits while modules are
initialized and whether handlers run while they are destroyed.

### Proof modules

`SchedulerProofs`, `SourceTableProofs`, `CoreQuitProofs`, `VisualizationProofs`,
`LiveAudioProofs`, `FourierTransformProofs`, `RawAudioVisualizerProofs` and
`LifecycleProofs` extend the module they prove about; the refinement is in
`SchedulerProofs`. The `MC...` modules give constants their values.

## Runs

All bounds are constants in the `.cfg` files; `Timestamps` bounds the packets
each source produces, `MaxLookups`, `MaxSignals` and `MaxQueries` the calls of
the others. Runs of the scheduler treat workers as interchangeable where only
safety is checked (`WorkersAlike`).

| Run | Instance | Shows |
|---|---|---|
| `pipeline` | 2 workers whose callbacks submit to a second source, as the Fourier transform does; a client that produces and shuts down | `TypeOK`, which says among others that no count is negative; `AssertionsHold`, the unlocked ones included; `NoLostWakeup`; `EarliestFirst`: of an ordered source a sink is never given a later packet while an earlier one is queued for it; `NoTaskAfterShutdown` |
| `subscriptions` | three sinks, one a slacker, subscribed and unsubscribed by three threads, from callbacks too; a pool of 1, two packets | `RefcountMatchesReferences`: the count is the number of sinks that may still read the packet, between any two steps; `SubscriptionIdsValid` although slots are reused; `PacketsPartitioned` with the pool running dry; `ImplementsExchange` |
| `live` | 1 worker, a worker sink and a UI sink, a pool of 1 used twice; shutdown by a client or the destructor | liveness: `PacketsComeBack`, `ShutdownStops` |
| `table` | 2 registering threads, 3 sources out of order, 3 reading threads on 2 units | `ReadersExcludeWriter`, `AssertionsHold` (every lookup finds its source), liveness `CallsReturn` |
| `quit` | -h, an audio thread and two signals, which nest, while modules register two callbacks | `CallbacksCalled`: once an exit code is stored, every callback there was when its `Quit` began has been called with it; `NoLostNotify`, liveness `QuitEndsWait` |
| `windows` | 2 clients, 2 queries each, who open, query and close at any time; quit at any time | `WindowsApart`, `OwnDrawings`, `RendersOnce`; liveness `QueriesRendered` and `ShutdownEndsLoop`: once the flag is set the rendering thread is told to quit, but for a lost timer or a failed assertion, and a tick that has seen it ends the thread, but for a failed assertion |
| `audio` | each kind of device; fragments of 1 to 5 samples cut into packets of 2 from a pool of 2, at most 6 samples; latencies 300 units too short or too long, where a packet lasts 285 | `TypeOK`: one stream at most is opened, the buffer is never full between two iterations; `Skipless`: what is submitted, kept and still to be cut is what was received, once and in order, but for overruns; `TimestampsAccurate`; liveness `LoopEnds` |
| `fourier` | 2 workers in the callback at once, from the moment of the subscription on; 3 packets of audio through a pool of 2, a single result | `TypeOK`: a packet of audio is referenced exactly while a callback may read it; `EmptyPoolInUse`: who finds no free result finds all of them with other callbacks; `ResultsInOrder`; liveness `PacketsTransformed` |
| `visualizer` | a ring of 4, packets of 2, 3 or 6 samples, 4 of them, early and late; drawn at any time | `PictureUntorn`, `StatisticsExact`, `PictureCounted`, liveness `NewestDrawn` |
| `lifecycle` | all 12 orders in which LiveAudio precedes FourierTransform, with and without `-h` and a visualizer; the device may fail; up to 2 signals | `JoinsSuffice`: with LiveAudio first and FourierTransform after Core no thread touches a destroyed module; liveness `QuitEndsProgram` in every order: the program exits unless the rendering thread has lost its timer, and whenever a tick has seen the flag |

`TypeOK` of `SourceTable` and `Visualization` is not run: theorems state it.

Why these bounds suffice: two workers and one more thread let a release meet a
submission, two releases of one packet meet, and a wake-up go to the wrong
sleeper; two packets on a pool of two let an ordered source overtake, and a pool
of one makes it run dry and be reused; the table needs more readers than units
and an insertion before existing entries, and three sources make the search
take two probes; quitting needs one handler on top of another; windows need a
second client that gets the first one's slot. A fragment of up to five samples
meets a buffer with or without a sample: it leaves one, ends with a packet, or
fills two packets and leaves one; six samples make fragments that follow each
other and exhaust a pool of two. Two workers overlap in the callback in every
way that matters to shared variables; a third packet reuses a pool of two, and a
pool of one result is empty whenever they meet there. Four
packets fill a ring of four with any of the sizes, so that a picture is taken
while its oldest sample is overwritten, and statistics are taken between any two
blocks. A second signal finds what the first one's `Quit` has left behind, a third
would find nothing new (that handlers nest is `CoreQuit`'s subject); four modules
are all the program has. The proofs then remove the bounds
from the safety properties they cover.

### Where code and statement disagree

These runs are expected to end in a violation.

- **`quit_locked`** - `Core.h:46`: `WaitForQuit` "blocks execution until someone
  calls Quit()". A signal that interrupts the main thread while `WaitForQuit`
  holds `mutex_` - around each wait, and for the 300 ms of the grace period -
  makes the handler lock the same mutex: `QuitEndsWait` fails.
- **`teardown`** - `Core.h:49-50`: "Objects should not rely on other objects
  existence after this point" (the call of their quit callback). The audio thread
  destroys the visualizer as soon as it is told to quit, while the rendering
  thread, which has taken its copy of the callback, is still about to call it:
  `NoUseAfterDestroy` fails.

Seen while modelling, and without a run of their own; in brackets the
definition that TLC refutes with the constants of the module's `.cfg`, or the
constant to change:

- *Windows.* `OnTimeout` reads the flag at line 129 to end the main loop and at
  line 154 to disconnect its timer; set in between, it does the second only and
  `~Visualization` waits for ever (`QuitAlwaysEnds` of `Lifecycle`; `TimerLost` and
  `Hangs` name the state). `~RawAudioVisualizer` closes its window while the program
  shuts down, when the timer may have closed it, and the assertion of line 73 fails;
  a client that queries it then fails that of line 83; `OpenWindow` and
  `CloseWindow` between two ticks fail that of line 74 (`NeverAborts` of
  `Visualization`).
- *Audio.* `LiveAudio.h:8` says "skipless recording"; a hole is a null
  buffer, to be recorded as silence, but line 386 advances it like any other, so
  if the hole reaches into the next packet the rest is copied from near address
  zero (`Skipless` with `HolesCross = TRUE`). `Shutdown` before `audio_loop_` is
  assigned leaves the audio thread running (`LoopEnds` with `QuitsEarly = TRUE`).
  An exhausted pool fails the assertion of line 367 although the next lines handle it
  (`NeverOverruns`). Not modelled: `1000000 * hw_fragment_size_` overflows for
  latencies of about 50 ms and more (`LiveAudio.cpp:128`); a latency of 0 or 1
  divides by zero (`LiveAudio.cpp:222`).
- *Quit.* A callback registered after `Quit`'s loop began is never called,
  although it "is called immediately when quit is called before core thread starts
  the shutdown process" (`Core.h:48-49`; `AllCallbacksCalled`). A signal between
  `sigaction` and the assignment of `g_core` fails the handler's assertion
  (`Core.cpp:20`; `Aborted`); one that arrives while modules are
  destroyed calls a Core that is gone, `g_core` not being reset
  (`NoUseAfterDestroy` with `LateSignals = TRUE`).
- *Transform.* The callback may run before `Initialize` has registered the source
  it looks up (`Scheduler.cpp:263`), and with more callbacks under way than the 42
  results of the pool one finds none and fails the assertion of line 136, since
  neither `-j` nor the number of processors is bounded by it (`NeverAborts` of
  `FourierTransform`, for both). Two overlapping callbacks share the FFTW buffers and the
  timestamp, so without `~overlapped` `ResultsInOrder` fails; `Scheduler.h:16-18`
  leaves it to sinks to wait for earlier jobs, which this one does not.
- *Visualizer.* Two draws without a packet in between print the sentinels of
  the reset statistics.
- *Start.* `CLIParameters::GetParam` finds a parameter anywhere in an argument,
  not as its prefix (`CLIParameters.h:17`). `DoUITaskStep` is called by tests only,
  so a UI sink of the program as built would never be served.

### Fairness

Safety runs assume none. For liveness:

- `Scheduler`: a call under way goes on (`WF Proceed`): threads are scheduled,
  and a spin lock is held over finitely many steps. Taking a mutex is strongly
  fair (`SF TakeMutex`): it is free again and again, and the C++ library does
  not starve a waiter for ever. Callers do what they owe (`SF Obligation`): a
  producer submits what it acquired, a callback releases and returns; strong,
  because the same thread may subscribe and unsubscribe in between. The UI thread
  calls `DoUITaskStep` again and again - its documented use, though no module
  does it yet. A stop is *not* assumed to happen.
- `SourceTable`: calls go on; a thread that retries its swap again and again is
  not made to fail for ever (`SF ReadLock_Swap`). With lookups without end a
  writer could starve - the code gives it no precedence - which `MaxLookups`
  excludes.
- `CoreQuit`: running frames go on; the mutex is strongly fair. Nobody has to
  quit.
- `Visualization`: handlers return; the timer source is dispatched again and
  again, and so is a queued redraw, however many other events come in between
  (strong: they are disabled while another handler runs); an assertion that fails
  aborts. Clients need not call anything, nor the program quit.
- `LiveAudio`: the main thread gets through `Initialize`, `ProcessFragment` through
  a fragment, and the main loop comes back to its test, since a poll waits at most
  `kWatchDogSeconds`. Nothing is assumed of PulseAudio or of sinks.
- `FourierTransform`: workers and `Initialize` go on; nobody has to record.
- `RawAudioVisualizer`: both threads go on and get a spin lock that is free again
  and again; a query is rendered, which is `Visualization!QueriesRendered`. New
  packets are not assumed: the last picture must be complete without them.
- `Lifecycle`: main, the audio loop, the timer and whoever is in `Quit` go on,
  callbacks and draws return. Nobody has to quit, no signal has to come.

`CHECK_DEADLOCK FALSE` stands where the system really may stop: a main thread
that waits for itself (`quit_locked`), and a rendering thread that has ended
after its clients are gone, or whose timer is gone, or that was aborted
(`Visualization`), an audio
thread that has ended, or to which no sound comes any more (`LiveAudio`,
`RawAudioVisualizer`). Elsewhere
`Finished` and `Destroyed` name the only states in which nothing is left to do,
and any other is reported.

## Proofs

| Theorem | States, for all values of the constants |
|---|---|
| `SchedulerProofs!TypeCorrect` | `[]TypeOK`: among others, no count is negative |
| `SchedulerProofs!CountsExact` | `[]RefcountMatchesReferences` |
| `SchedulerProofs!NoAssertionFails` | `[]AssertionsHold` |
| `SchedulerProofs!PoolPartitioned` | `[]PacketsPartitioned` |
| `SchedulerProofs!NoneStarted` | `NoTaskAfterShutdown`, an action property |
| `SchedulerProofs!IdsValid` | `[]SubscriptionIdsValid` |
| `SchedulerProofs!NothingMissed` | `[]NoLostWakeup` |
| `SchedulerProofs!EarliestTaken` | `[]EarliestFirst` |
| `SchedulerProofs!Implements` | `ImplementsExchange`: `Scheduler` implements `PacketExchange` |
| `SchedulerProofs!ExchangeSound` | `[]Exchange!TypeOK`: seen as an exchange, no sink is due a packet that it still reads |
| `SourceTableProofs!TypeCorrect`, `Exclusion`, `LookupsSucceed` | `[]TypeOK`, `[]ReadersExcludeWriter`, `[]AssertionsHold` |
| `CoreQuitProofs!NotifyArrives` | `[]NoLostNotify` |
| `CoreQuitProofs!AllTold` | `[]CallbacksCalled` |
| `CoreQuitProofs!TypeCorrect` | `[]TypeOK`: among others, a stack is no deeper than the signals delivered, and one |
| `FourierTransformProofs!ResultsInUse` | `[]EmptyPoolInUse` |
| `FourierTransformProofs!OrderKept` | `[]ResultsInOrder` |
| `FourierTransformProofs!TypeCorrect` | `[]TypeOK`: among others, the audio is referenced exactly while some callback may read it |
| `RawAudioVisualizerProofs!PicturesUntorn`, `PicturesCounted` | `[]PictureUntorn`, `[]PictureCounted` |
| `RawAudioVisualizerProofs!StatisticsKept` | `[]StatisticsExact` |
| `RawAudioVisualizerProofs!TypeCorrect` | `[]TypeOK`: among others, the position stays in the ring |
| `LiveAudioProofs!TypeCorrect` | `[]TypeOK`: among others, no more packets are out than the pool has, and one stream at most is opened |
| `LiveAudioProofs!PositionsStay` | `[]PositionsKept`: samples are kept once and in order, holes or not |
| `LiveAudioProofs!NothingSkipped` | `[]Skipless`, if `~HolesCross` |
| `LiveAudioProofs!LabelsAccurate` | `TimestampsAccurate`, an action property |
| `LifecycleProofs!TypeCorrect` | `[]TypeOK`: among others, no thread outlives main |
| `LifecycleProofs!ThreadsJoined` | `[]JoinsSuffice`, if `~LateSignals` |
| `VisualizationProofs!TypeCorrect`, `NoWindowShared`, `DrawingsOwned`, `RenderedOnce` | `[]TypeOK`, `[]WindowsApart`, `[]OwnDrawings`, `[]RendersOnce` |

They assume the named `ASSUME`s of the modules only: finitely many threads and
sinks, at least one worker, pools that are not empty, callers' tables of the
right type, registration orders that list the four modules. Two theorems have an *if*,
on holes that cross packets and on signals while modules are destroyed; the
disagreements above say what happens then.

**Scheduler.** That counts are exact is not inductive. Releasing decrements
before it knows who else reads; submitting counts in two batches under two
mutexes. `IInv` adds, besides the type invariant: `CallInv`, what a thread must
have to be where it is; `LockInv`, a source is locked over several steps by its
publisher only, so nobody else changes its counts between the batches;
`PoolInv`, the free stack has each packet not in use once; `TaskInv`, a task is
in one place - queue, callback or kept - so removing it here does not leave it
there; `FillInv`, a packet being filled has one producer and no reader, and
while it is published only sinks of the queue already served, so each batch
is new; `RefInv`, the count itself. Steps fall into those that leave the
bookkeeping alone (`NeutralStep`) and the others, a lemma each: pop, return,
submit, enqueue, acquire, finish, release. `NoAssertionFails` needs one more
fact, `StackBound`: a stack without repetitions, which misses a packet, is
shorter than the pool.

**What the scheduler promises.** Each of these theorems adds an
invariant to `IInv`.

- `MutexInv`: whoever is at a queue has its mutex, so a worker about to pop has
  seen the flag unset and nobody can have set it since. `NoneStarted` follows.
- `IdInv`: an id is on its way once, to an owner who has none, and a sink has
  exactly the slots that its ids denote. Reuse fills the first empty slot, which no
  id denotes (`PutSlots`).
- `WaitInv`: `NoLostWakeup` is not inductive: it counts the wake-ups of a publication
  before its tasks are queued, so a state in which they stand in for the missing
  wake-ups of other tasks satisfies it, and the queueing breaks it.
  `WakeInv` therefore counts only the wake-ups of publications that have
  queued their tasks (`Announced`); `CountInv` says that a publication will announce
  as many as it queues, nobody being able to subscribe meanwhile, and `IdleInv` that
  a worker about to sleep has seen, in the same critical section, an empty queue and
  the flag unset. Every step is then a balance: queueing adds as many tasks as
  announcements, `notify_one` trades one for a worker on his way, a pop takes one of
  each.
- `OrderInv`: of an ordered source no task is later than the packet acquired last,
  which is the one being filled; until a sink's queue has been served its tasks are
  earlier, so a sink's tasks differ in time. The pop takes the least of a queue, and
  a sink's tasks are all in one.
- The refinement. `OnceInv` says that a sink has at most one task per packet. Then one
  lemma per step: `Publish` happens at `Submit_Lock`, and queueing, dispatching up to
  the pop, and the callback's return are hidden; the pop is `Give`, the release is
  `Done` - the last sink is the one that brings the count to zero, because counts are
  exact -, `Submit_Finish` is `Reclaim` if nobody was subscribed and hidden otherwise.
  `Join` and `Leave` need the source unlocked: a publication under way is not
  affected.

Induction is left to the temporal prover wherever it is over steps. Where it is
over data - the sum of a sequence, in `RawAudioVisualizerProofs` - the library's
induction theorems cannot be used, having an operator as parameter. That proof
states induction over sets instead (`NatSetInduction`, from the well-foundedness
of `<`; `SubsetInduction` from it).

**SourceTable.** `LockInv`: the semaphore is the number of units minus the
readers, or zero while somebody writes, whence exclusion. `TableInv`: the table
is sorted outside the writer's steps, what is known is in it. `SearchInv`:
the range a search has left contains its id. The loop's halving is proved to keep
that, so the search ends at its id; that it ends is left to TLC.

**CoreQuit.** `MutexInv`: who is between lock and unlock holds the mutex, so an
exit code can only appear while main sleeps by a frame that then notifies.
`CallbackInv`: a frame in its loop has called the callbacks before its position,
and one past it all up to the end it began with; callbacks that are registered
meanwhile, and what interrupting frames call, take nothing away. So an exit code
was stored by a frame that had called all those (`told`). `StackInv` says
that a handler is on one stack, once, between its delivery and its return, which
with one delivery for each signal bounds the stacks.

**FourierTransform.** `EmptyPoolInUse` is a pigeonhole: each result not free is
held by a worker between acquiring and finishing (`PoolInv`), a worker holds one at
most, and the one that is about to acquire holds none. Order needs what lies between audio
and result: packets due are numbered in the order they were submitted, the one
in the callback is the next after the results, and the copy, the buffer and the
label of the callback under way are of that packet - which two callbacks under
way would break, hence the history variable `overlapped`. That the `static`
timestamp stays in range does not follow from order, callbacks overlapping: `CountInv`
says that what it has counted, what callbacks are still to count and what is still
due are together at most what was submitted. `ReadInv` gives each packet read
its one worker.

**RawAudioVisualizer.** `RingInv` says what each cell holds, in terms of the
number of samples written and the position of the next: the last `BufferSize`
ones, in order. It is kept sample by sample, packets larger than the ring
included; `LockInv` says that a copy under way sees no write, and `WrittenInv`
that between packets the samples written are those shown. `ImageInv` is the
copy so far; counting before writing, and copying before taking, gives the second
theorem. The statistics are taken in two steps and added to in two: while
`statistics_mutex` is held the samples lag behind the buffers, by one packet or
wholly (`SampleInv`), and nobody sees it. `LatencyInv` follows minimum, maximum
and sum as latencies are appended; the sum is a fold which picks a function's
elements in an order nobody knows, so the order is proved not to matter
(`TotalRemove`).

**LiveAudio.** `CutInv` says where the fragment is while it is cut - its samples are
the last ones received, and the buffer between two packets is never full - which
gives types and assertions; what is new in a state is the opening of a stream
(`StreamInv`). `Skipless` is not inductive: it says nothing of the pointer that the
rest of a fragment is copied from. `OrderInv` is about positions only and holds
whatever holes and overruns do: what was submitted, waits and is still to be cut
are all samples received and not lost, in order. `ValueInv` adds that the pointer is
what the fragment is, and that a hole ends with the packet, which `HolesCross`
denies. For timestamps, `DriftInv` says how far the timestamp of the rest of a fragment has
been taken back by the roundings down of the packets cut from it, `Lag` for each;
there are at most as many as fit into a fragment, and the next latency starts
afresh. `LastInv` says how late the last label can be, which a new one must
exceed. Both rest on lemmas on rounding that need no bound for rates or sizes.

**Lifecycle.** `AliveInv` tells which modules exist from main's phase and position.
`ThreadInv` ties each thread to the module that will join it: as long as it runs,
that module exists. Modules being destroyed in the order of creation, whatever
comes later exists as well (`LaterExist`), which in a safe order is all that the
thread touches. A handler that quits is bound by no join; `SignalInv` says that it
runs before main destroys anything, which is what `LateSignals` denies.

**Visualization.** `SlotInv` says that clients have open windows of their own until
shutdown; afterwards the timer closes them behind their backs and nothing is said.
`QueryInv` says that a client's query waits in one window at most, its own;
`ReuseInv` that until shutdown it goes with the window, which a free one no longer
is; `LoopInv` that the callback under way is older than what its client has
queried since; `CallInv` what a client in a call may count on. A failed assertion
stops everything and so breaks none of them.

**Only model-checked**: the liveness properties, since TLAPS does not reason about
fairness (`PacketsComeBack`, `ShutdownStops`, `CallsReturn`, `QuitEndsWait`,
`QueriesRendered`, `ShutdownEndsLoop`, `LoopEnds`, `PacketsTransformed`, `NewestDrawn`,
`QuitEndsProgram`). Every invariant and every action property that a passing run
checks is a theorem.

## What is left out

- Logging, drawing, argument parsing, the numerical transform: no property is
  about them. `CLIParameters` is pure lookup; `-h` appears as `MayAskHelp`.
- Data races on containers (`on_quit_callbacks_`, `windows_`): undefined below
  the grain of the models, which take the deque operations as atomic. The
  hazards list names them.
- Construction of the scheduler (its initial state), and of modules.
- Of LiveAudio, formats and device names; of FourierTransform, planning, the
  window function and the transform's arithmetic; of RawAudioVisualizer, the
  picture's pixels and text.
- `ModuleCenter::GetId` and `Get`, lookups in a list that no longer changes when
  they are called.

## Plan

Done: all components that keep state and run concurrently, and the proofs above.
What would come next, in this order:

1. `Visualization` as an abstract specification of its own that `RawAudioVisualizer`
   is proved over, as `FourierTransform` is over `PacketExchange`: its `queried`
   stands for that promise now.
2. `SourceTable` as the implementation of a table that is constant, which
   `Scheduler` assumes on the strength of `LookupsSucceed`.

Each module has one run for safety and liveness together, and a second only for a
disagreement; the scheduler has one per instance.
