------------------------------- MODULE Lifecycle -------------------------------
(***************************************************************************)
(* The life of the program: ModuleCenter creates the modules, initializes  *)
(* them, and destroys them in the same order, whichever order their static *)
(* registration had; in between main waits for somebody to quit.  The      *)
(* modules' threads run from their start to their join: audio (LiveAudio), *)
(* gtk (Visualization) and a worker of Core's scheduler, which runs the    *)
(* callback of FourierTransform.                                           *)
(*                                                                         *)
(* A step that touches an object has a location of its own, so that other  *)
(* threads may destroy the object first.  Locks, windows, packets and the  *)
(* waiting itself are the other modules' subject.                          *)
(***************************************************************************)
EXTENDS Integers, Sequences, FiniteSets

CONSTANTS Orders,       \* in which the modules may have been registered
          MaxSignals,   \* bounds the signals
          QuitsEarly,   \* quit while modules are still initialized
          LateSignals   \* signal handlers run while modules are destroyed

Modules == {"Core", "LiveAudio", "Visualization", "FourierTransform"}

ASSUME LifecycleAssumption ==
  /\ \A o \in Orders : o \in [1 .. Cardinality(Modules) -> Modules]
                       /\ {o[i] : i \in DOMAIN o} = Modules
  /\ MaxSignals \in Nat
  /\ QuitsEarly \in BOOLEAN /\ LateSignals \in BOOLEAN

Params == {"-h", "-sLiveAudio"}

VARIABLES
  order,         \* module_inits_
  argv,          \* the parameters given
  main, next,    \* what main does, with which module
  alive,         \* module instances
  callbacks,     \* modules in the order of their quit callbacks
  exit_code,     \* there is one
  audio, opened, audio_loop, should_run,
  visualizer,    \* the RawAudioVisualizer exists
  queried,       \* its window has a callback to render
  gtk, timer,    \* the rendering thread; OnTimeout is connected
  shutdown_initiated,
  worker, tasks, subscribed,
  signal,        \* the handler runs
  signals,       \* delivered so far
  remaining      \* per frame in Quit: callbacks still to be called

mainVars   == <<main, next, alive, callbacks, subscribed>>
audioVars  == <<audio, opened, visualizer>>
gtkVars    == <<gtk, timer, queried>>
workerVars == <<worker, tasks>>
quitVars   == <<exit_code, audio_loop, should_run, shutdown_initiated,
                remaining, signal, signals>>
options    == <<order, argv>>
vars == <<options, mainVars, audioVars, gtkVars, workerVars, quitVars>>

HasParam(param) == param \in argv

Init ==
  /\ order \in Orders /\ argv \in SUBSET Params
  /\ main = "create" /\ next = 1 /\ alive = {} /\ callbacks = <<>>
  /\ exit_code = FALSE
  /\ audio = "none" /\ opened = FALSE /\ audio_loop = FALSE
  /\ should_run = ~HasParam("-h")
  /\ visualizer = FALSE /\ queried = FALSE
  /\ gtk = "none" /\ timer = FALSE /\ shutdown_initiated = FALSE
  /\ worker = "idle" /\ tasks = FALSE /\ subscribed = FALSE
  /\ signal = FALSE /\ signals = 0
  /\ remaining = [f \in {"audio", "signal"} |-> <<>>]

-----------------------------------------------------------------------------
(* The main thread.                                                        *)

Module == order[next]

\* The loops of ModuleCenter: on to the next module, then to the next phase.
Advance(phase, after) ==
  /\ main' = IF next = Len(order) THEN after ELSE phase
  /\ next' = (next % Len(order)) + 1

\* Core with -h quits, Visualization without it starts its thread.
Create ==
  /\ main = "create"
  /\ alive' = alive \cup {Module}
  /\ exit_code' = (exit_code \/ (Module = "Core" /\ HasParam("-h")))
  /\ IF Module = "Visualization" /\ ~HasParam("-h")
       THEN gtk' = "loop" /\ timer' = TRUE
       ELSE UNCHANGED <<gtk, timer>>
  /\ Advance("create", "initialize")
  /\ UNCHANGED <<options, callbacks, subscribed, audioVars, queried, workerVars,
                 audio_loop, should_run, shutdown_initiated, remaining, signal,
                 signals>>

\* Visualization registers for the quit event with and without -h.
Initialize_Module ==
  /\ main = "initialize"
  /\ Module # "LiveAudio" \/ HasParam("-h")
  /\ callbacks' = IF Module = "Visualization" THEN Append(callbacks, Module)
                                              ELSE callbacks
  /\ Module = "FourierTransform" /\ ~HasParam("-h") =>
       \E i \in DOMAIN callbacks : callbacks[i] = "LiveAudio"
  /\ subscribed' = ((Module = "FourierTransform" /\ ~HasParam("-h"))
                       \/ subscribed)
  /\ Advance("initialize", "wait")
  /\ UNCHANGED <<options, alive, audioVars, gtkVars, workerVars, quitVars>>

LiveAudio_Register ==
  /\ main = "initialize"
  /\ Module = "LiveAudio" /\ ~HasParam("-h")
  /\ callbacks' = Append(callbacks, Module)
  /\ main' = "launch"
  /\ UNCHANGED <<options, next, alive, subscribed, audioVars, gtkVars,
                 workerVars, quitVars>>

LiveAudio_Launch ==
  /\ main = "launch"
  /\ audio' = "start"
  /\ main' = "assign"
  /\ UNCHANGED <<options, next, alive, callbacks, subscribed, opened,
                 visualizer, gtkVars, workerVars, quitVars>>

LiveAudio_Assign ==
  /\ main = "assign"
  /\ audio_loop' = TRUE
  /\ Advance("initialize", "wait")
  /\ UNCHANGED <<options, alive, callbacks, subscribed, audioVars, gtkVars,
                 workerVars, exit_code, should_run, shutdown_initiated,
                 remaining, signal, signals>>

\* WaitForQuit, its 300 ms included.
WaitForQuit ==
  /\ main = "wait"
  /\ exit_code
  /\ LateSignals \/ ~signal
  /\ main' = "destroy"
  /\ UNCHANGED <<options, next, alive, callbacks, subscribed, audioVars,
                 gtkVars, workerVars, quitVars>>

BugJoinsNothing(m) == TRUE
BugNoWorkerJoin(m) ==
  CASE m = "LiveAudio" -> audio_loop => audio = "ended"
    [] m = "Visualization" -> gtk \in {"none", "ended"}
    [] OTHER -> TRUE

\* The threads a destructor joins have ended.
Joined(m) ==
  CASE m = "Core" -> worker = "idle"
    [] m = "LiveAudio" -> audio_loop => audio = "ended"
    [] m = "Visualization" -> gtk \in {"none", "ended"}
    [] m = "FourierTransform" -> TRUE

Destroy ==
  /\ main = "destroy"
  /\ Joined(Module)
  /\ alive' = alive \ {Module}
  /\ Advance("destroy", "exited")
  /\ UNCHANGED <<options, callbacks, subscribed, audioVars, gtkVars, workerVars,
                 quitVars>>

-----------------------------------------------------------------------------
(* Quit, in the audio thread or in a signal handler.                       *)

Initialized == main \in {"wait", "destroy"}
MayQuit     == QuitsEarly \/ Initialized

BugForgetsCallbacks == <<>>
QuitCallbacks       == callbacks

Signal ==
  /\ "Core" \in alive \/ main = "destroy"
  /\ MayQuit /\ (LateSignals \/ main # "destroy") /\ main # "exited"
  /\ ~signal /\ signals < MaxSignals
  /\ signal' = TRUE /\ signals' = signals + 1
  /\ remaining' = [remaining EXCEPT !["signal"] = QuitCallbacks]
  /\ UNCHANGED <<options, mainVars, audioVars, gtkVars, workerVars, exit_code,
                 audio_loop, should_run, shutdown_initiated>>

Quits(f) == IF f = "signal" THEN signal ELSE audio \in {"fail", "disconnect"}

\* LiveAudio's Shutdown does nothing before its thread is assigned.
Quit_Callback(f) ==
  /\ Quits(f)
  /\ remaining[f] # <<>>
  /\ remaining' = [remaining EXCEPT ![f] = Tail(@)]
  /\ IF Head(remaining[f]) = "LiveAudio"
       THEN /\ should_run' = (should_run /\ ~audio_loop)
            /\ UNCHANGED shutdown_initiated
       ELSE shutdown_initiated' = TRUE /\ UNCHANGED should_run
  /\ UNCHANGED <<options, mainVars, audioVars, gtkVars, workerVars, exit_code,
                 audio_loop, signal, signals>>

Quit_Store(f) ==
  /\ Quits(f)
  /\ remaining[f] = <<>>
  /\ exit_code' = TRUE
  /\ signal' = (signal /\ f # "signal")
  /\ audio' = IF f # "audio" THEN audio
              ELSE IF audio = "fail" THEN "loop" ELSE "ended"
  /\ UNCHANGED <<options, mainVars, opened, visualizer, gtkVars, workerVars,
                 audio_loop, should_run, shutdown_initiated, remaining,
                 signals>>

-----------------------------------------------------------------------------
(* The audio thread.                                                       *)

\* Takes the audio thread from one location to another.
Audio(from, to) ==
  /\ audio = from
  /\ audio' = to
  /\ UNCHANGED <<options, mainVars, gtk, timer, worker, exit_code, audio_loop,
                 shutdown_initiated, signal, signals>>

Audio_Start ==
  /\ Audio("start", "loop")
  /\ visualizer' = HasParam("-sLiveAudio")
  /\ UNCHANGED <<opened, queried, tasks, should_run, remaining>>

Audio_Open ==
  /\ Audio("loop", "loop")
  /\ should_run /\ ~opened
  /\ opened' = TRUE
  /\ UNCHANGED <<visualizer, queried, tasks, should_run, remaining>>

\* The device list, or a failure.
Audio_Fail ==
  /\ Audio("loop", "fail")
  /\ should_run /\ ~opened
  /\ MayQuit
  /\ should_run' = FALSE
  /\ opened' = TRUE
  /\ remaining' = [remaining EXCEPT !["audio"] = QuitCallbacks]
  /\ UNCHANGED <<visualizer, queried, tasks>>

Audio_Fragment ==
  /\ Audio("loop", IF visualizer THEN "show" ELSE "submit")
  /\ should_run /\ opened
  /\ UNCHANGED <<opened, visualizer, queried, tasks, should_run, remaining>>

Audio_Show ==
  /\ Audio("show", "submit")
  /\ queried' = TRUE
  /\ UNCHANGED <<opened, visualizer, tasks, should_run, remaining>>

Audio_Submit ==
  /\ Audio("submit", "loop")
  /\ tasks' = subscribed
  /\ UNCHANGED <<opened, visualizer, queried, should_run, remaining>>

Audio_Stop ==
  /\ Audio("loop", "close")
  /\ ~should_run
  /\ UNCHANGED <<opened, visualizer, queried, tasks, should_run, remaining>>

\* Disconnecting before the opening is over is taken for a failure.
Audio_Close ==
  /\ Audio("close", IF opened THEN "ended" ELSE "disconnect")
  /\ visualizer' = FALSE
  /\ remaining' = IF opened THEN remaining
                  ELSE [remaining EXCEPT !["audio"] = QuitCallbacks]
  /\ UNCHANGED <<opened, queried, tasks, should_run>>

-----------------------------------------------------------------------------
(* The rendering thread and a worker.                                      *)

OnDraw ==
  /\ gtk = "loop"
  /\ queried /\ ~shutdown_initiated
  /\ gtk' = "draw" /\ queried' = FALSE
  /\ UNCHANGED <<options, mainVars, audioVars, timer, workerVars, quitVars>>

Draw ==
  /\ gtk = "draw"
  /\ gtk' = "loop"
  /\ UNCHANGED <<options, mainVars, audioVars, timer, queried, workerVars,
                 quitVars>>

\* The connected timer fires again and again.  It reads the flag twice: first to
\* tell the main loop to quit, then, its windows updated, to stay connected.
OnTimeout ==
  /\ gtk = "loop"
  /\ timer
  /\ gtk' = IF shutdown_initiated THEN "quit" ELSE "update"
  /\ UNCHANGED <<options, mainVars, audioVars, timer, queried, workerVars,
                 quitVars>>

BugLoopsOn == "loop"
LoopThen   == IF gtk = "quit" THEN "ended" ELSE "loop"

OnTimeout_Return ==
  /\ gtk \in {"quit", "update"}
  /\ timer' = ~shutdown_initiated
  /\ gtk' = LoopThen
  /\ UNCHANGED <<options, mainVars, audioVars, queried, workerVars, quitVars>>

\* ~Core has told the scheduler to shut down before it joins the workers.
SchedulerRuns == "Core" \in alive /\ ~(main = "destroy" /\ Module = "Core")

Worker_Start ==
  /\ worker = "idle"
  /\ tasks /\ SchedulerRuns
  /\ worker' = "callback" /\ tasks' = FALSE
  /\ UNCHANGED <<options, mainVars, audioVars, gtkVars, quitVars>>

Worker_Return ==
  /\ worker = "callback"
  /\ worker' = "idle"
  /\ UNCHANGED <<options, mainVars, audioVars, gtkVars, tasks, quitVars>>

-----------------------------------------------------------------------------

Main == \/ Create \/ Initialize_Module
        \/ LiveAudio_Register \/ LiveAudio_Launch \/ LiveAudio_Assign
        \/ WaitForQuit \/ Destroy

AudioStep == \/ Audio_Start \/ Audio_Show \/ Audio_Submit
             \/ Audio_Stop \/ Audio_Close

Quit(f) == Quit_Callback(f) \/ Quit_Store(f)

\* The flag was set between the two reads of one tick: the rendering thread's
\* main loop goes on, nobody tells it to quit, and main waits for it for ever.
Hangs == main = "destroy" /\ Module = "Visualization" /\ gtk = "loop" /\ ~timer

Finished == (main = "exited" \/ Hangs) /\ UNCHANGED vars

Next ==
  \/ Main \/ AudioStep \/ Audio_Open \/ Audio_Fail \/ Audio_Fragment
  \/ OnDraw \/ Draw \/ OnTimeout \/ OnTimeout_Return
  \/ Worker_Start \/ Worker_Return
  \/ Signal \/ \E f \in {"audio", "signal"} : Quit(f)
  \/ Finished

Spec == Init /\ [][Next]_vars

\* Main, the audio loop and the timer go on, whoever calls Quit gets through,
\* and callbacks return.
FairSpec ==
  /\ Spec
  /\ WF_vars(Main) /\ WF_vars(AudioStep) /\ WF_vars(Worker_Return)
  /\ WF_vars(Draw) /\ SF_vars(OnTimeout) /\ WF_vars(OnTimeout_Return)
  /\ \A f \in {"audio", "signal"} : WF_vars(Quit(f))

-----------------------------------------------------------------------------
(* Properties.                                                             *)

\* The variables stay in their ranges.  Also, main exits only when the threads
\* it started have ended: none runs on in objects that are gone.
TypeOK ==
  /\ order \in Orders /\ argv \subseteq Params
  /\ main \in {"create", "initialize", "launch", "assign", "wait", "destroy",
               "exited"}
  /\ next \in DOMAIN order /\ alive \subseteq Modules
  /\ callbacks \in Seq({"LiveAudio", "Visualization"})
  /\ audio \in {"none", "start", "loop", "fail", "show", "submit", "close",
                "disconnect", "ended"}
  /\ gtk \in {"none", "loop", "draw", "quit", "update", "ended"}
  /\ worker \in {"idle", "callback"}
  /\ signals \in 0 .. MaxSignals
  /\ main = "exited" =>
       /\ audio \in {"none", "ended"} /\ gtk \in {"none", "ended"}
       /\ worker = "idle"

\* What the threads are about to touch.
AudioUses ==
  CASE audio = "start" /\ HasParam("-sLiveAudio") -> {"Visualization"}
    [] audio = "close" /\ visualizer -> {"Visualization"}
    [] audio = "show" -> {"Visualization", "visualizer"}
    [] audio \in {"submit", "fail", "disconnect"} -> {"Core"}
    [] OTHER -> {}
DrawUses   == IF gtk = "draw" THEN {"visualizer"} ELSE {}
WorkerUses == IF worker = "callback" THEN {"FourierTransform", "Core"} ELSE {}
QuitUses   ==
  (IF signal THEN {"Core"} ELSE {})
    \cup {Head(remaining[f]) : f \in {g \in {"audio", "signal"} :
                                        Quits(g) /\ remaining[g] # <<>>}}

Existing == alive \cup (IF visualizer THEN {"visualizer"} ELSE {})

\* Objects do not "rely on other objects existence after this point"
\* (Core.h:49-50), the call of their quit callback: no thread touches an object
\* that is destroyed.
NoUseAfterDestroy ==
  AudioUses \cup DrawUses \cup WorkerUses \cup QuitUses \subseteq Existing

Before(a, b) == \E i, j \in DOMAIN order : i < j /\ order[i] = a /\ order[j] = b

SafeOrder == /\ Before("LiveAudio", "Core")
             /\ Before("LiveAudio", "Visualization")
             /\ Before("Core", "FourierTransform")

\* If LiveAudio goes first and FourierTransform after Core, the joins in the
\* destructors suffice: no thread touches a module that is destroyed, however
\* long it takes to notice that the program quits.
JoinsSuffice ==
  SafeOrder => AudioUses \cup WorkerUses \cup QuitUses \subseteq
                 Existing \cup {"visualizer"}

\* Once somebody has quit, the program exits (Core.h:44: "normal shutdown of the
\* system"), whichever order the modules were registered in.  Only a timer lost
\* between its two reads of the flag keeps it from that, and nothing else does:
\* main still gets as far as the join in ~Visualization, and a tick that has seen
\* the flag ends the program.
QuitEndsProgram ==
  /\ exit_code ~> main = "exited" \/ Hangs
  /\ gtk = "quit" ~> main = "exited"

\* Core.h:44 as it stands, which that timer refutes.
QuitAlwaysEnds == exit_code ~> main = "exited"
=============================================================================
