--------------------------- MODULE LifecycleProofs ---------------------------
(***************************************************************************)
(* The life of the program, for every set of registration orders, any      *)
(* number of signals and whoever quits when.                               *)
(*                                                                         *)
(* Which modules exist is told by main's phase and position (AliveInv).    *)
(* A thread that still runs is told by the modules that would have joined  *)
(* it (ThreadInv); what it touches then exists if these modules are        *)
(* destroyed first.                                                        *)
(***************************************************************************)
EXTENDS Lifecycle, FiniteSetTheorems, SequenceTheorems, TLAPS

IsOrder(o) ==
  /\ o \in [1 .. 4 -> Modules]
  /\ \A m \in Modules : \E i \in 1 .. 4 : o[i] = m
  /\ \A i, j \in 1 .. 4 : o[i] = o[j] => i = j

LEMMA ModulesFour == Cardinality(Modules) = 4
<1>1. /\ IsFiniteSet({}) /\ Cardinality({}) = 0
  BY FS_EmptySet
<1>2. /\ IsFiniteSet({"Core"}) /\ Cardinality({"Core"}) = 1
  BY FS_Singleton
<1>3. /\ {"Core", "LiveAudio"} = {"Core"} \cup {"LiveAudio"}
      /\ {"Core", "LiveAudio", "Visualization"}
           = {"Core", "LiveAudio"} \cup {"Visualization"}
      /\ Modules = {"Core", "LiveAudio", "Visualization"}
                     \cup {"FourierTransform"}
  BY DEF Modules
<1>4. /\ IsFiniteSet({"Core", "LiveAudio"})
      /\ Cardinality({"Core", "LiveAudio"}) = 2
  <2>1. "LiveAudio" \notin {"Core"}
    OBVIOUS
  <2>2. QED  BY <1>2, <1>3, <2>1, FS_AddElement
<1>5. /\ IsFiniteSet({"Core", "LiveAudio", "Visualization"})
      /\ Cardinality({"Core", "LiveAudio", "Visualization"}) = 3
  <2>1. "Visualization" \notin {"Core", "LiveAudio"}
    OBVIOUS
  <2>2. QED  BY <1>3, <1>4, <2>1, FS_AddElement
<1>6. "FourierTransform" \notin {"Core", "LiveAudio", "Visualization"}
  OBVIOUS
<1>7. QED  BY <1>3, <1>5, <1>6, FS_AddElement

LEMMA OrdersAre ==
  ASSUME NEW o \in Orders
  PROVE  IsOrder(o) /\ Len(o) = 4 /\ DOMAIN o = 1 .. 4
<1>1. o \in [1 .. 4 -> Modules] /\ {o[i] : i \in DOMAIN o} = Modules
  BY LifecycleAssumption, ModulesFour
<1>2. \A m \in Modules : \E i \in 1 .. 4 : o[i] = m
  BY <1>1
<1>3. Modules = {o[1], o[2], o[3], o[4]}
  <2>1. 1 .. 4 = {1, 2, 3, 4}
    OBVIOUS
  <2>2. QED  BY <1>1, <2>1
<1>4. /\ o[1] # o[2] /\ o[1] # o[3] /\ o[1] # o[4]
      /\ o[2] # o[3] /\ o[2] # o[4] /\ o[3] # o[4]
  BY <1>3 DEF Modules
<1>5. \A i, j \in 1 .. 4 : o[i] = o[j] => i = j
  <2>1. \A i \in 1 .. 4 : i \in {1, 2, 3, 4}
    OBVIOUS
  <2>2. QED  BY <1>4, <2>1
<1>6. Len(o) = 4
  BY <1>1
<1>7. QED  BY <1>1, <1>2, <1>5, <1>6 DEF IsOrder

-----------------------------------------------------------------------------

Callers == {"audio", "signal"}
Told    == {"LiveAudio", "Visualization"}
Runs    == {"initialize", "launch", "assign", "wait"}

TypeInv ==
  /\ order \in Orders /\ argv \subseteq Params
  /\ main \in {"create", "destroy", "exited"} \cup Runs
  /\ next \in 1 .. 4 /\ alive \subseteq Modules
  /\ callbacks \in Seq(Told)
  /\ audio \in {"none", "start", "loop", "fail", "show", "submit", "close",
                "disconnect", "ended"}
  /\ gtk \in {"none", "loop", "draw", "quit", "update", "ended"}
  /\ worker \in {"idle", "callback"}
  /\ signals \in 0 .. MaxSignals
  /\ remaining \in [Callers -> Seq(Told)]

\* Modules exist from their turn in the first phase to their turn in the last.
AliveInv ==
  /\ main = "create" => \A i \in 1 .. 4 : order[i] \in alive <=> i < next
  /\ main \in Runs => alive = Modules
  /\ main = "wait" => next = 1
  /\ main = "destroy" => \A i \in 1 .. 4 : order[i] \in alive <=> i >= next
  /\ main = "exited" => alive = {}

\* Nothing runs while modules are created.  A thread that has not ended has not
\* been joined: the module that joins it exists.
ThreadInv ==
  /\ main = "create" => /\ audio = "none" /\ worker = "idle" /\ ~tasks
                        /\ callbacks = <<>>
                        /\ \A f \in Callers : remaining[f] = <<>>
  /\ audio # "none" => audio_loop \/ main = "assign"
  /\ audio \notin {"none", "ended"} => "LiveAudio" \in alive
  /\ main # "create" /\ gtk \notin {"none", "ended"} => "Visualization" \in alive
  /\ worker = "callback" => "Core" \in alive

LEMMA TypeStep ==
  ASSUME TypeInv, [Next]_vars
  PROVE  TypeInv'
<1> USE DEF TypeInv, Runs, options, mainVars, audioVars, gtkVars, workerVars,
        quitVars
<1>0. IsOrder(order) /\ Len(order) = 4 /\ Module \in Modules
  BY OrdersAre DEF IsOrder, Module
<1>1. ASSUME NEW phase, NEW after, Advance(phase, after)
      PROVE  /\ main' \in {phase, after} /\ next' \in 1 .. 4
  BY <1>0, <1>1 DEF Advance
<1>2. CASE Create
  BY <1>0, <1>1, <1>2 DEF Create
<1>3. CASE Initialize_Module
  <2>1. callbacks' \in Seq(Told)
    BY <1>3 DEF Initialize_Module, Told
  <2>2. QED  BY <1>1, <1>3, <2>1 DEF Initialize_Module
<1>4. CASE LiveAudio_Register
  <2>1. callbacks' \in Seq(Told)
    BY <1>4 DEF LiveAudio_Register, Told
  <2>2. QED  BY <1>4, <2>1 DEF LiveAudio_Register
<1>5. CASE LiveAudio_Launch \/ WaitForQuit
  BY <1>5 DEF LiveAudio_Launch, WaitForQuit
<1>6. CASE LiveAudio_Assign
  BY <1>1, <1>6 DEF LiveAudio_Assign
<1>7. CASE Destroy
  BY <1>1, <1>7 DEF Destroy
<1>8. CASE Signal
  BY <1>8, LifecycleAssumption DEF Signal, QuitCallbacks, Callers
<1>9. ASSUME NEW f \in Callers, Quit(f) PROVE TypeInv'
  <2>1. CASE Quit_Callback(f)
    <3>1. Tail(remaining[f]) \in Seq(Told)
      BY <2>1, HeadTailProperties DEF Quit_Callback
    <3>2. remaining' \in [Callers -> Seq(Told)]
      BY <2>1, <3>1 DEF Quit_Callback
    <3>3. QED  BY <2>1, <3>2 DEF Quit_Callback
  <2>2. CASE Quit_Store(f)
    BY <2>2 DEF Quit_Store
  <2>3. QED  BY <1>9, <2>1, <2>2 DEF Quit
<1>10. CASE \/ AudioStep \/ Audio_Open \/ Audio_Fail \/ Audio_Fragment
  <2>1. remaining' \in [Callers -> Seq(Told)]
    BY <1>10
    DEF AudioStep, Audio_Open, Audio_Fail, Audio_Fragment, Audio_Start, Audio_Show,
        Audio_Submit, Audio_Stop, Audio_Close, QuitCallbacks, Callers
  <2>2. audio' \in {"none", "start", "loop", "fail", "show", "submit", "close",
                    "disconnect", "ended"}
    BY <1>10
    DEF AudioStep, Audio_Open, Audio_Fail, Audio_Fragment, Audio_Start, Audio_Show,
        Audio_Submit, Audio_Stop, Audio_Close, Audio
  <2>3. UNCHANGED <<options, mainVars, gtk, worker, signals>>
    BY <1>10
    DEF AudioStep, Audio_Open, Audio_Fail, Audio_Fragment, Audio_Start, Audio_Show,
        Audio_Submit, Audio_Stop, Audio_Close, Audio
  <2>4. QED  BY <2>1, <2>2, <2>3
<1>11. CASE OnDraw \/ Draw \/ OnTimeout \/ OnTimeout_Return
           \/ Worker_Start \/ Worker_Return
  BY <1>11 DEF OnDraw, Draw, OnTimeout, OnTimeout_Return, LoopThen, Worker_Start, Worker_Return
<1>12. CASE UNCHANGED vars
  BY <1>12 DEF vars
<1>13. QED
  BY <1>2, <1>3, <1>4, <1>5, <1>6, <1>7, <1>8, <1>9, <1>10, <1>11, <1>12
  DEF Next, Main, Finished, Callers

\* The steps that are not main's leave its phase, its position, the modules and
\* the registrations alone.
LEMMA OthersStep ==
  ASSUME [Next]_vars, ~Main
  PROVE  UNCHANGED <<options, mainVars>>
<1> USE DEF audioVars, gtkVars, workerVars
<1>1. CASE AudioStep \/ Audio_Open \/ Audio_Fail \/ Audio_Fragment
  BY <1>1
  DEF AudioStep, Audio_Open, Audio_Fail, Audio_Fragment, Audio_Start, Audio_Show,
      Audio_Submit, Audio_Stop, Audio_Close, Audio
<1>2. CASE OnDraw \/ Draw \/ OnTimeout \/ OnTimeout_Return
           \/ Worker_Start \/ Worker_Return \/ Signal
  BY <1>2 DEF OnDraw, Draw, OnTimeout, OnTimeout_Return, LoopThen, Worker_Start, Worker_Return, Signal
<1>3. ASSUME NEW f \in Callers, Quit(f) PROVE UNCHANGED <<options, mainVars>>
  BY <1>3 DEF Quit, Quit_Callback, Quit_Store
<1>4. CASE Finished \/ UNCHANGED vars
  BY <1>4 DEF vars, Finished
<1>5. QED  BY <1>1, <1>2, <1>3, <1>4 DEF Next, Callers

LEMMA AliveStep ==
  ASSUME TypeInv, AliveInv, [Next]_vars
  PROVE  AliveInv'
<1>0. /\ IsOrder(order) /\ Len(order) = 4 /\ next \in 1 .. 4
      /\ \A i \in 1 .. 4 : order[i] \in Modules
  BY OrdersAre DEF IsOrder, TypeInv
<1>1. ASSUME Main PROVE order' = order
  BY <1>1 DEF Main, Create, Initialize_Module, LiveAudio_Register, LiveAudio_Launch,
      LiveAudio_Assign, WaitForQuit, Destroy, options
<1>2. CASE Create
  <2>1. \A i \in 1 .. 4 : order[i] \in alive' <=> i < next + 1
    BY <1>0, <1>2 DEF Create, AliveInv, Module, IsOrder
  <2>2. CASE next = 4
    <3>1. main' = "initialize" /\ next' = 1
      BY <1>0, <1>2, <2>2 DEF Create, Advance
    <3>2. \A i \in 1 .. 4 : order[i] \in alive'
      BY <2>1, <2>2
    <3>3. alive' = Modules
      BY <1>0, <1>2, <3>2 DEF Create, IsOrder, TypeInv, Module
    <3>4. QED  BY <3>1, <3>3 DEF AliveInv
  <2>3. CASE next # 4
    <3>1. main' = "create" /\ next' = next + 1
      BY <1>0, <1>2, <2>3 DEF Create, Advance
    <3>2. QED  BY <1>1, <1>2, <2>1, <3>1 DEF AliveInv, Main, Runs
  <2>4. QED  BY <2>2, <2>3
<1>3. CASE Initialize_Module \/ LiveAudio_Assign
  <2>1. main' = (IF next = 4 THEN "wait" ELSE "initialize")
        /\ next' = (IF next = 4 THEN 1 ELSE next + 1)
    BY <1>0, <1>3 DEF Initialize_Module, LiveAudio_Assign, Advance
  <2>2. alive' = alive /\ main \in Runs
    BY <1>3 DEF Initialize_Module, LiveAudio_Assign, Runs
  <2>3. QED  BY <2>1, <2>2 DEF AliveInv, Runs
<1>4. CASE LiveAudio_Register \/ LiveAudio_Launch
  BY <1>4 DEF LiveAudio_Register, LiveAudio_Launch, AliveInv, Runs
<1>5. CASE WaitForQuit
  <2>1. main' = "destroy" /\ next' = 1 /\ alive' = Modules
    BY <1>5 DEF WaitForQuit, AliveInv, Runs
  <2>2. QED  BY <1>0, <1>1, <1>5, <2>1 DEF AliveInv, Main, Runs
<1>6. CASE Destroy
  <2>1. \A i \in 1 .. 4 : order[i] \in alive' <=> i >= next + 1
    BY <1>0, <1>6 DEF Destroy, AliveInv, Module, IsOrder
  <2>2. CASE next = 4
    <3>1. main' = "exited"
      BY <1>0, <1>6, <2>2 DEF Destroy, Advance
    <3>2. \A i \in 1 .. 4 : order[i] \notin alive'
      BY <2>1, <2>2
    <3>3. alive' \subseteq Modules
      BY <1>6 DEF Destroy, TypeInv
    <3>4. alive' = {}
      BY <1>0, <3>2, <3>3 DEF IsOrder
    <3>5. QED  BY <3>1, <3>4 DEF AliveInv, Runs
  <2>3. CASE next # 4
    <3>1. main' = "destroy" /\ next' = next + 1
      BY <1>0, <1>6, <2>3 DEF Destroy, Advance
    <3>2. QED  BY <1>1, <1>6, <2>1, <3>1 DEF AliveInv, Main, Runs
  <2>4. QED  BY <2>2, <2>3
<1>7. CASE ~Main
  BY <1>7, OthersStep DEF AliveInv, options, mainVars
<1>8. QED  BY <1>2, <1>3, <1>4, <1>5, <1>6, <1>7 DEF Main

LEMMA ThreadStep ==
  ASSUME TypeInv, AliveInv, ThreadInv, [Next]_vars
  PROVE  ThreadInv'
<1> USE DEF options, mainVars, audioVars, gtkVars, workerVars, quitVars
<1>0. /\ IsOrder(order) /\ Len(order) = 4 /\ next \in 1 .. 4
      /\ Module \in Modules
  BY OrdersAre DEF IsOrder, TypeInv, Module
<1>1. CASE Create
  <2>1. main' \in {"create", "initialize"} /\ alive \subseteq alive'
    BY <1>1 DEF Create, Advance
  <2>2. main' = "initialize" => alive' = Modules
    BY <1>1, AliveStep DEF AliveInv, Runs, Next, Main
  <2>3. UNCHANGED <<audio, audio_loop, worker, tasks, callbacks, remaining>>
    BY <1>1 DEF Create
  <2>4. main = "create" /\ audio = "none" /\ worker = "idle"
    BY <1>1 DEF Create, ThreadInv
  <2>5. QED  BY <2>1, <2>2, <2>3, <2>4 DEF ThreadInv, Modules
<1>2. CASE Initialize_Module \/ LiveAudio_Register
  <2>1. main \in Runs /\ main # "assign" /\ alive = Modules /\ main' # "create"
    BY <1>2 DEF Initialize_Module, LiveAudio_Register, Runs, AliveInv, Advance
  <2>2. UNCHANGED <<alive, audio, audio_loop, gtk, worker>>
    BY <1>2 DEF Initialize_Module, LiveAudio_Register
  <2>3. QED  BY <2>1, <2>2 DEF ThreadInv, Runs
<1>3. CASE LiveAudio_Launch
  BY <1>3 DEF LiveAudio_Launch, ThreadInv, AliveInv, Runs, Modules
<1>4. CASE LiveAudio_Assign
  <2>1. main' # "create" /\ main = "assign" /\ audio_loop'
    BY <1>4 DEF LiveAudio_Assign, Advance
  <2>2. UNCHANGED <<alive, audio, gtk, worker>>
    BY <1>4 DEF LiveAudio_Assign
  <2>3. QED  BY <2>1, <2>2 DEF ThreadInv
<1>5. CASE WaitForQuit
  BY <1>5 DEF WaitForQuit, ThreadInv
<1>6. CASE Destroy
  <2>1. /\ main = "destroy" /\ main' \in {"destroy", "exited"}
        /\ alive' = alive \ {Module} /\ Joined(Module)
    BY <1>6 DEF Destroy, Advance
  <2>2. UNCHANGED <<audio, audio_loop, gtk, worker>>
    BY <1>6 DEF Destroy
  <2>3. audio # "none" => audio_loop
    BY <2>1 DEF ThreadInv
  <2>4. CASE Module = "Core"
    BY <2>1, <2>2, <2>3, <2>4 DEF ThreadInv, Joined
  <2>5. CASE Module = "LiveAudio"
    BY <2>1, <2>2, <2>3, <2>5 DEF ThreadInv, Joined
  <2>6. CASE Module = "Visualization"
    BY <2>1, <2>2, <2>3, <2>6 DEF ThreadInv, Joined
  <2>7. CASE Module = "FourierTransform"
    BY <2>1, <2>2, <2>3, <2>7 DEF ThreadInv
  <2>8. QED  BY <1>0, <2>4, <2>5, <2>6, <2>7 DEF Modules
<1>7. CASE Signal
  <2>1. main = "create" => remaining'["signal"] = <<>>
    BY <1>7 DEF Signal, QuitCallbacks, ThreadInv, TypeInv, Callers
  <2>2. remaining'["audio"] = remaining["audio"]
    BY <1>7 DEF Signal, TypeInv, Callers
  <2>3. UNCHANGED <<main, alive, callbacks, audio, audio_loop, gtk, worker, tasks>>
    BY <1>7 DEF Signal
  <2>4. QED  BY <2>1, <2>2, <2>3 DEF ThreadInv, Callers
<1>8. ASSUME NEW f \in Callers, Quit(f) PROVE ThreadInv'
  <2>1. CASE Quit_Callback(f)
    <3>1. main # "create"
      BY <2>1 DEF Quit_Callback, ThreadInv
    <3>2. UNCHANGED <<main, alive, audio, audio_loop, gtk, worker>>
      BY <2>1 DEF Quit_Callback
    <3>3. QED  BY <3>1, <3>2 DEF ThreadInv
  <2>2. CASE Quit_Store(f)
    <3>1. UNCHANGED <<main, alive, callbacks, audio_loop, gtk, worker, tasks,
                      remaining>>
      BY <2>2 DEF Quit_Store
    <3>2. audio' = audio \/ (audio # "none" /\ audio' = "ended")
                         \/ (audio = "fail" /\ audio' = "loop")
      BY <2>2 DEF Quit_Store, Quits
    <3>3. QED  BY <3>1, <3>2 DEF ThreadInv
  <2>3. QED  BY <1>8, <2>1, <2>2 DEF Quit
<1>9. CASE AudioStep \/ Audio_Open \/ Audio_Fail \/ Audio_Fragment
  <2>1. UNCHANGED <<main, alive, audio_loop, gtk, worker>>
    BY <1>9
    DEF AudioStep, Audio_Open, Audio_Fail, Audio_Fragment, Audio_Start, Audio_Show,
        Audio_Submit, Audio_Stop, Audio_Close, Audio
  <2>2. audio \notin {"none", "ended"}
    BY <1>9
    DEF AudioStep, Audio_Open, Audio_Fail, Audio_Fragment, Audio_Start, Audio_Show,
        Audio_Submit, Audio_Stop, Audio_Close, Audio
  <2>3. main # "create"
    BY <2>2 DEF ThreadInv
  <2>4. QED  BY <2>1, <2>2, <2>3 DEF ThreadInv
<1>10. CASE OnDraw \/ Draw \/ OnTimeout \/ OnTimeout_Return
  <2>1. /\ UNCHANGED <<main, alive, callbacks, audio, audio_loop, worker, tasks,
                       remaining>>
        /\ gtk \notin {"none", "ended"}
    BY <1>10 DEF OnDraw, Draw, OnTimeout, OnTimeout_Return, LoopThen
  <2>2. QED  BY <2>1 DEF ThreadInv
<1>11. CASE Worker_Start
  <2>1. "Core" \in alive /\ tasks
    BY <1>11 DEF Worker_Start, SchedulerRuns
  <2>2. main # "create"
    BY <2>1 DEF ThreadInv
  <2>3. UNCHANGED <<main, alive, audio, audio_loop, gtk>>
    BY <1>11 DEF Worker_Start
  <2>4. QED  BY <2>1, <2>2, <2>3 DEF ThreadInv
<1>12. CASE Worker_Return
  BY <1>12 DEF Worker_Return, ThreadInv
<1>13. CASE Finished \/ UNCHANGED vars
  BY <1>13 DEF vars, Finished, ThreadInv
<1>14. QED
  BY <1>1, <1>2, <1>3, <1>4, <1>5, <1>6, <1>7, <1>8, <1>9, <1>10, <1>11, <1>12,
     <1>13
  DEF Next, Main, Callers

-----------------------------------------------------------------------------

IInv == TypeInv /\ AliveInv /\ ThreadInv

LEMMA InitInv == Init => IInv
<1>1. ASSUME Init PROVE TypeInv
  BY <1>1, LifecycleAssumption DEF Init, TypeInv, Callers
<1>2. ASSUME Init PROVE AliveInv /\ ThreadInv
  <2>1. 1 .. 4 = {1, 2, 3, 4}
    OBVIOUS
  <2>2. \A i \in 1 .. 4 : ~(i < 1)
    OBVIOUS
  <2>3. AliveInv
    BY <1>2, <2>2 DEF Init, AliveInv, Runs
  <2>4. ThreadInv
    BY <1>2 DEF Init, ThreadInv, Callers
  <2>5. QED  BY <2>3, <2>4
<1>3. QED  BY <1>1, <1>2 DEF IInv

LEMMA Invariant == Spec => []IInv
<1>1. IInv /\ [Next]_vars => IInv'
  BY TypeStep, AliveStep, ThreadStep DEF IInv
<1>2. QED  BY InitInv, <1>1, PTL DEF Spec

\* The variables stay in their ranges, and when main exits, the threads it has
\* started have ended: the destructors join all of them, in every order of
\* registration, with quits and signals at any time (TypeOK of Lifecycle).
THEOREM TypeCorrect == Spec => []TypeOK
<1>1. ASSUME IInv PROVE TypeOK
  <2>1. DOMAIN order = 1 .. 4
    BY <1>1, OrdersAre DEF IInv, TypeInv
  <2>2. ASSUME main = "exited"
        PROVE  /\ audio \in {"none", "ended"} /\ gtk \in {"none", "ended"}
               /\ worker = "idle"
    BY <1>1, <2>2 DEF IInv, TypeInv, AliveInv, ThreadInv
  <2>3. /\ order \in Orders /\ argv \subseteq Params /\ next \in DOMAIN order
        /\ main \in {"create", "initialize", "launch", "assign", "wait",
                     "destroy", "exited"}
        /\ alive \subseteq Modules
    BY <1>1, <2>1 DEF IInv, TypeInv, Runs
  <2>4. QED  BY <1>1, <2>2, <2>3 DEF IInv, TypeInv, TypeOK, Told
<1>2. QED  BY Invariant, <1>1, PTL

-----------------------------------------------------------------------------
(* What the threads touch.                                                 *)

\* No handler runs while modules are destroyed, unless signals come late.
SignalInv == signal => main \notin {"destroy", "exited"} /\ "Core" \in alive

LEMMA SignalStep ==
  ASSUME ~LateSignals, TypeInv, AliveInv, SignalInv, [Next]_vars
  PROVE  SignalInv'
<1> USE DEF options, mainVars, audioVars, gtkVars, workerVars, quitVars
<1>1. CASE Create
  BY <1>1 DEF Create, SignalInv, Advance
<1>2. CASE Initialize_Module \/ LiveAudio_Register \/ LiveAudio_Launch
             \/ LiveAudio_Assign
  BY <1>2
  DEF Initialize_Module, LiveAudio_Register, LiveAudio_Launch, LiveAudio_Assign,
      SignalInv, Advance
<1>3. CASE WaitForQuit
  BY <1>3 DEF WaitForQuit, SignalInv
<1>4. CASE Destroy
  BY <1>4 DEF Destroy, SignalInv
<1>5. CASE Signal
  BY <1>5 DEF Signal, SignalInv
<1>6. CASE ~Main /\ ~Signal
  <2>1. UNCHANGED <<main, alive>>
    BY <1>6, OthersStep
  <2>2. signal' => signal
    <3>1. CASE AudioStep \/ Audio_Open \/ Audio_Fail \/ Audio_Fragment
      BY <3>1
      DEF AudioStep, Audio_Open, Audio_Fail, Audio_Fragment, Audio_Start,
          Audio_Show, Audio_Submit, Audio_Stop, Audio_Close, Audio
    <3>2. CASE OnDraw \/ Draw \/ OnTimeout \/ OnTimeout_Return
           \/ Worker_Start \/ Worker_Return
      BY <3>2 DEF OnDraw, Draw, OnTimeout, OnTimeout_Return, LoopThen, Worker_Start, Worker_Return
    <3>3. ASSUME NEW f \in Callers, Quit(f), signal' PROVE signal
      BY <3>3 DEF Quit, Quit_Callback, Quit_Store
    <3>4. CASE Finished \/ UNCHANGED vars
      BY <3>4 DEF vars, Finished
    <3>5. QED  BY <1>6, <3>1, <3>2, <3>3, <3>4 DEF Next, Callers
  <2>3. QED  BY <2>1, <2>2 DEF SignalInv
<1>7. QED  BY <1>1, <1>2, <1>3, <1>4, <1>5, <1>6 DEF Main

\* As long as main has not destroyed a module, those that come later exist.
LEMMA LaterExist ==
  ASSUME IInv, NEW a \in Modules, NEW b \in Modules, Before(a, b),
         main # "create", a \in alive
  PROVE  b \in alive
<1>0. DOMAIN order = 1 .. 4
  BY OrdersAre DEF IInv, TypeInv
<1>1. PICK i \in 1 .. 4, j \in 1 .. 4 : i < j /\ order[i] = a /\ order[j] = b
  BY <1>0 DEF Before
<1>2. CASE main = "destroy"
  <2>1. i >= next /\ next \in 1 .. 4
    BY <1>1, <1>2 DEF IInv, TypeInv, AliveInv
  <2>2. j >= next
    BY <1>1, <2>1
  <2>3. QED  BY <1>1, <1>2, <2>2 DEF IInv, AliveInv
<1>3. CASE main # "destroy"
  BY <1>3 DEF IInv, TypeInv, AliveInv
<1>4. QED  BY <1>2, <1>3

\* Without late signals and with LiveAudio destroyed first and FourierTransform
\* after Core, nobody touches a module that is destroyed (JoinsSuffice of
\* Lifecycle): a thread that is not joined yet finds everything it uses.
THEOREM ThreadsJoined == ~LateSignals => (Spec => []JoinsSuffice)
<1> SUFFICES ASSUME ~LateSignals PROVE Spec => []JoinsSuffice
  OBVIOUS
<1>1. Init => SignalInv
  BY DEF Init, SignalInv
<1>2. IInv /\ SignalInv /\ [Next]_vars => SignalInv'
  BY SignalStep DEF IInv
<1>3. ASSUME IInv, SignalInv, SafeOrder
      PROVE  AudioUses \cup WorkerUses \cup QuitUses \subseteq
               Existing \cup {"visualizer"}
  <2>0. main = "create" => /\ audio = "none" /\ worker = "idle"
                           /\ \A f \in Callers : remaining[f] = <<>>
    BY <1>3 DEF IInv, ThreadInv
  <2>1. ASSUME audio \notin {"none", "ended"}
        PROVE  {"LiveAudio", "Core", "Visualization"} \subseteq alive
    <3>1. main # "create" /\ "LiveAudio" \in alive
      BY <1>3, <2>0, <2>1 DEF IInv, ThreadInv
    <3>2. QED  BY <1>3, <3>1, LaterExist DEF SafeOrder, Modules
  <2>2. AudioUses \subseteq alive \cup {"visualizer"}
    BY <2>1 DEF AudioUses
  <2>3. WorkerUses \subseteq alive
    <3>1. ASSUME worker = "callback"
          PROVE  "Core" \in alive /\ "FourierTransform" \in alive
      <4>1. main # "create" /\ "Core" \in alive
        BY <1>3, <2>0, <3>1 DEF IInv, ThreadInv
      <4>2. QED  BY <1>3, <4>1, LaterExist DEF SafeOrder, Modules
    <3>2. QED  BY <3>1 DEF WorkerUses
  <2>4. ASSUME NEW f \in Callers, Quits(f), remaining[f] # <<>>
        PROVE  Head(remaining[f]) \in alive
    <3>1. Head(remaining[f]) \in Told
      BY <1>3, <2>4, HeadTailProperties DEF IInv, TypeInv
    <3>2. CASE f = "audio"
      BY <2>1, <2>4, <3>1, <3>2 DEF Quits, Told
    <3>3. CASE f = "signal"
      <4>1. main \in Runs
        BY <1>3, <2>0, <2>4, <3>3 DEF Quits, SignalInv, IInv, TypeInv
      <4>2. QED  BY <1>3, <3>1, <4>1 DEF IInv, AliveInv, Told, Modules
    <3>4. QED  BY <3>2, <3>3 DEF Callers
  <2>5. QuitUses \subseteq alive
    BY <1>3, <2>4 DEF QuitUses, SignalInv, Callers
  <2>6. QED  BY <2>2, <2>3, <2>5 DEF Existing
<1>4. IInv /\ SignalInv => JoinsSuffice
  BY <1>3 DEF JoinsSuffice
<1>5. QED  BY Invariant, <1>1, <1>2, <1>4, PTL DEF Spec
=============================================================================
