------------------------------- MODULE CoreQuit -------------------------------
(***************************************************************************)
(* How zamt quits (core/src/Core.cpp): the main thread constructs Core,    *)
(* lets the modules register their quit callbacks and blocks in            *)
(* WaitForQuit; other threads and signal handlers call Quit.               *)
(*                                                                         *)
(* A signal handler runs on top of whatever its thread was doing, which    *)
(* goes on only when the handler returns.  So what takes steps is a frame: *)
(* a thread's own code or a handler; a thread is a stack of frames and     *)
(* only the topmost one runs.                                              *)
(***************************************************************************)
EXTENDS Integers, Sequences

CONSTANTS Main,             \* the thread that runs main()
          Quitters,         \* threads of modules, which call Quit once
          Signals,          \* the signals handled: SIGTERM, SIGINT
          NumCallbacks,     \* callbacks the modules register
          CodeOf,           \* per frame: the exit code it passes to Quit
          NoExitCode,
          NoFrame,          \* owner of a free mutex
          MaxSignals,       \* bounds the signals delivered
          MayAskHelp,       \* -h may be given
          SignalsWhileLocked \* signals may interrupt a holder of mutex_

Threads == {Main} \cup Quitters
Frames  == Threads \cup Signals

ASSUME QuitAssumption ==
  /\ Main \notin Quitters \cup Signals
  /\ Quitters \cap Signals = {}
  /\ NoFrame \notin Frames
  /\ NumCallbacks \in Nat /\ MaxSignals \in Nat
  /\ NoExitCode \notin {CodeOf[f] : f \in Frames}
  /\ MayAskHelp \in BOOLEAN /\ SignalsWhileLocked \in BOOLEAN

VARIABLES
  g_core,             \* the pointer is set
  on_quit_callbacks,  \* how many callbacks are registered
  called,             \* per callback: the exit codes it was called with
  exit_code,
  mutex,              \* the frame that holds it
  pc,                 \* per frame: where it is
  stack,              \* per thread: its frames, the running one last
  next, end,          \* per frame: Quit's iteration over the callbacks
  told,               \* the end of that iteration, for exit_code's Quit
  result,             \* main's local exit_code
  signals             \* signals delivered so far

quitVars == <<called, exit_code, next, end, told>>
vars == <<g_core, on_quit_callbacks, quitVars, mutex, pc, stack, result,
          signals>>

\* The handlers are installed, g_core is not yet set.
Init ==
  /\ g_core = FALSE
  /\ on_quit_callbacks = 0
  /\ called = [i \in 1 .. NumCallbacks |-> {}]
  /\ exit_code = NoExitCode
  /\ mutex = NoFrame
  /\ pc = [f \in Frames |-> IF f = Main THEN "construct" ELSE "idle"]
  /\ stack = [t \in Threads |-> <<t>>]
  /\ next = [f \in Frames |-> 1]
  /\ end = [f \in Frames |-> 0]
  /\ told = 0
  /\ result = NoExitCode
  /\ signals = 0

Goto(f, l) == pc' = [pc EXCEPT ![f] = l]

Top(t)  == stack[t][Len(stack[t])]
Runs(f) == \E t \in Threads : Top(t) = f

BugNoMutex(f) == f # Main \/ mutex = NoFrame
MutexFree(f)  == mutex = NoFrame

-----------------------------------------------------------------------------
(* Quit.                                                                   *)

\* The range of the loop is fixed when it starts.  A callback pushed meanwhile
\* leaves the earlier ones where they are and is not visited.
StartQuit(f) ==
  /\ next' = [next EXCEPT ![f] = 1]
  /\ end' = [end EXCEPT ![f] = on_quit_callbacks]
  /\ Goto(f, "callbacks")

BugOnePast(f) == next[f] <= end[f] + 1
Remaining(f)  == next[f] <= end[f]

Quit_Callback(f) ==
  /\ Runs(f)
  /\ pc[f] = "callbacks"
  /\ Remaining(f)
  /\ called' = [called EXCEPT ![next[f]] = @ \cup {CodeOf[f]}]
  /\ next' = [next EXCEPT ![f] = @ + 1]
  /\ UNCHANGED <<g_core, on_quit_callbacks, exit_code, mutex, pc, stack, end,
                 told, result, signals>>

BugNotAll(f) == TRUE
AllCalled(f) == next[f] > end[f]

Quit_Lock(f) ==
  /\ Runs(f)
  /\ pc[f] = "callbacks"
  /\ AllCalled(f)
  /\ MutexFree(f)
  /\ mutex' = f
  /\ Goto(f, "store")
  /\ UNCHANGED <<g_core, on_quit_callbacks, quitVars, stack, result, signals>>

Quit_Store(f) ==
  /\ Runs(f)
  /\ pc[f] = "store"
  /\ exit_code' = CodeOf[f]
  /\ told' = end[f]
  /\ mutex' = NoFrame
  /\ Goto(f, "notify")
  /\ UNCHANGED <<g_core, on_quit_callbacks, called, next, end, stack, result,
                 signals>>

BugNoNotify == FALSE
MainWaits   == pc[Main] = "waiting"

\* Wakes main; Quit returns: in main to the constructor, in a handler to the
\* interrupted frame.
AfterQuit(f) == IF f = Main THEN "register"
                ELSE IF f \in Quitters THEN "done" ELSE "idle"

Quit_NotifyAll(f) ==
  /\ Runs(f)
  /\ pc[f] = "notify"
  /\ pc' = [g \in Frames |-> IF g = f THEN AfterQuit(f)
                             ELSE IF g = Main /\ MainWaits THEN "relock"
                             ELSE pc[g]]
  /\ stack' = [t \in Threads |-> IF f \in Signals /\ Top(t) = f
                                   THEN SubSeq(stack[t], 1, Len(stack[t]) - 1)
                                   ELSE stack[t]]
  /\ UNCHANGED <<g_core, on_quit_callbacks, quitVars, mutex, result, signals>>

-----------------------------------------------------------------------------
(* Who calls Quit.                                                         *)

\* A module starts its thread after it has registered, others yet to follow.
Started(t) == t = Main \/ on_quit_callbacks > 0

\* A module's thread, e.g. the audio thread when PulseAudio fails.
CallQuit(q) ==
  /\ Runs(q)
  /\ pc[q] = "idle"
  /\ Started(q)
  /\ StartQuit(q)
  /\ UNCHANGED <<g_core, on_quit_callbacks, called, exit_code, told, mutex, stack,
                 result, signals>>

\* The kernel interrupts any thread.  A signal is blocked in its own handler.
Deliver(s, t) ==
  /\ pc[s] = "idle"
  /\ signals < MaxSignals
  /\ Started(t)
  /\ pc[Main] # "returned"
  /\ ~SignalsWhileLocked => \A i \in DOMAIN stack[t] : mutex # stack[t][i]
  /\ stack' = [stack EXCEPT ![t] = Append(@, s)]
  /\ signals' = signals + 1
  /\ Goto(s, "handler")
  /\ UNCHANGED <<g_core, on_quit_callbacks, quitVars, mutex, result>>

quit_signaled(s) ==
  /\ Runs(s)
  /\ pc[s] = "handler"
  /\ g_core
  /\ StartQuit(s)
  /\ UNCHANGED <<g_core, on_quit_callbacks, called, exit_code, told, mutex, stack,
                 result, signals>>

\* Its assertion fails before g_core is assigned, and the program is aborted.
Aborted == \E s \in Signals : Runs(s) /\ pc[s] = "handler" /\ ~g_core

-----------------------------------------------------------------------------
(* The main thread.                                                        *)

Core_Construct ==
  /\ Runs(Main)
  /\ pc[Main] = "construct"
  /\ g_core' = TRUE
  /\ \/ Goto(Main, "register") /\ UNCHANGED <<next, end>>
     \/ MayAskHelp /\ StartQuit(Main)
  /\ UNCHANGED <<on_quit_callbacks, called, exit_code, told, mutex, stack, result,
                 signals>>

RegisterForQuitEvent ==
  /\ Runs(Main)
  /\ pc[Main] = "register"
  /\ on_quit_callbacks < NumCallbacks
  /\ on_quit_callbacks' = on_quit_callbacks + 1
  /\ UNCHANGED <<g_core, quitVars, mutex, pc, stack, result, signals>>

WaitForQuit ==
  /\ Runs(Main)
  /\ pc[Main] = "register"
  /\ on_quit_callbacks = NumCallbacks
  /\ Goto(Main, "relock")
  /\ UNCHANGED <<g_core, on_quit_callbacks, quitVars, mutex, stack, result,
                 signals>>

\* Entering WaitForQuit, or leaving wait() after a wake-up.
Wait_Lock ==
  /\ Runs(Main)
  /\ pc[Main] = "relock"
  /\ MutexFree(Main)
  /\ mutex' = Main
  /\ Goto(Main, "load")
  /\ UNCHANGED <<g_core, on_quit_callbacks, quitVars, stack, result, signals>>

Wait_Load ==
  /\ Runs(Main)
  /\ pc[Main] = "load"
  /\ result' = exit_code
  /\ Goto(Main, IF exit_code = NoExitCode THEN "wait" ELSE "grace")
  /\ UNCHANGED <<g_core, on_quit_callbacks, quitVars, mutex, stack, signals>>

Wait_Sleep ==
  /\ Runs(Main)
  /\ pc[Main] = "wait"
  /\ mutex' = NoFrame
  /\ Goto(Main, "waiting")
  /\ UNCHANGED <<g_core, on_quit_callbacks, quitVars, stack, result, signals>>

SpuriousWakeup ==
  /\ Runs(Main)
  /\ pc[Main] = "waiting"
  /\ Goto(Main, "relock")
  /\ UNCHANGED <<g_core, on_quit_callbacks, quitVars, mutex, stack, result,
                 signals>>

\* After 300 ms, in which mutex_ stays locked.
Wait_Return ==
  /\ Runs(Main)
  /\ pc[Main] = "grace"
  /\ mutex' = NoFrame
  /\ Goto(Main, "returned")
  /\ UNCHANGED <<g_core, on_quit_callbacks, quitVars, stack, result, signals>>

-----------------------------------------------------------------------------

QuitStep(f) == Quit_Callback(f) \/ Quit_Store(f) \/ Quit_NotifyAll(f)

MainStep ==
  \/ Core_Construct \/ RegisterForQuitEvent \/ WaitForQuit
  \/ Wait_Load \/ Wait_Sleep \/ Wait_Return

\* Main has returned and nobody is in Quit, or nobody asked to quit.
Finished ==
  /\ \/ Aborted
     \/ /\ pc[Main] \in {"waiting", "returned"}
        /\ \A f \in Frames \ {Main} : pc[f] \in {"idle", "done"}
  /\ UNCHANGED vars

Next ==
  \/ \E f \in Frames : QuitStep(f) \/ Quit_Lock(f)
  \/ \E q \in Quitters : CallQuit(q)
  \/ \E s \in Signals : quit_signaled(s) \/ \E t \in Threads : Deliver(s, t)
  \/ MainStep \/ Wait_Lock \/ SpuriousWakeup
  \/ Finished

Spec == Init /\ [][Next]_vars

\* Every thread goes on with the frame it runs, and a mutex that is free again
\* and again is eventually had.  Nobody has to call Quit.
Fairness ==
  /\ \A f \in Frames : WF_vars(QuitStep(f)) /\ SF_vars(Quit_Lock(f))
  /\ \A s \in Signals : WF_vars(quit_signaled(s))
  /\ WF_vars(MainStep) /\ SF_vars(Wait_Lock)

FairSpec == Spec /\ Fairness

-----------------------------------------------------------------------------
(* Properties.                                                             *)

Codes == {CodeOf[f] : f \in Frames}

Locations == {"construct", "register", "relock", "load", "wait", "waiting",
              "grace", "returned", "idle", "handler", "callbacks", "store",
              "notify", "done"}

\* The variables stay in their ranges; frames are stacked on one thread only.
TypeOK ==
  /\ g_core \in BOOLEAN
  /\ on_quit_callbacks \in 0 .. NumCallbacks
  /\ called \in [1 .. NumCallbacks -> SUBSET Codes]
  /\ exit_code \in Codes \cup {NoExitCode}
  /\ mutex \in Frames \cup {NoFrame}
  /\ pc \in [Frames -> Locations]
  /\ stack \in [Threads -> Seq(Frames)]
  /\ \A t \in Threads : Len(stack[t]) > 0 /\ stack[t][1] = t
  /\ \A s \in Signals : pc[s] # "idle" <=>
       \E t \in Threads, i \in 2 .. MaxSignals + 1 :
         i \in DOMAIN stack[t] /\ stack[t][i] = s
  /\ next \in [Frames -> 1 .. NumCallbacks + 1]
  /\ end \in [Frames -> 0 .. NumCallbacks] /\ told \in 0 .. NumCallbacks
  /\ result \in Codes \cup {NoExitCode}
  /\ signals \in 0 .. MaxSignals

\* Whoever stores an exit code while main is about to sleep, or asleep, has
\* still to wake it up: main never sleeps through a Quit.
NoLostNotify ==
  pc[Main] = "waiting" /\ exit_code # NoExitCode =>
    \E f \in Frames : pc[f] = "notify"

\* The given function is called "before core thread starts the shutdown process"
\* (Core.h:48-49): whenever others may see an exit code, every callback that was
\* registered when its Quit began has been called with it, although modules
\* register meanwhile and quitting frames interrupt each other.
CallbacksCalled == \A i \in 1 .. told : exit_code \in called[i]

\* Core.h:48-49 as it stands, for main, which quits during initialization refute.
AllCallbacksCalled ==
  pc[Main] \in {"grace", "returned"} =>
    \A i \in 1 .. on_quit_callbacks : result \in called[i]

\* WaitForQuit "blocks execution until someone calls Quit(), returns the exit
\* code" (Core.h:46): once somebody has called Quit, it returns.
QuitEndsWait ==
  (\E f \in Frames : pc[f] = "callbacks") ~> (pc[Main] = "returned")
=============================================================================
