---------------------------- MODULE CoreQuitProofs ----------------------------
(***************************************************************************)
(* Safety of quitting, for any number of threads, signals and callbacks,   *)
(* wherever the signals strike.                                            *)
(***************************************************************************)
EXTENDS CoreQuit, TLAPS

\* What the proofs need of TypeOK.
Ranges ==
  /\ on_quit_callbacks \in 0 .. NumCallbacks
  /\ called \in [1 .. NumCallbacks -> SUBSET Codes]
  /\ pc \in [Frames -> Locations]
  /\ next \in [Frames -> Nat]
  /\ end \in [Frames -> 0 .. NumCallbacks] /\ told \in 0 .. NumCallbacks

LEMMA RangesHold == Spec => []Ranges
<1>1. Init => Ranges
  BY QuitAssumption DEF Init, Ranges, Locations
<1>2. Ranges /\ [Next]_vars => Ranges'
  <2> SUFFICES ASSUME Ranges, [Next]_vars PROVE Ranges'
    OBVIOUS
  <2> USE QuitAssumption DEF Ranges, quitVars, Goto, StartQuit, Locations
  <2>1. ASSUME NEW f \in Frames, QuitStep(f) \/ Quit_Lock(f) PROVE Ranges'
    <3>1. CASE Quit_Callback(f)
      <4>1. CodeOf[f] \in Codes
        BY DEF Codes
      <4>2. called' \in [1 .. NumCallbacks -> SUBSET Codes]
        BY <3>1, <4>1 DEF Quit_Callback
      <4>3. QED  BY <3>1, <4>2 DEF Quit_Callback
    <3>2. CASE Quit_Lock(f)
      BY <3>2 DEF Quit_Lock
    <3>3. CASE Quit_Store(f)
      BY <3>3 DEF Quit_Store
    <3>4. CASE Quit_NotifyAll(f)
      BY <3>4 DEF Quit_NotifyAll, AfterQuit
    <3>5. QED  BY <2>1, <3>1, <3>2, <3>3, <3>4 DEF QuitStep
  <2>2. ASSUME NEW q \in Quitters, CallQuit(q) PROVE Ranges'
    BY <2>2 DEF CallQuit, Frames, Threads
  <2>3. ASSUME NEW s \in Signals, NEW t \in Threads, Deliver(s, t) PROVE Ranges'
    BY <2>3 DEF Deliver
  <2>4. ASSUME NEW s \in Signals, quit_signaled(s) PROVE Ranges'
    BY <2>4 DEF quit_signaled, Frames
  <2>5. CASE Core_Construct
    BY <2>5 DEF Core_Construct, Frames, Threads
  <2>6. CASE RegisterForQuitEvent
    BY <2>6 DEF RegisterForQuitEvent
  <2>7. CASE WaitForQuit \/ Wait_Lock \/ Wait_Load \/ Wait_Sleep
             \/ SpuriousWakeup \/ Wait_Return
    BY <2>7 DEF WaitForQuit, Wait_Lock, Wait_Load, Wait_Sleep, SpuriousWakeup,
       Wait_Return
  <2>8. CASE UNCHANGED vars
    BY <2>8 DEF vars
  <2>9. QED
    BY <2>1, <2>2, <2>3, <2>4, <2>5, <2>6, <2>7, <2>8 DEF Next, MainStep, Finished
<1>3. QED  BY <1>1, <1>2, PTL DEF Spec

-----------------------------------------------------------------------------

Holding == {"load", "wait", "grace"}

\* A frame past a lock holds the mutex, and main goes to sleep only if it saw no
\* exit code and nobody could store one since.
MutexInv ==
  /\ pc[Main] \in Holding => mutex = Main
  /\ \A f \in Frames : pc[f] = "store" => mutex = f
  /\ \A f \in Frames : f # Main => pc[f] \notin Holding
  /\ pc[Main] = "wait" => exit_code = NoExitCode

LEMMA MutexStep ==
  ASSUME Ranges, Ranges', MutexInv, NoLostNotify, [Next]_vars
  PROVE  MutexInv' /\ NoLostNotify'
<1> USE QuitAssumption
    DEF Ranges, MutexInv, NoLostNotify, Holding, quitVars, Goto, StartQuit
<1> Main \in Frames
  BY DEF Frames, Threads
<1>1. ASSUME NEW f \in Frames, Quit_Callback(f) PROVE MutexInv' /\ NoLostNotify'
  BY <1>1 DEF Quit_Callback
<1>2. ASSUME NEW f \in Frames, Quit_Lock(f) PROVE MutexInv' /\ NoLostNotify'
  BY <1>2 DEF Quit_Lock, MutexFree, Frames, Threads
<1>3. ASSUME NEW f \in Frames, Quit_Store(f) PROVE MutexInv' /\ NoLostNotify'
  BY <1>3 DEF Quit_Store, Frames, Threads
<1>4. ASSUME NEW f \in Frames, Quit_NotifyAll(f) PROVE MutexInv' /\ NoLostNotify'
  <2>1. \A g \in Frames : pc'[g] = IF g = f THEN AfterQuit(f)
                                   ELSE IF g = Main /\ pc[Main] = "waiting"
                                     THEN "relock" ELSE pc[g]
    BY <1>4 DEF Quit_NotifyAll, MainWaits
  <2>2. UNCHANGED <<mutex, exit_code>> /\ pc[f] = "notify"
    BY <1>4 DEF Quit_NotifyAll
  <2>3. AfterQuit(f) \in {"register", "done", "idle"}
    BY DEF AfterQuit
  <2>4. pc'[Main] # "waiting"
    BY <2>1, <2>3
  <2>5. QED  BY <2>1, <2>2, <2>3, <2>4
<1>5. ASSUME NEW q \in Quitters, CallQuit(q) PROVE MutexInv' /\ NoLostNotify'
  BY <1>5 DEF CallQuit, Frames, Threads
<1>6. ASSUME NEW s \in Signals, NEW t \in Threads, Deliver(s, t)
      PROVE  MutexInv' /\ NoLostNotify'
  BY <1>6 DEF Deliver, Frames
<1>7. ASSUME NEW s \in Signals, quit_signaled(s) PROVE MutexInv' /\ NoLostNotify'
  BY <1>7 DEF quit_signaled, Frames
<1>8. CASE Core_Construct \/ RegisterForQuitEvent \/ WaitForQuit
  BY <1>8 DEF Core_Construct, RegisterForQuitEvent, WaitForQuit
<1>9. CASE Wait_Lock \/ Wait_Load \/ Wait_Sleep \/ SpuriousWakeup \/ Wait_Return
  BY <1>9 DEF Wait_Lock, MutexFree, Wait_Load, Wait_Sleep, SpuriousWakeup,
     Wait_Return
<1>10. CASE UNCHANGED vars
  BY <1>10 DEF vars
<1>11. QED
  BY <1>1, <1>2, <1>3, <1>4, <1>5, <1>6, <1>7, <1>8, <1>9, <1>10
  DEF Next, QuitStep, MainStep, Finished

\* Main never sleeps through a Quit, not even one from a signal handler that
\* interrupts it or another holder of the mutex.
THEOREM NotifyArrives == Spec => []NoLostNotify
<1>1. Init => MutexInv /\ NoLostNotify
  BY QuitAssumption DEF Init, MutexInv, NoLostNotify, Holding, Frames, Threads
<1>2. Ranges /\ Ranges' /\ MutexInv /\ NoLostNotify /\ [Next]_vars
        => MutexInv' /\ NoLostNotify'
  BY MutexStep
<1>3. QED  BY <1>1, <1>2, RangesHold, PTL DEF Spec

-----------------------------------------------------------------------------

\* A Quit visits the callbacks one after the other, and stores its code only when
\* it has visited those there were when it began.
CallbackInv ==
  /\ \A f \in Frames :
       /\ pc[f] = "callbacks" =>
            \A i \in 1 .. NumCallbacks : i < next[f] => CodeOf[f] \in called[i]
       /\ pc[f] = "store" => \A i \in 1 .. end[f] : CodeOf[f] \in called[i]
  /\ CallbacksCalled

LEMMA CallbackStep ==
  ASSUME Ranges, Ranges', CallbackInv, [Next]_vars
  PROVE  CallbackInv'
<1> USE QuitAssumption
    DEF Ranges, CallbackInv, CallbacksCalled, quitVars, Goto, StartQuit
<1> Main \in Frames
  BY DEF Frames, Threads
<1>1. ASSUME NEW f \in Frames, Quit_Callback(f) PROVE CallbackInv'
  <2>1. /\ next[f] <= end[f] /\ pc[f] = "callbacks"
        /\ next' = [next EXCEPT ![f] = @ + 1]
        /\ called' = [called EXCEPT ![next[f]] = @ \cup {CodeOf[f]}]
        /\ UNCHANGED <<pc, exit_code, end, told>>
    BY <1>1 DEF Quit_Callback, Remaining
  <2>2. \A i \in 1 .. NumCallbacks : called[i] \subseteq called'[i]
    BY <2>1
  <2>3. \A i \in 1 .. NumCallbacks : i = next[f] => CodeOf[f] \in called'[i]
    BY <2>1
  <2>4. \A g \in Frames : next'[g] = IF g = f THEN next[f] + 1 ELSE next[g]
    BY <2>1
  <2>5. \A g \in Frames : pc[g] = "callbacks" =>
          \A i \in 1 .. NumCallbacks : i < next'[g] => CodeOf[g] \in called'[i]
    <3> SUFFICES ASSUME NEW g \in Frames, pc[g] = "callbacks",
                        NEW i \in 1 .. NumCallbacks, i < next'[g]
                 PROVE  CodeOf[g] \in called'[i]
      OBVIOUS
    <3>1. i < next[g] \/ (g = f /\ i = next[f])
      <4>1. next[f] \in Nat /\ i \in Nat
        OBVIOUS
      <4>2. CASE g = f
        <5>1. i < next[f] + 1
          BY <2>4, <4>2
        <5>2. QED  BY <4>1, <4>2, <5>1
      <4>3. CASE g # f
        BY <2>4, <4>3
      <4>4. QED  BY <4>2, <4>3
    <3>2. QED  BY <2>2, <2>3, <3>1
  <2>6. \A g \in Frames : pc[g] = "store" =>
          \A i \in 1 .. end[g] : CodeOf[g] \in called'[i]
    <3> SUFFICES ASSUME NEW g \in Frames, pc[g] = "store", NEW i \in 1 .. end[g]
                 PROVE  CodeOf[g] \in called'[i]
      OBVIOUS
    <3>1. end[g] \in 0 .. NumCallbacks /\ CodeOf[g] \in called[i]
      OBVIOUS
    <3>2. i \in 1 .. NumCallbacks
      BY <3>1
    <3>3. QED  BY <2>2, <3>1, <3>2
  <2>7. \A i \in 1 .. told : exit_code \in called'[i]
    BY <2>2
  <2>8. QED  BY <2>1, <2>5, <2>6, <2>7
<1>2. ASSUME NEW f \in Frames, Quit_Lock(f) PROVE CallbackInv'
  <2>1. /\ pc[f] = "callbacks" /\ pc' = [pc EXCEPT ![f] = "store"]
        /\ UNCHANGED <<called, exit_code, next, end, told>>
    BY <1>2 DEF Quit_Lock
  <2>2. \A i \in 1 .. end[f] : CodeOf[f] \in called[i]
    BY <1>2, <2>1 DEF Quit_Lock, AllCalled
  <2>3. QED  BY <2>1, <2>2
<1>3. ASSUME NEW f \in Frames, Quit_Store(f) PROVE CallbackInv'
  <2>1. \A i \in 1 .. told' : exit_code' \in called'[i]
    BY <1>3 DEF Quit_Store
  <2>2. QED  BY <1>3, <2>1 DEF Quit_Store
<1>4. ASSUME NEW f \in Frames, Quit_NotifyAll(f) PROVE CallbackInv'
  <2>1. \A g \in Frames : pc'[g] \in {AfterQuit(f), "relock", pc[g]}
    BY <1>4 DEF Quit_NotifyAll
  <2>2. AfterQuit(f) \in {"register", "done", "idle"}
    BY DEF AfterQuit
  <2>3. UNCHANGED <<called, exit_code, next, end, told>>
    BY <1>4 DEF Quit_NotifyAll
  <2>4. QED  BY <2>1, <2>2, <2>3
<1>5. ASSUME NEW q \in Quitters, CallQuit(q) PROVE CallbackInv'
  BY <1>5 DEF CallQuit, Frames, Threads
<1>6. ASSUME NEW s \in Signals, NEW t \in Threads, Deliver(s, t)
      PROVE  CallbackInv'
  BY <1>6 DEF Deliver, Frames
<1>7. ASSUME NEW s \in Signals, quit_signaled(s) PROVE CallbackInv'
  BY <1>7 DEF quit_signaled, Frames
<1>8. CASE Core_Construct
  <2>1. /\ UNCHANGED <<called, exit_code, told>>
        /\ \A f \in Frames : f # Main =>
             pc'[f] = pc[f] /\ next'[f] = next[f] /\ end'[f] = end[f]
        /\ pc'[Main] = "register" \/ (pc'[Main] = "callbacks" /\ next'[Main] = 1)
    BY <1>8 DEF Core_Construct
  <2>2. ASSUME NEW f \in Frames, pc'[f] = "callbacks", NEW i \in 1 .. NumCallbacks,
               i < next'[f]
        PROVE  CodeOf[f] \in called'[i]
    <3>1. f # Main
      BY <2>1, <2>2
    <3>2. QED  BY <2>1, <2>2, <3>1
  <2>3. ASSUME NEW f \in Frames, pc'[f] = "store", NEW i \in 1 .. end'[f]
        PROVE  CodeOf[f] \in called'[i]
    <3>1. f # Main
      BY <2>1, <2>3
    <3>2. QED  BY <2>1, <2>3, <3>1
  <2>4. CallbacksCalled'
    BY <2>1
  <2>5. QED  BY <2>2, <2>3, <2>4
<1>9. CASE RegisterForQuitEvent \/ WaitForQuit \/ Wait_Lock \/ Wait_Load
             \/ Wait_Sleep \/ SpuriousWakeup \/ Wait_Return
  <2>1. /\ UNCHANGED <<called, exit_code, told, next, end>>
        /\ \A f \in Frames : f # Main => pc'[f] = pc[f]
        /\ pc'[Main] \notin {"callbacks", "store"}
    BY <1>9 DEF RegisterForQuitEvent, WaitForQuit, Wait_Lock, Wait_Load,
       Wait_Sleep, SpuriousWakeup, Wait_Return
  <2>2. QED  BY <2>1
<1>10. CASE UNCHANGED vars
  BY <1>10 DEF vars
<1>11. QED
  BY <1>1, <1>2, <1>3, <1>4, <1>5, <1>6, <1>7, <1>8, <1>9, <1>10
  DEF Next, QuitStep, MainStep, Finished

\* Whoever quits, and whenever, every callback registered by then has been called
\* with an exit code before anybody can see it.
THEOREM AllTold == Spec => []CallbacksCalled
<1>1. Init => CallbackInv
  <2> SUFFICES ASSUME Init PROVE CallbackInv
    OBVIOUS
  <2>1. \A f \in Frames : pc[f] \in {"construct", "idle"}
    BY DEF Init
  <2>2. told = 0
    BY DEF Init
  <2>3. QED  BY <2>1, <2>2 DEF CallbackInv, CallbacksCalled
<1>2. Ranges /\ Ranges' /\ CallbackInv /\ [Next]_vars => CallbackInv'
  BY CallbackStep
<1>3. CallbackInv => CallbacksCalled
  BY DEF CallbackInv
<1>4. QED  BY <1>1, <1>2, <1>3, RangesHold, PTL DEF Spec

-----------------------------------------------------------------------------
(* The stacks of frames.                                                   *)

Numbers ==
  /\ g_core \in BOOLEAN
  /\ exit_code \in Codes \cup {NoExitCode}
  /\ mutex \in Frames \cup {NoFrame}
  /\ next \in [Frames -> 1 .. NumCallbacks + 1]
  /\ result \in Codes \cup {NoExitCode}
  /\ signals \in 0 .. MaxSignals

LEMMA NumbersStep ==
  ASSUME Ranges, Numbers, [Next]_vars
  PROVE  Numbers'
<1> USE QuitAssumption DEF Ranges, Numbers, quitVars, Goto, StartQuit
<1> Main \in Frames /\ Quitters \subseteq Frames /\ Signals \subseteq Frames
  BY DEF Frames, Threads
<1>1. ASSUME NEW f \in Frames, QuitStep(f) \/ Quit_Lock(f) PROVE Numbers'
  <2>1. CASE Quit_Callback(f)
    <3>1. next[f] + 1 \in 1 .. NumCallbacks + 1
      BY <2>1 DEF Quit_Callback, Remaining
    <3>2. QED  BY <2>1, <3>1 DEF Quit_Callback
  <2>2. CASE Quit_Lock(f)
    BY <2>2 DEF Quit_Lock
  <2>3. CASE Quit_Store(f)
    BY <2>3 DEF Quit_Store, Codes
  <2>4. CASE Quit_NotifyAll(f)
    BY <2>4 DEF Quit_NotifyAll
  <2>5. QED  BY <1>1, <2>1, <2>2, <2>3, <2>4 DEF QuitStep
<1>2. ASSUME NEW q \in Quitters, CallQuit(q) PROVE Numbers'
  BY <1>2 DEF CallQuit
<1>3. ASSUME NEW s \in Signals, NEW t \in Threads, Deliver(s, t) PROVE Numbers'
  BY <1>3 DEF Deliver
<1>4. ASSUME NEW s \in Signals, quit_signaled(s) PROVE Numbers'
  BY <1>4 DEF quit_signaled
<1>5. CASE Core_Construct \/ RegisterForQuitEvent \/ WaitForQuit
  <2>1. 1 \in 1 .. NumCallbacks + 1
    OBVIOUS
  <2>2. next' \in [Frames -> 1 .. NumCallbacks + 1]
    BY <1>5, <2>1 DEF Core_Construct, RegisterForQuitEvent, WaitForQuit
  <2>3. g_core' \in BOOLEAN /\ UNCHANGED <<exit_code, mutex, result, signals>>
    BY <1>5 DEF Core_Construct, RegisterForQuitEvent, WaitForQuit
  <2>4. QED  BY <2>2, <2>3
<1>6. CASE Wait_Lock \/ Wait_Load \/ Wait_Sleep \/ SpuriousWakeup \/ Wait_Return
  BY <1>6 DEF Wait_Lock, Wait_Load, Wait_Sleep, SpuriousWakeup, Wait_Return
<1>7. CASE UNCHANGED vars
  BY <1>7 DEF vars
<1>8. QED
  BY <1>1, <1>2, <1>3, <1>4, <1>5, <1>6, <1>7 DEF Next, MainStep, Finished

\* Thread t runs, or has interrupted, handler s at depth i.
OnStack(s, t, i) == i \in 2 .. Len(stack[t]) /\ stack[t][i] = s

\* A thread's own frame lies below its handlers.  A handler is on one stack,
\* once, from its delivery to its return; there is one delivery for each.
StackInv ==
  /\ stack \in [Threads -> Seq(Frames)]
  /\ \A t \in Threads :
       /\ Len(stack[t]) \in 1 .. signals + 1
       /\ stack[t][1] = t
  /\ \A s \in Signals :
       pc[s] # "idle" <=> \E t \in Threads, i \in Nat : OnStack(s, t, i)
  /\ \A s \in Signals, t, u \in Threads, i, j \in Nat :
       OnStack(s, t, i) /\ OnStack(s, u, j) => t = u /\ i = j

\* A step that neither delivers a signal nor returns from a handler.
LEMMA StacksKept ==
  ASSUME StackInv, UNCHANGED <<stack, signals>>,
         \A s \in Signals : pc'[s] = "idle" <=> pc[s] = "idle"
  PROVE  StackInv'
<1>1. \A s, t, i : OnStack(s, t, i)' <=> OnStack(s, t, i)
  BY DEF OnStack
<1>2. \A s \in Signals :
        (pc[s] # "idle")' <=> \E t \in Threads, i \in Nat : OnStack(s, t, i)'
  BY <1>1 DEF StackInv
<1>3. \A s \in Signals, t, u \in Threads, i, j \in Nat :
        OnStack(s, t, i)' /\ OnStack(s, u, j)' => t = u /\ i = j
  BY <1>1 DEF StackInv
<1>4. QED  BY <1>2, <1>3 DEF StackInv

LEMMA DeliverStep ==
  ASSUME Ranges, Numbers, StackInv,
         NEW s \in Signals, NEW t \in Threads, Deliver(s, t)
  PROVE  StackInv'
<1> USE DEF StackInv
<1> s \in Frames /\ t \in Frames /\ t # s
  BY QuitAssumption DEF Frames, Threads
<1>1. /\ stack' = [stack EXCEPT ![t] = Append(@, s)]
      /\ pc[s] = "idle" /\ pc' = [pc EXCEPT ![s] = "handler"]
      /\ signals' = signals + 1
  BY DEF Deliver, Goto
<1>2. PICK n \in Nat : n = Len(stack[t]) /\ n \in 1 .. signals + 1
  BY DEF Numbers
<1>3. /\ stack'[t] \in Seq(Frames) /\ Len(stack'[t]) = n + 1
      /\ stack'[t][n + 1] = s
      /\ \A i \in 1 .. n : stack'[t][i] = stack[t][i]
  BY <1>1, <1>2
<1>4. \A u \in Threads \ {t} : stack'[u] = stack[u]
  BY <1>1
<1>5. \A r \in Signals, u \in Threads, i \in Nat :
        OnStack(r, u, i)' <=>
          OnStack(r, u, i) \/ (r = s /\ u = t /\ i = n + 1)
  <2> TAKE r \in Signals, u \in Threads, i \in Nat
  <2>1. CASE u = t
    BY <1>2, <1>3, <2>1 DEF OnStack
  <2>2. CASE u # t
    BY <1>4, <2>2 DEF OnStack
  <2>3. QED  BY <2>1, <2>2
<1>6. \A u \in Threads, i \in Nat : ~OnStack(s, u, i)
  BY <1>1
<1>7. \A r \in Signals :
        pc'[r] # "idle" <=> \E u \in Threads, i \in Nat : OnStack(r, u, i)'
  <2> TAKE r \in Signals
  <2>1. CASE r = s
    <3>1. n + 1 \in Nat
      BY <1>2
    <3>2. OnStack(s, t, n + 1)'
      BY <1>5, <3>1
    <3>3. pc'[s] # "idle"
      BY <1>1 DEF Ranges
    <3>4. QED  BY <2>1, <3>1, <3>2, <3>3
  <2>2. CASE r # s
    <3>1. pc'[r] = pc[r]
      BY <1>1, <2>2 DEF Ranges, Frames
    <3>2. QED  BY <1>5, <2>2, <3>1
  <2>3. QED  BY <2>1, <2>2
<1>8. \A r \in Signals, u, v \in Threads, i, j \in Nat :
        OnStack(r, u, i)' /\ OnStack(r, v, j)' => u = v /\ i = j
  BY <1>5, <1>6
<1>9. \A u \in Threads : Len(stack'[u]) \in 1 .. signals' + 1 /\ stack'[u][1] = u
  <2>1. ASSUME NEW u \in Threads, u # t
        PROVE  Len(stack'[u]) \in 1 .. signals' + 1 /\ stack'[u][1] = u
    BY <1>1, <1>4, <2>1 DEF Numbers
  <2>2. Len(stack'[t]) \in 1 .. signals' + 1 /\ stack'[t][1] = t
    BY <1>1, <1>2, <1>3 DEF Numbers
  <2>3. QED  BY <2>1, <2>2
<1>10. stack' \in [Threads -> Seq(Frames)]
  BY <1>1, <1>3
<1>11. QED  BY <1>7, <1>8, <1>9, <1>10

LEMMA ReturnStep ==
  ASSUME Ranges, Numbers, StackInv, NEW f \in Frames, Quit_NotifyAll(f)
  PROVE  StackInv'
<1> USE DEF StackInv
<1>1. /\ pc[f] = "notify" /\ signals' = signals
      /\ \A g \in Frames : pc'[g] = IF g = f THEN AfterQuit(f)
                                    ELSE IF g = Main /\ MainWaits THEN "relock"
                                    ELSE pc[g]
      /\ stack' = [t \in Threads |-> IF f \in Signals /\ Top(t) = f
                                     THEN SubSeq(stack[t], 1, Len(stack[t]) - 1)
                                     ELSE stack[t]]
  BY DEF Quit_NotifyAll
<1>2. CASE f \notin Signals
  <2>1. stack' = stack
    BY <1>1, <1>2
  <2>2. \A s \in Signals : pc'[s] = pc[s]
    BY <1>1, <1>2, QuitAssumption DEF Frames
  <2>3. QED  BY <1>1, <2>1, <2>2, StacksKept
<1>3. CASE f \in Signals
  <2>1. PICK t \in Threads : Top(t) = f
    BY DEF Quit_NotifyAll, Runs
  <2>2. PICK n \in Nat : n = Len(stack[t]) /\ n >= 1
    OBVIOUS
  <2>3. n >= 2 /\ OnStack(f, t, n)
    <3>1. stack[t][n] = f /\ stack[t][1] = t
      BY <2>1, <2>2 DEF Top
    <3>2. t # f
      BY <1>3, QuitAssumption DEF Threads
    <3>3. n >= 2
      BY <2>2, <3>1, <3>2
    <3>4. QED  BY <2>2, <3>1, <3>3 DEF OnStack
  <2>4. \A u \in Threads : Top(u) = f => u = t
    <3> SUFFICES ASSUME NEW u \in Threads, Top(u) = f PROVE u = t
      OBVIOUS
    <3>1. PICK m \in Nat : m = Len(stack[u]) /\ m >= 1
      OBVIOUS
    <3>2. stack[u][m] = f /\ stack[u][1] = u /\ u # f
      BY <1>3, <3>1, QuitAssumption DEF Top, Threads
    <3>3. OnStack(f, u, m)
      BY <3>1, <3>2 DEF OnStack
    <3>4. QED  BY <1>3, <2>3, <3>3
  <2>5. /\ stack'[t] = SubSeq(stack[t], 1, n - 1)
        /\ \A u \in Threads \ {t} : stack'[u] = stack[u]
    BY <1>1, <1>3, <2>1, <2>2, <2>4
  <2>6. /\ stack'[t] \in Seq(Frames) /\ Len(stack'[t]) = n - 1
        /\ \A i \in 1 .. n - 1 : stack'[t][i] = stack[t][i]
    BY <2>2, <2>3, <2>5
  <2>7. \A s \in Signals, u \in Threads, i \in Nat :
          OnStack(s, u, i)' <=> OnStack(s, u, i) /\ ~(u = t /\ i = n)
    <3> TAKE s \in Signals, u \in Threads, i \in Nat
    <3>1. CASE u = t
      <4>1. i \in 2 .. Len(stack'[t]) <=> i \in 2 .. Len(stack[t]) /\ i # n
        BY <2>2, <2>6
      <4>2. i \in 2 .. Len(stack'[t]) => stack'[t][i] = stack[t][i]
        BY <2>6
      <4>3. QED  BY <3>1, <4>1, <4>2 DEF OnStack
    <3>2. CASE u # t
      BY <2>5, <3>2 DEF OnStack
    <3>3. QED  BY <3>1, <3>2
  <2>8. \A s \in Signals :
          pc'[s] # "idle" <=> \E u \in Threads, i \in Nat : OnStack(s, u, i)'
    <3> TAKE s \in Signals
    <3>1. CASE s = f
      <4>1. pc'[f] = "idle"
        BY <1>1, <1>3, QuitAssumption DEF AfterQuit
      <4>2. \A u \in Threads, i \in Nat : ~OnStack(f, u, i)'
        BY <1>3, <2>3, <2>7
      <4>3. QED  BY <3>1, <4>1, <4>2
    <3>2. CASE s # f
      <4>1. pc'[s] = pc[s]
        BY <1>1, <3>2, QuitAssumption DEF Frames
      <4>2. ~OnStack(s, t, n)
        BY <2>3, <3>2 DEF OnStack
      <4>3. \A u \in Threads, i \in Nat : OnStack(s, u, i)' <=> OnStack(s, u, i)
        BY <2>7, <4>2
      <4>4. QED  BY <4>1, <4>3
    <3>3. QED  BY <3>1, <3>2
  <2>9. \A s \in Signals, u, v \in Threads, i, j \in Nat :
          OnStack(s, u, i)' /\ OnStack(s, v, j)' => u = v /\ i = j
    BY <2>7
  <2>10. \A u \in Threads : Len(stack'[u]) \in 1 .. signals' + 1
                            /\ stack'[u][1] = u
    <3>1. n \in 1 .. signals + 1
      BY <2>2
    <3>2. n - 1 \in 1 .. signals + 1 /\ 1 \in 1 .. n - 1
      BY <2>3, <3>1 DEF Numbers
    <3>3. QED  BY <1>1, <2>5, <2>6, <3>2
  <2>11. stack' \in [Threads -> Seq(Frames)]
    BY <1>1, <2>5, <2>6
  <2>12. QED  BY <2>8, <2>9, <2>10, <2>11
<1>4. QED  BY <1>2, <1>3

LEMMA StackStep ==
  ASSUME Ranges, Numbers, StackInv, [Next]_vars
  PROVE  StackInv'
<1> USE QuitAssumption DEF Ranges, quitVars, Goto, StartQuit
<1> Main \in Frames \ Signals /\ Quitters \subseteq Frames \ Signals
    /\ Signals \subseteq Frames
  BY DEF Frames, Threads
<1>1. ASSUME NEW f \in Frames, Quit_Callback(f) \/ Quit_Lock(f) \/ Quit_Store(f)
      PROVE  StackInv'
  <2>1. UNCHANGED <<stack, signals>>
    BY <1>1 DEF Quit_Callback, Quit_Lock, Quit_Store
  <2>2. \A s \in Signals : pc'[s] = "idle" <=> pc[s] = "idle"
    BY <1>1 DEF Quit_Callback, Quit_Lock, Quit_Store
  <2>3. QED  BY <2>1, <2>2, StacksKept
<1>2. ASSUME NEW f \in Frames, Quit_NotifyAll(f) PROVE StackInv'
  BY <1>2, ReturnStep
<1>3. ASSUME NEW q \in Quitters, CallQuit(q) PROVE StackInv'
  <2>1. UNCHANGED <<stack, signals>> /\ \A s \in Signals : pc'[s] = pc[s]
    BY <1>3 DEF CallQuit
  <2>2. QED  BY <2>1, StacksKept
<1>4. ASSUME NEW s \in Signals, NEW t \in Threads, Deliver(s, t)
      PROVE  StackInv'
  BY <1>4, DeliverStep
<1>5. ASSUME NEW s \in Signals, quit_signaled(s) PROVE StackInv'
  <2>1. UNCHANGED <<stack, signals>>
    BY <1>5 DEF quit_signaled
  <2>2. \A r \in Signals : pc'[r] = "idle" <=> pc[r] = "idle"
    BY <1>5 DEF quit_signaled
  <2>3. QED  BY <2>1, <2>2, StacksKept
<1>6. CASE Core_Construct \/ RegisterForQuitEvent \/ WaitForQuit \/ Wait_Lock
             \/ Wait_Load \/ Wait_Sleep \/ SpuriousWakeup \/ Wait_Return
  <2>1. UNCHANGED <<stack, signals>>
    BY <1>6 DEF Core_Construct, RegisterForQuitEvent, WaitForQuit, Wait_Lock,
       Wait_Load, Wait_Sleep, SpuriousWakeup, Wait_Return
  <2>2. \A s \in Signals : pc'[s] = pc[s]
    BY <1>6 DEF Core_Construct, RegisterForQuitEvent, WaitForQuit, Wait_Lock,
       Wait_Load, Wait_Sleep, SpuriousWakeup, Wait_Return
  <2>3. QED  BY <2>1, <2>2, StacksKept
<1>7. CASE UNCHANGED vars
  BY <1>7, StacksKept DEF vars
<1>8. QED
  BY <1>1, <1>2, <1>3, <1>4, <1>5, <1>6, <1>7 DEF Next, QuitStep, MainStep, Finished

\* The variables stay in their ranges, and a signal handler is on the stack of
\* one thread exactly while it runs (TypeOK of CoreQuit).
THEOREM TypeCorrect == Spec => []TypeOK
<1>1. Init => Numbers /\ StackInv
  <2> SUFFICES ASSUME Init PROVE Numbers /\ StackInv
    OBVIOUS
  <2>1. Numbers
    <3>1. 1 \in 1 .. NumCallbacks + 1 /\ 0 \in 0 .. NumCallbacks
          /\ 0 \in 0 .. MaxSignals
      BY QuitAssumption
    <3>2. next \in [Frames -> 1 .. NumCallbacks + 1]
      BY <3>1 DEF Init
    <3>3. QED  BY <3>1, <3>2 DEF Init, Numbers
  <2>2. /\ stack \in [Threads -> Seq(Frames)]
        /\ \A t \in Threads : Len(stack[t]) = 1 /\ stack[t][1] = t
    BY DEF Init, Frames
  <2>3. \A s, i : \A t \in Threads : ~OnStack(s, t, i)
    BY <2>2 DEF OnStack
  <2>4. \A s \in Signals : pc[s] = "idle"
    BY QuitAssumption DEF Init, Frames
  <2>5. \A t \in Threads : Len(stack[t]) \in 1 .. signals + 1
    BY <2>2 DEF Init
  <2>6. QED  BY <2>1, <2>2, <2>3, <2>4, <2>5 DEF StackInv
<1>2. Ranges /\ Numbers /\ StackInv /\ [Next]_vars => Numbers' /\ StackInv'
  BY NumbersStep, StackStep
<1>3. ASSUME Ranges, Numbers, StackInv PROVE TypeOK
  <2>1. ASSUME NEW s \in Signals, NEW t \in Threads, NEW i \in Nat
        PROVE  OnStack(s, t, i) <=>
                 i \in 2 .. MaxSignals + 1 /\ i \in DOMAIN stack[t] /\ stack[t][i] = s
    <3>1. DOMAIN stack[t] = 1 .. Len(stack[t]) /\ Len(stack[t]) \in 1 .. signals + 1
      BY <1>3 DEF StackInv
    <3>2. QED  BY <1>3, <3>1, QuitAssumption DEF OnStack, Numbers
  <2>2. \A s \in Signals : pc[s] # "idle" <=>
          \E t \in Threads, i \in 2 .. MaxSignals + 1 :
            i \in DOMAIN stack[t] /\ stack[t][i] = s
    <3>1. \A i \in 2 .. MaxSignals + 1 : i \in Nat
      BY QuitAssumption
    <3>2. QED  BY <1>3, <2>1, <3>1 DEF StackInv
  <2>3. \A t \in Threads : Len(stack[t]) > 0 /\ stack[t][1] = t
    BY <1>3 DEF StackInv, Numbers
  <2>4. QED  BY <1>3, <2>2, <2>3 DEF TypeOK, Ranges, Numbers, StackInv
<1>4. QED  BY <1>1, <1>2, <1>3, RangesHold, PTL DEF Spec
=============================================================================
