---------------------------- MODULE Visualization ----------------------------
(***************************************************************************)
(* The windows of zamt (vis_gtk/src/Visualization.cpp).                    *)
(*                                                                         *)
(* A client, such as a RawAudioVisualizer on the audio thread, opens a     *)
(* window, asks again and again for a render callback and closes the       *)
(* window.  GTK objects belong to the rendering thread: its timer          *)
(* (OnTimeout) creates and destroys them and queues redraws; a draw event  *)
(* (OnDraw) runs the callback asked for last.  Quitting sets a flag that   *)
(* the timer polls.                                                        *)
(*                                                                         *)
(* Critical sections of windows_mutex_ and of a window's callback_mutex_   *)
(* are steps; every read outside of them is a step of its own.  An         *)
(* assertion that fails aborts the program, as it does in a Debug build.   *)
(***************************************************************************)
EXTENDS Integers, Sequences, FiniteSets

CONSTANTS Clients,      \* objects that open one window each
          MaxQueries    \* bounds the render queries of each client

ASSUME VisualizationAssumption == IsFiniteSet(Clients) /\ MaxQueries \in Nat

NoCallback == [query |-> 0]
Callbacks  == [client : Clients, query : 1 .. MaxQueries]

VARIABLES
  windows_,            \* the deque: per window, what is set
  shutdown_initiated_,
  timer,               \* OnTimeout is connected
  quit,                \* application_->quit() was called
  loop,                \* where the rendering thread is
  id,                  \* the window it is working on
  callback,            \* OnDraw's copy of the render callback
  joined,              \* the destructor has joined the thread
  pc,                  \* per client: where it is
  window_id,           \* per client: the id of its window
  queries,             \* per client: queries so far
  rendered             \* per client: its last query that was rendered

clientVars == <<pc, window_id, queries>>
loopVars   == <<timer, quit, loop, id, callback, joined>>
vars == <<windows_, shutdown_initiated_, loopVars, clientVars, rendered>>

Window == [title : BOOLEAN, canvas : BOOLEAN,
           queried : Callbacks \cup {NoCallback}, redraw : BOOLEAN]

EmptyWindow == [title |-> FALSE, canvas |-> FALSE,
                queried |-> NoCallback, redraw |-> FALSE]

IsEmpty(w)       == ~w.title
IsInitialized(w) == w.canvas

Init ==
  /\ windows_ = <<>>
  /\ shutdown_initiated_ = FALSE
  /\ timer = TRUE
  /\ quit = FALSE
  /\ loop = "idle"
  /\ id = 1
  /\ callback = NoCallback
  /\ joined = FALSE
  /\ pc = [c \in Clients |-> "new"]
  /\ window_id = [c \in Clients |-> 0]
  /\ queries = [c \in Clients |-> 0]
  /\ rendered = [c \in Clients |-> 0]

Goto(c, l) == pc' = [pc EXCEPT ![c] = l]

-----------------------------------------------------------------------------
(* Clients.                                                                *)

BugIgnoresTitle(w)  == ~IsInitialized(w)
BugIgnoresCanvas(w) == IsEmpty(w)
IsFree(w)           == IsEmpty(w) /\ ~IsInitialized(w)

\* The first free window, or a new one at the end.
OpenWindow(c) ==
  /\ pc[c] = "new"
  /\ \E i \in 1 .. Len(windows_) + 1 :
       /\ i <= Len(windows_) => IsFree(windows_[i])
       /\ \A j \in 1 .. i - 1 : ~IsFree(windows_[j])
       /\ windows_' = IF i \in DOMAIN windows_
                        THEN [windows_ EXCEPT ![i].title = TRUE]
                        ELSE Append(windows_, [EmptyWindow EXCEPT !.title = TRUE])
       /\ window_id' = [window_id EXCEPT ![c] = i]
  /\ Goto(c, "open")
  /\ UNCHANGED <<shutdown_initiated_, loopVars, queries, rendered>>

QueryRender(c) ==
  /\ pc[c] = "open"
  /\ queries[c] < MaxQueries
  /\ Goto(c, "query")
  /\ UNCHANGED <<windows_, shutdown_initiated_, loopVars, window_id, queries,
                 rendered>>

\* The assertion, without any lock.
QueryRender_Check(c) ==
  /\ pc[c] = "query"
  /\ ~IsEmpty(windows_[window_id[c]])
  /\ Goto(c, "set")
  /\ UNCHANGED <<windows_, shutdown_initiated_, loopVars, window_id, queries,
                 rendered>>

QueryRender_Set(c) ==
  /\ pc[c] = "set"
  /\ queries' = [queries EXCEPT ![c] = @ + 1]
  /\ windows_' = [windows_ EXCEPT ![window_id[c]].queried =
                    [client |-> c, query |-> queries[c] + 1]]
  /\ Goto(c, "open")
  /\ UNCHANGED <<shutdown_initiated_, loopVars, window_id, rendered>>

CloseWindow(c) ==
  /\ pc[c] = "open"
  /\ Goto(c, "close")
  /\ UNCHANGED <<windows_, shutdown_initiated_, loopVars, window_id, queries,
                 rendered>>

\* What CloseWindow asserts: the window is open and the timer has created it.
Closable(w) == ~IsEmpty(w) /\ IsInitialized(w)

\* The client's destructor closes the window, and the client is gone.
CloseWindow_Locked(c) ==
  /\ pc[c] = "close"
  /\ Closable(windows_[window_id[c]])
  /\ windows_' = [windows_ EXCEPT ![window_id[c]].title = FALSE]
  /\ window_id' = [window_id EXCEPT ![c] = 0]
  /\ Goto(c, "gone")
  /\ UNCHANGED <<shutdown_initiated_, loopVars, queries, rendered>>

\* The quit callback, on the thread that quits.
Shutdown ==
  /\ ~shutdown_initiated_
  /\ loop # "aborted"
  /\ shutdown_initiated_' = TRUE
  /\ UNCHANGED <<windows_, loopVars, clientVars, rendered>>

-----------------------------------------------------------------------------
(* The timer.                                                              *)

BugQuitsWithWindows == shutdown_initiated_ /\ windows_ # <<>>
Quits               == shutdown_initiated_

OnTimeout ==
  /\ loop = "idle"
  /\ timer
  /\ quit' = Quits
  /\ loop' = IF shutdown_initiated_ THEN "test" ELSE "update"
  /\ id' = 1
  /\ UNCHANGED <<windows_, shutdown_initiated_, timer, callback, joined,
                 clientVars, rendered>>

\* Looks for windows to close, without any lock.
OnTimeout_Test ==
  /\ loop = "test"
  /\ IF id > Len(windows_)
       THEN loop' = "update" /\ id' = 1
     ELSE IF Closable(windows_[id])
       THEN loop' = "close" /\ UNCHANGED id
     ELSE id' = id + 1 /\ UNCHANGED loop
  /\ UNCHANGED <<windows_, shutdown_initiated_, timer, quit, callback, joined,
                 clientVars, rendered>>

OnTimeout_Close ==
  /\ loop = "close"
  /\ Closable(windows_[id])
  /\ windows_' = [windows_ EXCEPT ![id].title = FALSE]
  /\ loop' = "test"
  /\ id' = id + 1
  /\ UNCHANGED <<shutdown_initiated_, timer, quit, callback, joined, clientVars,
                 rendered>>

\* Window::CloseWindow, then Window::OpenWindow, then queue_draw.
Closed(w) == IF IsEmpty(w) /\ IsInitialized(w) THEN EmptyWindow ELSE w
Opened(w) == [w EXCEPT !.canvas = @ \/ ~IsEmpty(w)]

BugNoRedraw(w)  == FALSE
WantsRedraw(w)  == IsInitialized(w) /\ w.queried # NoCallback
Redrawn(w)      == [w EXCEPT !.redraw = @ \/ WantsRedraw(w)]

OnTimeout_Update ==
  /\ loop = "update"
  /\ id <= Len(windows_)
  /\ windows_' = [windows_ EXCEPT ![id] = Redrawn(Opened(Closed(@)))]
  /\ id' = id + 1
  /\ UNCHANGED <<shutdown_initiated_, timer, quit, loop, callback, joined,
                 clientVars, rendered>>

\* The timer stays connected if it returns true; the main loop ends if it was
\* told to.
OnTimeout_Return ==
  /\ loop = "update"
  /\ id > Len(windows_)
  /\ timer' = ~shutdown_initiated_
  /\ loop' = IF quit THEN "ended" ELSE "idle"
  /\ UNCHANGED <<windows_, shutdown_initiated_, quit, id, callback, joined,
                 clientVars, rendered>>

-----------------------------------------------------------------------------
(* Drawing.                                                                *)

MayRender(w) == ~shutdown_initiated_ /\ w.queried # NoCallback

\* GTK draws a window that was queued for it, or that was uncovered.
OnDraw(i) ==
  /\ loop = "idle"
  /\ i \in DOMAIN windows_
  /\ IsInitialized(windows_[i])
  /\ windows_' = [windows_ EXCEPT ![i].redraw = FALSE]
  /\ IF MayRender(windows_[i])
       THEN loop' = "take" /\ id' = i
       ELSE UNCHANGED <<loop, id>>
  /\ UNCHANGED <<shutdown_initiated_, timer, quit, callback, joined, clientVars,
                 rendered>>

BugKeepsQuery(w) == w
Taken(w)         == [w EXCEPT !.queried = NoCallback]

OnDraw_Take ==
  /\ loop = "take"
  /\ callback' = windows_[id].queried
  /\ windows_' = [windows_ EXCEPT ![id] = Taken(@)]
  /\ loop' = "render"
  /\ UNCHANGED <<shutdown_initiated_, timer, quit, id, joined, clientVars,
                 rendered>>

OnDraw_Render ==
  /\ loop = "render"
  /\ rendered' = [rendered EXCEPT ![callback.client] = callback.query]
  /\ callback' = NoCallback
  /\ loop' = "idle"
  /\ UNCHANGED <<windows_, shutdown_initiated_, timer, quit, id, joined,
                 clientVars>>

\* ~Visualization.
Destroy ==
  /\ loop = "ended"
  /\ ~joined
  /\ joined' = TRUE
  /\ UNCHANGED <<windows_, shutdown_initiated_, timer, quit, loop, id, callback,
                 clientVars, rendered>>

-----------------------------------------------------------------------------
(* Assertions.                                                             *)

QueryFails(c) == pc[c] = "query" /\ IsEmpty(windows_[window_id[c]])
CloseFails(c) == pc[c] = "close" /\ ~Closable(windows_[window_id[c]])
TimerFails    == loop = "close" /\ ~Closable(windows_[id])

Aborted == loop = "aborted"

\* All threads stop where they are.
Abort ==
  /\ TimerFails \/ \E c \in Clients : QueryFails(c) \/ CloseFails(c)
  /\ loop' = "aborted"
  /\ pc' = [c \in Clients |-> "aborted"]
  /\ UNCHANGED <<windows_, shutdown_initiated_, timer, quit, id, callback, joined,
                 window_id, queries, rendered>>

-----------------------------------------------------------------------------

Call(c)    == OpenWindow(c) \/ QueryRender(c) \/ CloseWindow(c)
Proceed(c) == QueryRender_Check(c) \/ QueryRender_Set(c) \/ CloseWindow_Locked(c)

\* The rendering thread inside a handler.
Handle ==
  \/ OnTimeout_Test \/ OnTimeout_Close \/ OnTimeout_Update \/ OnTimeout_Return
  \/ OnDraw_Take \/ OnDraw_Render

Next ==
  \/ \E c \in Clients : Call(c) \/ Proceed(c)
  \/ Shutdown
  \/ OnTimeout
  \/ \E i \in DOMAIN windows_ : OnDraw(i)
  \/ Handle
  \/ Destroy
  \/ Abort

Spec == Init /\ [][Next]_vars

RedrawQueued(i) == i \in DOMAIN windows_ /\ windows_[i].redraw /\ OnDraw(i)

\* Handlers return, the connected timer fires and queued redraws are drawn,
\* however many other events GTK handles in between; calls under way go on; an
\* assertion that fails aborts.
Fairness ==
  /\ WF_vars(Handle) /\ SF_vars(OnTimeout) /\ WF_vars(Destroy)
  /\ \A i \in 1 .. Cardinality(Clients) : SF_vars(RedrawQueued(i))
  /\ \A c \in Clients : WF_vars(Proceed(c))
  /\ WF_vars(Abort)

FairSpec == Spec /\ Fairness

-----------------------------------------------------------------------------
(* Properties.                                                             *)

\* The variables stay in their ranges: among them, the callback that is about
\* to be called is not null.
TypeOK ==
  /\ windows_ \in Seq(Window)
  /\ shutdown_initiated_ \in BOOLEAN
  /\ timer \in BOOLEAN /\ quit \in BOOLEAN /\ joined \in BOOLEAN
  /\ loop \in {"idle", "test", "close", "update", "take", "render", "ended",
              "aborted"}
  /\ id \in 1 .. Len(windows_) + 1
  /\ callback \in Callbacks \cup {NoCallback}
  /\ loop = "render" => callback # NoCallback
  /\ pc \in [Clients -> {"new", "open", "query", "set", "close", "gone",
                        "aborted"}]
  /\ window_id \in [Clients -> 0 .. Len(windows_)]
  /\ queries \in [Clients -> 0 .. MaxQueries]
  /\ rendered \in [Clients -> 0 .. MaxQueries]

Live(c) == pc[c] \in {"open", "query", "set", "close"}

\* Until shutdown, windows are reused but never shared: each client's id denotes
\* an open window that no other client has.
WindowsApart ==
  ~shutdown_initiated_ =>
    \A c \in Clients : Live(c) =>
      /\ ~IsEmpty(windows_[window_id[c]])
      /\ \A d \in Clients \ {c} : window_id[d] # window_id[c]

\* Until shutdown, after which nothing is drawn, a reused window never draws what
\* was queried for its predecessor.
OwnDrawings ==
  ~shutdown_initiated_ /\ ~Aborted => \A i \in DOMAIN windows_ :
    LET w == windows_[i]
    IN ~IsEmpty(w) /\ w.queried # NoCallback =>
         Live(w.queried.client) /\ window_id[w.queried.client] = i

\* No query is rendered twice or after a later one ("a second query removes the
\* previous one", Visualization.h:60-61).
RendersOnce == loop = "render" => callback.query > rendered[callback.client]

\* A query is rendered (Visualization.h:58) unless another one replaces it, the
\* client closes the window, the program quits, or an assertion fails.
QueriesRendered ==
  \A c \in Clients : \A q \in 1 .. MaxQueries :
    queries[c] = q ~>
      \/ rendered[c] = q
      \/ queries[c] > q
      \/ pc[c] \in {"close", "gone"}
      \/ shutdown_initiated_
      \/ Aborted

\* The flag was set between the two reads of one tick: the main loop goes on and
\* nobody tells it to quit.
TimerLost == loop = "idle" /\ ~timer

\* Shutdown ends the rendering thread, whatever it is doing and whoever is still
\* in a call, so that the destructor returns (Visualization.cpp:32-36).  Only a
\* lost timer or a failed assertion keeps the timer from telling the main loop to
\* quit, and only a failed assertion keeps a tick that has seen the flag from
\* ending it.
ShutdownEndsLoop ==
  /\ shutdown_initiated_ ~> quit \/ TimerLost \/ Aborted
  /\ loop = "test" ~> joined \/ Aborted

\* No assertion fails (Visualization.cpp:73-74, 83), which a client that closes
\* its window before the timer has created it, or at shutdown with the timer,
\* refutes.
NeverAborts == ~Aborted
=============================================================================
