-------------------------- MODULE VisualizationProofs --------------------------
(***************************************************************************)
(* The windows of any number of clients and queries, whenever clients open *)
(* and close windows and whenever the program quits.                       *)
(***************************************************************************)
EXTENDS Visualization, TLAPS

Ids == DOMAIN windows_

\* What a client must have to be where it is.
CallInv ==
  \A c \in Clients :
    /\ Live(c) => window_id[c] \in Ids
    /\ pc[c] \in {"new", "gone"} => window_id[c] = 0
    /\ pc[c] = "aborted" <=> Aborted
    /\ pc[c] = "new" => queries[c] = 0
    /\ pc[c] \in {"query", "set"} => queries[c] < MaxQueries
    /\ rendered[c] <= queries[c]

\* Until Shutdown clients have open windows of their own.
SlotInv ==
  ~shutdown_initiated_ =>
    /\ \A c \in Clients : Live(c) => windows_[window_id[c]].title
    /\ \A c, d \in Clients :
         Live(c) /\ Live(d) /\ window_id[c] = window_id[d] => c = d

QueriedBy(i, c) ==
  windows_[i].queried # NoCallback /\ windows_[i].queried.client = c

\* A client's query waits in one window at most, its own, for as long as the
\* client has one.
QueryInv ==
  /\ \A i \in Ids, c \in Clients : QueriedBy(i, c) =>
       /\ rendered[c] < windows_[i].queried.query
       /\ windows_[i].queried.query <= queries[c]
       /\ Live(c) => window_id[c] = i
  /\ \A i, j \in Ids, c \in Clients : QueriedBy(i, c) /\ QueriedBy(j, c) => i = j

\* Until Shutdown a query goes with its client's window.
ReuseInv ==
  ~shutdown_initiated_ /\ ~Aborted => \A i \in Ids :
    /\ IsFree(windows_[i]) => windows_[i].queried = NoCallback
    /\ windows_[i].title =>
         \A c \in Clients : QueriedBy(i, c) => Live(c)

\* The timer closes windows only when the program quits; the callback being run
\* is older than what its client has queried since.
LoopInv ==
  /\ loop \in {"test", "close"} => shutdown_initiated_
  /\ loop = "close" => id \in Ids
  /\ loop = "take" => id \in Ids /\ windows_[id].queried # NoCallback
  /\ loop = "render" =>
       /\ rendered[callback.client] < callback.query
       /\ callback.query <= queries[callback.client]
       /\ \A i \in Ids : QueriedBy(i, callback.client) =>
            callback.query < windows_[i].queried.query

IInv == TypeOK /\ CallInv /\ SlotInv /\ QueryInv /\ ReuseInv /\ LoopInv

-----------------------------------------------------------------------------

LEMMA CallbackNotNull ==
  /\ NoCallback \notin Callbacks
  /\ \A q \in Callbacks : q.client \in Clients /\ q.query \in 1 .. MaxQueries
<1>1. \A q \in Callbacks : q.client \in Clients /\ q.query \in 1 .. MaxQueries
  BY DEF Callbacks
<1>2. NoCallback.query = 0
  BY DEF NoCallback
<1>3. QED  BY <1>1, <1>2

LEMMA WindowTyped ==
  ASSUME TypeOK, NEW i \in Ids
  PROVE  /\ windows_[i] \in Window
         /\ windows_[i].title \in BOOLEAN /\ windows_[i].canvas \in BOOLEAN
         /\ windows_[i].queried \in Callbacks \cup {NoCallback}
         /\ \A c \in Clients : QueriedBy(i, c) =>
              /\ windows_[i].queried \in Callbacks
              /\ windows_[i].queried.query \in 1 .. MaxQueries
<1>1. windows_[i] \in Window
  BY DEF TypeOK, Ids
<1>2. QED  BY <1>1, CallbackNotNull DEF Window, QueriedBy

\* The effect of replacing one window.
LEMMA ReplaceWindow ==
  ASSUME windows_ \in Seq(Window), NEW i \in Ids, NEW v \in Window,
         windows_' = [windows_ EXCEPT ![i] = v]
  PROVE  /\ windows_' \in Seq(Window) /\ Ids' = Ids
         /\ Len(windows_') = Len(windows_)
         /\ \A j \in Ids : windows_'[j] = IF j = i THEN v ELSE windows_[j]
BY DEF Ids

LEMMA InitInv == Init => IInv
<1> SUFFICES ASSUME Init PROVE IInv
  OBVIOUS
<1> USE VisualizationAssumption
<1>1. TypeOK
  <2>1. windows_ \in Seq(Window) /\ Len(windows_) = 0
    BY DEF Init
  <2>2. /\ id \in 1 .. Len(windows_) + 1
        /\ window_id \in [Clients -> 0 .. Len(windows_)]
        /\ queries \in [Clients -> 0 .. MaxQueries]
        /\ rendered \in [Clients -> 0 .. MaxQueries]
    BY <2>1 DEF Init
  <2>3. /\ callback \in Callbacks \cup {NoCallback}
        /\ loop = "idle"
        /\ pc \in [Clients -> {"new", "open", "query", "set", "close", "gone",
                              "aborted"}]
    BY DEF Init
  <2>4. QED  BY <2>1, <2>2, <2>3 DEF Init, TypeOK
<1>2. Ids = {}
  BY DEF Init, Ids
<1>3. \A c \in Clients : ~Live(c)
  BY DEF Init, Live
<1>4. CallInv
  BY <1>3 DEF Init, CallInv, Aborted
<1>5. SlotInv /\ QueryInv /\ ReuseInv /\ LoopInv
  BY <1>2, <1>3 DEF Init, SlotInv, QueryInv, ReuseInv, LoopInv
<1>6. QED  BY <1>1, <1>4, <1>5 DEF IInv

-----------------------------------------------------------------------------
(* Steps of clients.                                                       *)

\* A client that enters a call, or goes on in one.
LEMMA MoveInv ==
  ASSUME IInv, NEW c \in Clients,
         QueryRender(c) \/ QueryRender_Check(c) \/ CloseWindow(c)
  PROVE  IInv'
<1> USE DEF IInv
<1>1. PICK l \in {"query", "set", "close"} :
        /\ pc' = [pc EXCEPT ![c] = l]
        /\ pc[c] \in {"open", "query"}
        /\ l \in {"query", "set"} => queries[c] < MaxQueries
  <2>1. CASE QueryRender(c)
    BY <2>1 DEF QueryRender, Goto
  <2>2. CASE QueryRender_Check(c)
    BY <2>2 DEF QueryRender_Check, CallInv, Goto
  <2>3. CASE CloseWindow(c)
    BY <2>3 DEF CloseWindow, Goto
  <2>4. QED  BY <2>1, <2>2, <2>3
<1>2. UNCHANGED <<windows_, shutdown_initiated_, loopVars, window_id, queries,
                  rendered>>
  BY DEF QueryRender, QueryRender_Check, CloseWindow
<1>3. TypeOK'
  BY <1>1, <1>2 DEF TypeOK, loopVars
<1>4. \A d \in Clients : /\ Live(d)' <=> Live(d)
                         /\ pc'[d] = IF d = c THEN l ELSE pc[d]
  BY <1>1 DEF Live, TypeOK
<1>5. CallInv'
  BY <1>1, <1>2, <1>4 DEF CallInv, Ids, Aborted, loopVars
<1>6. SlotInv' /\ QueryInv'
  BY <1>2, <1>4 DEF SlotInv, QueryInv, QueriedBy, Ids
<1>7. ReuseInv' /\ LoopInv'
  BY <1>2, <1>4 DEF ReuseInv, LoopInv, QueriedBy, Ids, Aborted, IsFree, IsEmpty,
                    IsInitialized, loopVars
<1>8. QED  BY <1>3, <1>5, <1>6, <1>7

LEMMA OpenWindowInv ==
  ASSUME IInv, NEW c \in Clients, OpenWindow(c)
  PROVE  IInv'
<1> USE VisualizationAssumption DEF IInv
<1>1. PICK i \in 1 .. Len(windows_) + 1 :
        /\ i <= Len(windows_) => IsFree(windows_[i])
        /\ windows_' = IF i \in DOMAIN windows_
              THEN [windows_ EXCEPT ![i].title = TRUE]
              ELSE Append(windows_, [EmptyWindow EXCEPT !.title = TRUE])
        /\ window_id' = [window_id EXCEPT ![c] = i]
  BY DEF OpenWindow
<1>2. /\ pc[c] = "new" /\ pc' = [pc EXCEPT ![c] = "open"]
      /\ UNCHANGED <<shutdown_initiated_, loopVars, queries, rendered>>
  BY DEF OpenWindow, Goto
<1>3. windows_ \in Seq(Window) /\ Len(windows_) \in Nat
      /\ Ids = 1 .. Len(windows_)
  BY DEF TypeOK, Ids
<1>4. /\ windows_' \in Seq(Window)
      /\ Len(windows_') >= Len(windows_) /\ Len(windows_') \in Nat
      /\ Ids' = Ids \cup {i} /\ Ids' = 1 .. Len(windows_')
      /\ windows_'[i].title
      /\ windows_'[i].queried =
           IF i \in Ids THEN windows_[i].queried ELSE NoCallback
      /\ \A j \in Ids : j # i => windows_'[j] = windows_[j]
  <2>1. CASE i \in Ids
    <3> DEFINE v == [windows_[i] EXCEPT !.title = TRUE]
    <3>1. windows_[i] \in Window
      BY <2>1, WindowTyped
    <3>2. v \in Window /\ v.title /\ v.queried = windows_[i].queried
      BY <3>1 DEF Window
    <3>3. windows_' = [windows_ EXCEPT ![i] = v]
      BY <1>1, <2>1 DEF Ids
    <3> HIDE DEF v
    <3>4. /\ windows_' \in Seq(Window) /\ Ids' = Ids
          /\ Len(windows_') = Len(windows_)
          /\ \A j \in Ids : windows_'[j] = IF j = i THEN v ELSE windows_[j]
      BY <1>3, <2>1, <3>2, <3>3, ReplaceWindow
    <3>5. QED  BY <1>3, <2>1, <3>2, <3>4
  <2>2. CASE i \notin Ids
    <3> DEFINE v == [EmptyWindow EXCEPT !.title = TRUE]
    <3>1. v \in Window /\ v.title /\ v.queried = NoCallback
      BY DEF EmptyWindow, Window
    <3>2. windows_' = Append(windows_, v) /\ i = Len(windows_) + 1
      BY <1>1, <1>3, <2>2 DEF Ids
    <3> HIDE DEF v
    <3>3. QED  BY <1>3, <2>2, <3>1, <3>2 DEF Ids
  <2>3. QED  BY <2>1, <2>2
<1>5. i \in Ids => IsFree(windows_[i]) /\ ~windows_[i].title
  BY <1>1, <1>3 DEF IsFree, IsEmpty
<1>6. TypeOK'
  BY <1>1, <1>2, <1>3, <1>4 DEF TypeOK, loopVars
<1>7. \A d \in Clients : /\ Live(d)' <=> (Live(d) \/ d = c)
                         /\ pc'[d] = IF d = c THEN "open" ELSE pc[d]
                         /\ window_id'[d] = IF d = c THEN i ELSE window_id[d]
  BY <1>1, <1>2 DEF Live, TypeOK
<1>8. CallInv'
  BY <1>2, <1>4, <1>7 DEF CallInv, Live, Aborted, loopVars
<1>9. SlotInv'
  <2>1. \A d \in Clients : Live(d) /\ ~shutdown_initiated_ =>
          window_id[d] \in Ids /\ window_id[d] # i
    BY <1>5 DEF CallInv, SlotInv
  <2>2. QED  BY <1>2, <1>4, <1>7, <2>1 DEF SlotInv
<1>10. \A j \in Ids : ~QueriedBy(j, c)
  <2>1. queries[c] = 0
    BY <1>2 DEF CallInv
  <2>2. \A j \in Ids : QueriedBy(j, c) =>
          /\ windows_[j].queried.query \in 1 .. MaxQueries
          /\ windows_[j].queried.query <= 0
    BY <2>1, WindowTyped DEF QueryInv
  <2>3. QED  BY <2>2
<1>11. \A j \in Ids', d \in Clients : QueriedBy(j, d)' =>
         /\ j \in Ids /\ d # c /\ QueriedBy(j, d)
         /\ windows_'[j].queried = windows_[j].queried
  BY <1>4, <1>10 DEF QueriedBy
<1>12. QueryInv'
  BY <1>2, <1>7, <1>11 DEF QueryInv
<1>13. ReuseInv'
  <2> SUFFICES ASSUME ~shutdown_initiated_, ~Aborted, NEW j \in Ids'
               PROVE  /\ IsFree(windows_'[j]) => windows_'[j].queried = NoCallback
                      /\ windows_'[j].title =>
                           \A d \in Clients : QueriedBy(j, d)' => Live(d)'
    BY <1>2 DEF ReuseInv, Aborted, loopVars, IsFree, IsEmpty, IsInitialized
  <2>1. CASE j = i
    <3>1. windows_'[i].queried = NoCallback
      BY <1>4, <1>5 DEF ReuseInv
    <3>2. QED  BY <2>1, <3>1 DEF QueriedBy
  <2>2. CASE j # i
    <3>1. j \in Ids /\ windows_'[j] = windows_[j]
      BY <1>4, <2>2
    <3>2. QED  BY <1>7, <1>11, <3>1 DEF ReuseInv
  <2>3. QED  BY <2>1, <2>2
<1>14. LoopInv'
  <2>1. loop = "close" => id \in Ids'
    BY <1>4 DEF LoopInv
  <2>2. loop = "take" => id \in Ids' /\ windows_'[id].queried # NoCallback
    BY <1>4 DEF LoopInv
  <2>3. loop = "render" => callback.client \in Clients
    BY CallbackNotNull DEF TypeOK
  <2>4. loop = "render" =>
          \A j \in Ids' : QueriedBy(j, callback.client)' =>
            callback.query < windows_'[j].queried.query
    BY <1>2, <1>11, <2>3 DEF LoopInv, QueriedBy, loopVars
  <2>5. QED  BY <1>2, <2>1, <2>2, <2>4 DEF LoopInv, loopVars
<1>15. QED  BY <1>6, <1>8, <1>9, <1>12, <1>13, <1>14

LEMMA QuerySetInv ==
  ASSUME IInv, NEW c \in Clients, QueryRender_Set(c)
  PROVE  IInv'
<1> USE VisualizationAssumption DEF IInv
<1> DEFINE i == window_id[c]
           q == [client |-> c, query |-> queries[c] + 1]
           v == [windows_[i] EXCEPT !.queried = q]
<1>1. /\ pc[c] = "set" /\ pc' = [pc EXCEPT ![c] = "open"]
      /\ queries' = [queries EXCEPT ![c] = queries[c] + 1]
      /\ windows_' = [windows_ EXCEPT ![i] = v]
      /\ UNCHANGED <<shutdown_initiated_, loopVars, window_id, rendered>>
  BY DEF QueryRender_Set, Goto
<1>2. Live(c) /\ i \in Ids /\ queries[c] < MaxQueries
  BY <1>1 DEF CallInv, Live
<1>3. queries[c] \in Nat /\ queries' \in [Clients -> 0 .. MaxQueries]
  BY <1>1, <1>2 DEF TypeOK
<1>4. q \in Callbacks
  BY <1>2, <1>3 DEF Callbacks
<1>5. q.client = c /\ q.query = queries[c] + 1 /\ q # NoCallback
  BY <1>4, CallbackNotNull
<1> HIDE DEF q
<1>6. windows_[i] \in Window
  BY <1>2, WindowTyped
<1>7. /\ v \in Window /\ v.queried = q
      /\ v.title = windows_[i].title /\ v.canvas = windows_[i].canvas
  BY <1>4, <1>6 DEF Window
<1> HIDE DEF v
<1>8. windows_ \in Seq(Window)
  BY DEF TypeOK
<1>9. /\ windows_' \in Seq(Window) /\ Ids' = Ids
      /\ Len(windows_') = Len(windows_)
      /\ \A j \in Ids : windows_'[j] = IF j = i THEN v ELSE windows_[j]
  BY <1>1, <1>2, <1>7, <1>8, ReplaceWindow
<1> HIDE DEF i
<1>10. TypeOK'
  BY <1>1, <1>3, <1>9 DEF TypeOK, loopVars
<1>11. \A d \in Clients :
         /\ Live(d)' <=> Live(d)
         /\ pc'[d] = IF d = c THEN "open" ELSE pc[d]
         /\ queries'[d] = IF d = c THEN queries[c] + 1 ELSE queries[d]
         /\ queries[d] \in Nat /\ rendered[d] \in Nat
  BY <1>1 DEF Live, TypeOK
<1>12. CallInv'
  BY <1>1, <1>3, <1>9, <1>11 DEF CallInv, Live, Aborted, loopVars
<1>13. SlotInv'
  <2>1. \A d \in Clients : Live(d) => window_id[d] \in Ids
    BY DEF CallInv
  <2>2. QED  BY <1>1, <1>7, <1>9, <1>11, <2>1 DEF SlotInv
<1>14. \A j \in Ids, d \in Clients : QueriedBy(j, d)' =>
         \/ j = i /\ d = c /\ windows_'[j].queried.query = queries[c] + 1
         \/ j # i /\ d # c /\ QueriedBy(j, d) /\ windows_'[j] = windows_[j]
  <2>1. \A j \in Ids : QueriedBy(j, c) => j = i
    BY <1>2 DEF QueryInv, i
  <2>2. QED  BY <1>5, <1>7, <1>9, <2>1 DEF QueriedBy
<1>15. QueryInv'
  <2>1. \A j \in Ids', d \in Clients : QueriedBy(j, d)' =>
          /\ rendered'[d] < windows_'[j].queried.query
          /\ windows_'[j].queried.query <= queries'[d]
          /\ Live(d)' => window_id'[d] = j
    <3> SUFFICES ASSUME NEW j \in Ids', NEW d \in Clients, QueriedBy(j, d)'
                 PROVE  /\ rendered'[d] < windows_'[j].queried.query
                        /\ windows_'[j].queried.query <= queries'[d]
                        /\ Live(d)' => window_id'[d] = j
      OBVIOUS
    <3>1. CASE j = i /\ d = c /\ windows_'[j].queried.query = queries[c] + 1
      BY <1>1, <1>2, <1>3, <1>11, <3>1 DEF CallInv, i
    <3>2. CASE j # i /\ d # c /\ QueriedBy(j, d) /\ windows_'[j] = windows_[j]
      BY <1>1, <1>9, <1>11, <3>2 DEF QueryInv
    <3>3. QED  BY <1>9, <1>14, <3>1, <3>2
  <2>2. QED  BY <1>9, <1>14, <2>1 DEF QueryInv
<1>16. ReuseInv'
  <2> SUFFICES ASSUME ~shutdown_initiated_, ~Aborted, NEW j \in Ids
               PROVE  /\ IsFree(windows_'[j]) => windows_'[j].queried = NoCallback
                      /\ windows_'[j].title =>
                           \A d \in Clients : QueriedBy(j, d)' => Live(d)'
    BY <1>1, <1>9 DEF ReuseInv, Aborted, loopVars, IsFree, IsEmpty, IsInitialized
  <2>1. CASE j = i
    <3>1. windows_'[i].title
      BY <1>2, <1>7, <1>9 DEF SlotInv, i
    <3>2. QED  BY <1>2, <1>11, <1>14, <2>1, <3>1 DEF IsFree, IsEmpty
  <2>2. CASE j # i
    BY <1>9, <1>11, <1>14, <2>2 DEF ReuseInv
  <2>3. QED  BY <2>1, <2>2
<1>17. LoopInv'
  <2>1. loop = "take" => id \in Ids' /\ windows_'[id].queried # NoCallback
    BY <1>5, <1>7, <1>9 DEF LoopInv
  <2>2. ASSUME loop = "render"
        PROVE  /\ callback.query <= queries'[callback.client]
               /\ \A j \in Ids' : QueriedBy(j, callback.client)' =>
                    callback.query < windows_'[j].queried.query
    <3>1. callback.client \in Clients /\ callback.query \in Nat
      BY <2>2, CallbackNotNull DEF TypeOK
    <3>2. callback.query <= queries[callback.client]
      BY <2>2 DEF LoopInv
    <3>3. \A j \in Ids : QueriedBy(j, callback.client) =>
            callback.query < windows_[j].queried.query
      BY <2>2 DEF LoopInv
    <3>4. queries[callback.client] \in Nat
      BY <3>1, <1>11
    <3>5. callback.query <= queries'[callback.client]
      BY <3>1, <3>2, <3>4, <1>11
    <3>6. ASSUME NEW j \in Ids, QueriedBy(j, callback.client)'
          PROVE  callback.query < windows_'[j].queried.query
      <4>1. PICK d \in Clients : d = callback.client
        BY <3>1
      <4>2. QueriedBy(j, d)'
        BY <1>1, <3>6, <4>1 DEF loopVars, QueriedBy
      <4>3. CASE j = i /\ d = c /\ windows_'[j].queried.query = queries[c] + 1
        BY <3>1, <3>2, <3>4, <4>1, <4>3
      <4>4. CASE j # i /\ d # c /\ QueriedBy(j, d) /\ windows_'[j] = windows_[j]
        BY <3>3, <4>1, <4>4
      <4>5. QED  BY <1>14, <4>2, <4>3, <4>4
    <3>7. QED  BY <1>9, <3>5, <3>6
  <2>3. QED  BY <1>1, <1>9, <2>1, <2>2 DEF LoopInv, QueriedBy, loopVars
<1>18. QED  BY <1>10, <1>12, <1>13, <1>15, <1>16, <1>17

LEMMA CloseLockedInv ==
  ASSUME IInv, NEW c \in Clients, CloseWindow_Locked(c)
  PROVE  IInv'
<1> USE VisualizationAssumption DEF IInv
<1> DEFINE i == window_id[c]
           v == [windows_[i] EXCEPT !.title = FALSE]
<1>1. /\ pc[c] = "close" /\ pc' = [pc EXCEPT ![c] = "gone"]
      /\ windows_[i].canvas
      /\ window_id' = [window_id EXCEPT ![c] = 0]
      /\ windows_' = [windows_ EXCEPT ![i] = v]
      /\ UNCHANGED <<shutdown_initiated_, loopVars, queries, rendered>>
  BY DEF CloseWindow_Locked, Closable, IsInitialized, Goto
<1>2. Live(c) /\ i \in Ids
  BY <1>1 DEF CallInv, Live
<1>3. windows_[i] \in Window /\ windows_ \in Seq(Window)
  BY <1>2, WindowTyped DEF TypeOK
<1>4. /\ v \in Window /\ v.queried = windows_[i].queried
      /\ ~v.title /\ v.canvas
  BY <1>1, <1>3 DEF Window
<1> HIDE DEF v
<1>5. /\ windows_' \in Seq(Window) /\ Ids' = Ids
      /\ Len(windows_') = Len(windows_)
      /\ \A j \in Ids : windows_'[j] = IF j = i THEN v ELSE windows_[j]
  BY <1>1, <1>2, <1>3, <1>4, ReplaceWindow
<1>6. Len(windows_) \in Nat
  BY <1>3
<1> HIDE DEF i
<1>7. TypeOK'
  BY <1>1, <1>5, <1>6 DEF TypeOK, loopVars
<1>8. \A d \in Clients :
        /\ Live(d)' <=> Live(d) /\ d # c
        /\ pc'[d] = IF d = c THEN "gone" ELSE pc[d]
        /\ window_id'[d] = IF d = c THEN 0 ELSE window_id[d]
  BY <1>1 DEF Live, TypeOK
<1>9. CallInv'
  BY <1>1, <1>5, <1>8 DEF CallInv, Live, Aborted, loopVars
<1>10. SlotInv'
  <2>1. \A d \in Clients : Live(d) => window_id[d] \in Ids
    BY DEF CallInv
  <2>2. \A d \in Clients \ {c} :
          Live(d) /\ ~shutdown_initiated_ => window_id[d] # i
    BY <1>2 DEF SlotInv, i
  <2>3. QED  BY <1>1, <1>5, <1>8, <2>1, <2>2 DEF SlotInv
<1>11. \A j \in Ids, d \in Clients : QueriedBy(j, d)' =>
         /\ QueriedBy(j, d)
         /\ windows_'[j].queried = windows_[j].queried
         /\ windows_'[j].title => windows_[j].title /\ j # i
  BY <1>4, <1>5 DEF QueriedBy
<1>12. QueryInv'
  BY <1>1, <1>5, <1>8, <1>11 DEF QueryInv
<1>13. ReuseInv'
  <2> SUFFICES ASSUME ~shutdown_initiated_, ~Aborted, NEW j \in Ids
               PROVE  /\ IsFree(windows_'[j]) => windows_'[j].queried = NoCallback
                      /\ windows_'[j].title =>
                           \A d \in Clients : QueriedBy(j, d)' => Live(d)'
    BY <1>1, <1>5 DEF ReuseInv, Aborted, loopVars, IsFree, IsEmpty, IsInitialized
  <2>1. CASE j = i
    BY <1>4, <1>5, <2>1 DEF IsFree, IsInitialized
  <2>2. CASE j # i
    <3>1. ~QueriedBy(j, c)
      BY <1>2, <2>2 DEF QueryInv, i
    <3>2. QED  BY <1>5, <1>8, <1>11, <2>2, <3>1 DEF ReuseInv
  <2>3. QED  BY <2>1, <2>2
<1>14. LoopInv'
  <2>1. loop = "take" => id \in Ids' /\ windows_'[id].queried # NoCallback
    BY <1>4, <1>5 DEF LoopInv
  <2>2. loop = "render" => callback.client \in Clients
    BY CallbackNotNull DEF TypeOK
  <2>3. QED
    BY <1>1, <1>5, <1>11, <2>1, <2>2 DEF LoopInv, loopVars, QueriedBy
<1>15. QED  BY <1>7, <1>9, <1>10, <1>12, <1>13, <1>14

LEMMA ShutdownInv ==
  ASSUME IInv, Shutdown
  PROVE  IInv'
<1> USE DEF IInv
<1>1. /\ shutdown_initiated_' /\ shutdown_initiated_' \in BOOLEAN
      /\ UNCHANGED <<windows_, loopVars, clientVars, rendered>>
  BY DEF Shutdown
<1>2. TypeOK'
  BY <1>1 DEF TypeOK, loopVars, clientVars
<1>3. CallInv' /\ SlotInv' /\ ReuseInv'
  BY <1>1 DEF CallInv, SlotInv, ReuseInv, Live, Ids, Aborted, loopVars, clientVars
<1>4. QueryInv' /\ LoopInv'
  BY <1>1 DEF QueryInv, LoopInv, QueriedBy, Live, Ids, loopVars, clientVars
<1>5. QED  BY <1>2, <1>3, <1>4

\* An assertion that fails: nothing is claimed of where clients are any more.
LEMMA AbortInv ==
  ASSUME IInv, Abort
  PROVE  IInv'
<1> USE DEF IInv
<1>1. /\ loop' = "aborted" /\ \A c \in Clients : pc'[c] = "aborted"
      /\ pc' = [c \in Clients |-> "aborted"]
      /\ UNCHANGED <<windows_, shutdown_initiated_, timer, quit, id, callback,
                     joined, window_id, queries, rendered>>
  BY DEF Abort
<1>2. TypeOK'
  BY <1>1 DEF TypeOK
<1>3. \A c \in Clients : ~Live(c)'
  BY <1>1 DEF Live
<1>4. CallInv' /\ SlotInv' /\ ReuseInv' /\ LoopInv'
  BY <1>1, <1>3 DEF CallInv, SlotInv, ReuseInv, LoopInv, Aborted
<1>5. QueryInv'
  BY <1>1, <1>3 DEF QueryInv, QueriedBy, Ids
<1>6. QED  BY <1>2, <1>4, <1>5

-----------------------------------------------------------------------------
(* Steps of the rendering thread.                                          *)

\* Those that only read the windows.
LEMMA TimerInv ==
  ASSUME IInv, OnTimeout \/ OnTimeout_Test \/ OnTimeout_Return \/ Destroy
  PROVE  IInv'
<1> USE DEF IInv
<1>1. windows_ \in Seq(Window) /\ Len(windows_) \in Nat
      /\ Ids = 1 .. Len(windows_) /\ id \in 1 .. Len(windows_) + 1
  BY DEF TypeOK, Ids
<1>2. /\ UNCHANGED <<windows_, shutdown_initiated_, callback, clientVars,
                     rendered>>
      /\ timer' \in BOOLEAN /\ quit' \in BOOLEAN /\ joined' \in BOOLEAN
      /\ loop # "aborted"
      /\ loop' \in {"idle", "test", "close", "update", "ended"}
      /\ loop' \in {"test", "close"} => shutdown_initiated_
      /\ id' \in 1 .. Len(windows_) + 1
      /\ loop' = "close" => id' \in Ids
  <2>1. CASE OnTimeout
    BY <1>1, <2>1 DEF OnTimeout, Quits, TypeOK
  <2>2. CASE OnTimeout_Test
    BY <1>1, <2>2 DEF OnTimeout_Test, TypeOK, LoopInv
  <2>3. CASE OnTimeout_Return
    BY <1>1, <2>3 DEF OnTimeout_Return, TypeOK
  <2>4. CASE Destroy
    BY <1>1, <2>4 DEF Destroy, TypeOK
  <2>5. QED  BY <2>1, <2>2, <2>3, <2>4
<1>3. TypeOK'
  BY <1>2 DEF TypeOK, clientVars
<1>4. CallInv' /\ SlotInv'
  BY <1>2 DEF CallInv, SlotInv, Live, Ids, Aborted, clientVars
<1>5. QueryInv' /\ ReuseInv'
  BY <1>2 DEF QueryInv, ReuseInv, QueriedBy, Live, Ids, Aborted, IsFree, IsEmpty,
              IsInitialized, clientVars
<1>6. LoopInv'
  BY <1>2 DEF LoopInv, Ids
<1>7. QED  BY <1>3, <1>4, <1>5, <1>6

\* What the timer and draw events do to a window keeps what clients rely on.
LEMMA WindowInv ==
  ASSUME IInv, NEW i \in Ids, NEW v \in Window,
         windows_' = [windows_ EXCEPT ![i] = v],
         UNCHANGED <<shutdown_initiated_, clientVars, rendered>>,
         loop # "aborted", loop' # "aborted",
         v.title = windows_[i].title \/ shutdown_initiated_,
         v.queried \in {windows_[i].queried, NoCallback},
         IsFree(v) => v.queried = NoCallback \/ shutdown_initiated_
  PROVE  /\ windows_' \in Seq(Window) /\ Len(windows_') = Len(windows_)
         /\ Ids' = Ids /\ windows_'[i] = v
         /\ CallInv' /\ SlotInv' /\ QueryInv' /\ ReuseInv'
         /\ \A j \in Ids, c \in Clients : QueriedBy(j, c)' =>
              QueriedBy(j, c) /\ windows_'[j].queried = windows_[j].queried
<1> USE DEF IInv
<1>1. windows_ \in Seq(Window)
  BY DEF TypeOK
<1>2. /\ windows_' \in Seq(Window) /\ Ids' = Ids
      /\ Len(windows_') = Len(windows_)
      /\ \A j \in Ids : windows_'[j] = IF j = i THEN v ELSE windows_[j]
  BY <1>1, ReplaceWindow
<1>3. \A c \in Clients : Live(c)' <=> Live(c)
  BY DEF Live, clientVars
<1>4. CallInv'
  BY <1>2, <1>3 DEF CallInv, Aborted, clientVars
<1>5. SlotInv'
  <2>1. \A c \in Clients : Live(c) => window_id[c] \in Ids
    BY DEF CallInv
  <2>2. QED  BY <1>2, <1>3, <2>1 DEF SlotInv, clientVars
<1>6. \A j \in Ids, c \in Clients : QueriedBy(j, c)' =>
        QueriedBy(j, c) /\ windows_'[j].queried = windows_[j].queried
  BY <1>2 DEF QueriedBy
<1>7. QueryInv'
  BY <1>2, <1>3, <1>6 DEF QueryInv, clientVars
<1>8. ReuseInv'
  <2> SUFFICES ASSUME ~shutdown_initiated_, NEW j \in Ids
               PROVE  /\ IsFree(windows_'[j]) => windows_'[j].queried = NoCallback
                      /\ windows_'[j].title =>
                           \A c \in Clients : QueriedBy(j, c)' => Live(c)'
    BY <1>2 DEF ReuseInv, IsFree, IsEmpty, IsInitialized
  <2>1. windows_[j].title = windows_'[j].title
    BY <1>2
  <2>2. IsFree(windows_'[j]) => windows_'[j].queried = NoCallback
    BY <1>2 DEF ReuseInv, Aborted
  <2>3. QED  BY <1>3, <1>6, <2>1, <2>2 DEF ReuseInv, Aborted
<1>9. QED  BY <1>2, <1>4, <1>5, <1>6, <1>7, <1>8

LEMMA CloseInv ==
  ASSUME IInv, OnTimeout_Close
  PROVE  IInv'
<1> USE DEF IInv
<1> DEFINE v == [windows_[id] EXCEPT !.title = FALSE]
<1>1. /\ loop = "close" /\ loop' = "test" /\ id' = id + 1
      /\ windows_' = [windows_ EXCEPT ![id] = v]
      /\ UNCHANGED <<shutdown_initiated_, timer, quit, callback, joined,
                     clientVars, rendered>>
  BY DEF OnTimeout_Close
<1>2. id \in Ids /\ shutdown_initiated_
  BY <1>1 DEF LoopInv
<1>3. v \in Window /\ v.queried = windows_[id].queried
  <2>1. windows_[id] \in Window
    BY <1>2, WindowTyped
  <2>2. QED  BY <2>1 DEF Window
<1> HIDE DEF v
<1>4. /\ windows_' \in Seq(Window) /\ Len(windows_') = Len(windows_)
      /\ CallInv' /\ SlotInv' /\ QueryInv' /\ ReuseInv'
  BY <1>1, <1>2, <1>3, WindowInv
<1>5. id + 1 \in 1 .. Len(windows_) + 1
  BY <1>2 DEF Ids, TypeOK
<1>6. TypeOK'
  BY <1>1, <1>4, <1>5 DEF TypeOK, clientVars
<1>7. LoopInv'
  BY <1>1, <1>2 DEF LoopInv
<1>8. QED  BY <1>4, <1>6, <1>7

LEMMA UpdateInv ==
  ASSUME IInv, OnTimeout_Update
  PROVE  IInv'
<1> USE DEF IInv
<1> DEFINE w == windows_[id]
           v == Redrawn(Opened(Closed(w)))
<1>1. /\ loop = "update" /\ id <= Len(windows_) /\ id' = id + 1
      /\ windows_' = [windows_ EXCEPT ![id] = v]
      /\ UNCHANGED <<shutdown_initiated_, timer, quit, loop, callback, joined,
                     clientVars, rendered>>
  BY DEF OnTimeout_Update
<1>2. id \in Ids /\ id + 1 \in 1 .. Len(windows_) + 1
  BY <1>1 DEF TypeOK, Ids
<1>3. w \in Window
        /\ (IsFree(w) => w.queried = NoCallback \/ shutdown_initiated_)
  BY <1>1, <1>2, WindowTyped DEF ReuseInv, Aborted
<1>4. /\ v \in Window /\ v.title = w.title
      /\ v.queried \in {w.queried, NoCallback}
      /\ IsFree(v) => v.queried = NoCallback \/ shutdown_initiated_
  <2> DEFINE x == Closed(w)
             y == Opened(x)
  <2>1. /\ x \in Window /\ x.title = w.title
        /\ x.canvas <=> (w.canvas /\ w.title)
        /\ x.queried \in {w.queried, NoCallback}
        /\ ~x.title => x.queried = NoCallback \/ shutdown_initiated_
    BY <1>3 DEF Closed, EmptyWindow, Window, IsEmpty, IsInitialized, IsFree
  <2> HIDE DEF x
  <2>2. /\ y \in Window /\ y.title = x.title
        /\ y.canvas <=> (x.canvas \/ x.title)
        /\ y.queried = x.queried
    BY <2>1 DEF Opened, Window, IsEmpty
  <2> HIDE DEF y
  <2>3. /\ v \in Window /\ v.title = y.title /\ v.canvas = y.canvas
        /\ v.queried = y.queried
    <3>1. v = [y EXCEPT !.redraw = y.redraw \/ WantsRedraw(y)]
      BY DEF Redrawn, y, x
    <3>2. (y.redraw \/ WantsRedraw(y)) \in BOOLEAN
      OBVIOUS
    <3>3. QED  BY <2>2, <3>1, <3>2 DEF Window
  <2>4. QED  BY <2>1, <2>2, <2>3 DEF IsFree, IsEmpty
<1> HIDE DEF v
<1>5. /\ windows_' \in Seq(Window) /\ Len(windows_') = Len(windows_)
      /\ CallInv' /\ SlotInv' /\ QueryInv' /\ ReuseInv'
  BY <1>1, <1>2, <1>4, WindowInv
<1>6. TypeOK'
  BY <1>1, <1>2, <1>5 DEF TypeOK, clientVars
<1>7. LoopInv'
  BY <1>1 DEF LoopInv
<1>8. QED  BY <1>5, <1>6, <1>7

LEMMA DrawInv ==
  ASSUME IInv, NEW i \in Ids, OnDraw(i)
  PROVE  IInv'
<1> USE DEF IInv
<1> DEFINE v == [windows_[i] EXCEPT !.redraw = FALSE]
<1>1. /\ loop = "idle"
      /\ windows_' = [windows_ EXCEPT ![i] = v]
      /\ \/ loop' = "take" /\ id' = i /\ windows_[i].queried # NoCallback
         \/ UNCHANGED <<loop, id>>
      /\ UNCHANGED <<shutdown_initiated_, timer, quit, callback, joined,
                     clientVars, rendered>>
  BY DEF OnDraw, MayRender
<1>2. windows_[i] \in Window /\ IsInitialized(windows_[i])
  BY WindowTyped DEF OnDraw
<1>3. /\ v \in Window /\ v.title = windows_[i].title
      /\ v.canvas = windows_[i].canvas /\ v.queried = windows_[i].queried
  BY <1>2 DEF Window
<1> HIDE DEF v
<1>4. ~IsFree(v)
  BY <1>2, <1>3 DEF IsFree, IsInitialized
<1>5. /\ windows_' \in Seq(Window) /\ Len(windows_') = Len(windows_)
      /\ Ids' = Ids /\ windows_'[i] = v
      /\ CallInv' /\ SlotInv' /\ QueryInv' /\ ReuseInv'
  BY <1>1, <1>3, <1>4, WindowInv
<1>6. id' \in 1 .. Len(windows_') + 1
  BY <1>1, <1>5 DEF TypeOK, Ids
<1>7. TypeOK'
  BY <1>1, <1>5, <1>6 DEF TypeOK, clientVars
<1>8. LoopInv'
  BY <1>1, <1>3, <1>5 DEF LoopInv
<1>9. QED  BY <1>5, <1>7, <1>8

\* The callback taken is the only one of its client that waited.
LEMMA TakeInv ==
  ASSUME IInv, OnDraw_Take
  PROVE  IInv'
<1> USE DEF IInv
<1> DEFINE v == [windows_[id] EXCEPT !.queried = NoCallback]
<1>1. /\ loop = "take" /\ loop' = "render"
      /\ callback' = windows_[id].queried
      /\ windows_' = [windows_ EXCEPT ![id] = v]
      /\ UNCHANGED <<shutdown_initiated_, timer, quit, id, joined, clientVars,
                     rendered>>
  BY DEF OnDraw_Take, Taken
<1>2. id \in Ids /\ windows_[id].queried # NoCallback
  BY <1>1 DEF LoopInv
<1>3. windows_[id] \in Window /\ callback' \in Callbacks
  BY <1>1, <1>2, WindowTyped
<1>4. /\ v \in Window /\ v.title = windows_[id].title
      /\ v.canvas = windows_[id].canvas /\ v.queried = NoCallback
  BY <1>3 DEF Window
<1> HIDE DEF v
<1>5. /\ windows_' \in Seq(Window) /\ Len(windows_') = Len(windows_)
      /\ Ids' = Ids /\ windows_'[id] = v
      /\ CallInv' /\ SlotInv' /\ QueryInv' /\ ReuseInv'
      /\ \A j \in Ids, c \in Clients : QueriedBy(j, c)' =>
           QueriedBy(j, c) /\ windows_'[j].queried = windows_[j].queried
  BY <1>1, <1>2, <1>4, WindowInv
<1>6. TypeOK'
  BY <1>1, <1>3, <1>5, CallbackNotNull DEF TypeOK, clientVars
<1>7. LoopInv'
  <2>1. PICK c \in Clients : c = callback'.client
    BY <1>3, CallbackNotNull
  <2>2. QueriedBy(id, c)
    BY <1>1, <1>2, <2>1 DEF QueriedBy
  <2>3. rendered[c] < callback'.query /\ callback'.query <= queries[c]
    BY <1>1, <1>2, <2>2 DEF QueryInv
  <2>4. ~QueriedBy(id, c)'
    BY <1>1, <1>4, <1>5 DEF QueriedBy
  <2>5. \A j \in Ids' : ~QueriedBy(j, c)'
    <3> SUFFICES ASSUME NEW j \in Ids, QueriedBy(j, c)' PROVE FALSE
      BY <1>5
    <3>1. QueriedBy(j, c)
      BY <1>5
    <3>2. j = id
      BY <1>2, <2>2, <3>1 DEF QueryInv
    <3>3. QED  BY <1>1, <2>4, <3>2 DEF QueriedBy
  <2>6. \A j \in Ids' : ~QueriedBy(j, callback.client)'
    BY <2>1, <2>5 DEF QueriedBy
  <2>7. QED  BY <1>1, <2>1, <2>3, <2>6 DEF LoopInv, clientVars
<1>8. QED  BY <1>5, <1>6, <1>7

LEMMA RenderInv ==
  ASSUME IInv, OnDraw_Render
  PROVE  IInv'
<1> USE DEF IInv
<1> DEFINE c == callback.client
<1>1. /\ loop = "render" /\ loop' = "idle" /\ callback' = NoCallback
      /\ rendered' = [rendered EXCEPT ![c] = callback.query]
      /\ UNCHANGED <<windows_, shutdown_initiated_, timer, quit, id, joined,
                     clientVars>>
  BY DEF OnDraw_Render
<1>2. c \in Clients /\ callback.query \in 1 .. MaxQueries
  BY <1>1, CallbackNotNull DEF TypeOK
<1>3. /\ callback.query <= queries[c]
      /\ \A i \in Ids : QueriedBy(i, c) =>
           callback.query < windows_[i].queried.query
  BY <1>1 DEF LoopInv
<1>4. \A d \in Clients :
        rendered'[d] = IF d = c THEN callback.query ELSE rendered[d]
  BY <1>1, <1>2 DEF TypeOK
<1>5. rendered' \in [Clients -> 0 .. MaxQueries]
  <2>1. callback.query \in 0 .. MaxQueries
    BY <1>2, VisualizationAssumption
  <2>2. QED  BY <1>1, <2>1 DEF TypeOK
<1> HIDE DEF c
<1>6. TypeOK'
  BY <1>1, <1>5 DEF TypeOK, clientVars
<1>7. CallInv' /\ SlotInv' /\ ReuseInv'
  BY <1>1, <1>3, <1>4 DEF CallInv, SlotInv, ReuseInv, QueriedBy, Live, Ids,
                          Aborted, IsFree, IsEmpty, IsInitialized, clientVars
<1>8. QueryInv'
  <2>1. \A i \in Ids, d \in Clients : QueriedBy(i, d)' <=> QueriedBy(i, d)
    BY <1>1 DEF QueriedBy
  <2>2. QED
    BY <1>1, <1>2, <1>3, <1>4, <2>1 DEF QueryInv, Live, Ids, clientVars
<1>9. LoopInv'
  BY <1>1 DEF LoopInv
<1>10. QED  BY <1>6, <1>7, <1>8, <1>9

-----------------------------------------------------------------------------

LEMMA Invariance == Spec => []IInv
<1>1. IInv /\ [Next]_vars => IInv'
  <2> SUFFICES ASSUME IInv, [Next]_vars PROVE IInv'
    OBVIOUS
  <2>1. ASSUME NEW c \in Clients, Call(c) PROVE IInv'
    BY <2>1, OpenWindowInv, MoveInv DEF Call
  <2>2. ASSUME NEW c \in Clients, Proceed(c) PROVE IInv'
    BY <2>2, MoveInv, QuerySetInv, CloseLockedInv DEF Proceed
  <2>3. CASE Shutdown
    BY <2>3, ShutdownInv
  <2>4. CASE OnTimeout \/ Destroy
    BY <2>4, TimerInv
  <2>5. ASSUME NEW i \in DOMAIN windows_, OnDraw(i) PROVE IInv'
    BY <2>5, DrawInv DEF Ids
  <2>6. CASE Handle
    BY <2>6, TimerInv, CloseInv, UpdateInv, TakeInv, RenderInv DEF Handle
  <2>7. CASE Abort
    BY <2>7, AbortInv
  <2>8. CASE UNCHANGED vars
    BY <2>8 DEF vars, loopVars, clientVars, IInv, TypeOK, CallInv, SlotInv,
                QueryInv, ReuseInv, LoopInv, QueriedBy, Live, Ids, Aborted,
                IsFree, IsEmpty, IsInitialized
  <2>9. QED  BY <2>1, <2>2, <2>3, <2>4, <2>5, <2>6, <2>7, <2>8 DEF Next
<1>2. QED  BY InitInv, <1>1, PTL DEF Spec

\* The variables keep their types; a callback that is called is not null.
THEOREM TypeCorrect == Spec => []TypeOK
<1>1. IInv => TypeOK
  BY DEF IInv
<1>2. QED  BY <1>1, Invariance, PTL

\* Until shutdown each client's id denotes an open window of its own, whatever
\* calls are under way (Visualization.cpp:50-78).
THEOREM NoWindowShared == Spec => []WindowsApart
<1>1. IInv => WindowsApart
  <2> SUFFICES ASSUME IInv, ~shutdown_initiated_,
                      NEW c \in Clients, Live(c)
               PROVE  /\ windows_[window_id[c]].title
                      /\ \A d \in Clients \ {c} : window_id[d] # window_id[c]
    BY DEF WindowsApart, IsEmpty
  <2> USE DEF IInv
  <2>1. windows_[window_id[c]].title
    BY DEF SlotInv
  <2>2. ASSUME NEW d \in Clients \ {c} PROVE window_id[d] # window_id[c]
    <3>1. CASE Live(d)
      BY <3>1 DEF SlotInv
    <3>2. CASE ~Live(d)
      <4>1. pc[d] # "aborted"
        BY DEF CallInv, Live
      <4>2. pc[d] \in {"new", "gone"}
        BY <3>2, <4>1 DEF Live, TypeOK
      <4>3. window_id[d] = 0 /\ window_id[c] \in 1 .. Len(windows_)
        BY <4>2 DEF CallInv, Ids, TypeOK
      <4>4. QED  BY <4>3
    <3>3. QED  BY <3>1, <3>2
  <2>3. QED  BY <2>1, <2>2
<1>2. QED  BY <1>1, Invariance, PTL

\* Until shutdown a reused window never draws what was queried for its
\* predecessor (Visualization.cpp:50-67, 105-112).
THEOREM DrawingsOwned == Spec => []OwnDrawings
<1>1. IInv => OwnDrawings
  <2> SUFFICES ASSUME IInv, ~shutdown_initiated_, ~Aborted, NEW i \in Ids,
                      windows_[i].title, windows_[i].queried # NoCallback
               PROVE  /\ Live(windows_[i].queried.client)
                      /\ window_id[windows_[i].queried.client] = i
    BY DEF OwnDrawings, Ids, IsEmpty
  <2>1. windows_[i].queried.client \in Clients
    BY WindowTyped, CallbackNotNull DEF IInv
  <2>2. QED  BY <2>1 DEF IInv, QueryInv, ReuseInv, QueriedBy
<1>2. QED  BY <1>1, Invariance, PTL

\* No query is rendered twice, or after a later one of its client
\* (Visualization.cpp:80-88, 114-126).
THEOREM RenderedOnce == Spec => []RendersOnce
<1>1. IInv => RendersOnce
  <2> SUFFICES ASSUME IInv, loop = "render"
               PROVE  callback.query > rendered[callback.client]
    BY DEF RendersOnce
  <2>1. callback.client \in Clients /\ callback.query \in 1 .. MaxQueries
    BY CallbackNotNull DEF IInv, TypeOK
  <2>2. rendered[callback.client] \in 0 .. MaxQueries
    BY <2>1 DEF IInv, TypeOK
  <2>3. QED  BY <2>1, <2>2 DEF IInv, LoopInv
<1>2. QED  BY <1>1, Invariance, PTL
=============================================================================
