--------------------------- MODULE StationProofs ---------------------------
(***************************************************************************)
(* Theorems about Station, for any games, categories and session lengths.  *)
(***************************************************************************)
EXTENDS Station, TLAPS

-----------------------------------------------------------------------------
(* Types. *)

LEMMA NoCallType == NoCall \in Calls
BY TimeAssumption DEF NoCall, Calls, Ops

\* Each of the three ways in which a thread moves on keeps the variables they
\* change typed.
LEMMA GoType ==
  ASSUME TypeOK, NEW t, NEW from, NEW to \in Labels, Go(t, from, to)
  PROVE  /\ up' \in BOOLEAN /\ overlapped' \in BOOLEAN
         /\ at' \in [Threads -> Labels]
         /\ call' \in [Threads -> Calls]
BY DEF TypeOK, Go

LEMMA ReturnType ==
  ASSUME TypeOK, NEW t, NEW from, Return(t, from)
  PROVE  /\ up' \in BOOLEAN /\ overlapped' \in BOOLEAN
         /\ at' \in [Threads -> Labels]
         /\ call' \in [Threads -> Calls]
BY NoCallType DEF TypeOK, Return, Labels

LEMMA BeginType ==
  ASSUME TypeOK, NEW t, NEW c \in Calls, NEW to \in Labels, Begin(t, c, to)
  PROVE  /\ up' \in BOOLEAN /\ overlapped' \in BOOLEAN
         /\ at' \in [Threads -> Labels]
         /\ call' \in [Threads -> Calls]
BY DEF TypeOK, Begin

\* The list shown is one of the lists of the categories.
LEMMA GamesOfType ==
  ASSUME NEW c \in 0..Len(Categories)
  PROVE  GamesOf(c) \in Seq(Games)
BY GameAssumption DEF GamesOf

LEMMA ListedType ==
  ASSUME TypeOK, NEW i \in 1..Len(list)
  PROVE  list[i] \in Games
BY DEF TypeOK

LEMMA FirstCategoryType == FirstCategory \in 0..Len(Categories)
BY GameAssumption DEF FirstCategory

\* Moving up or down a list that is not empty selects one of its games.
LEMMA MovedType ==
  ASSUME TypeOK, list # <<>>, NEW op
  PROVE  Moved(op) \in 1..Len(list)
<1>1. Len(list) \in Nat \ {0} /\ selected \in Nat
  BY DEF TypeOK
<1> QED BY <1>1 DEF Moved

LEMMA SessionStepType ==
  ASSUME TypeOK, NEW t \in Threads, SessionStep(t)
  PROVE  TypeOK'
<1>1. CASE ForgetGame(t)
  BY <1>1, GoType DEF TypeOK, ForgetGame, Labels, session, ReleaseHeader
<1>2. CASE ToFirstCategory(t)
  BY <1>2, GoType, FirstCategoryType DEF TypeOK, ToFirstCategory, Labels, session
<1>3. CASE SetEnd(t)
  <2>1. call[t].length \in Times
    BY TimeAssumption DEF TypeOK, Calls, Times
  <2> QED BY <1>3, <2>1, GoType DEF TypeOK, SetEnd, Labels, menu
<1>4. CASE ReadSum(t)
  <2> DEFINE sum == IF endTime = LongPast THEN LongPast ELSE endTime + 1
  <2>1. sum \in Times
    BY DEF TypeOK, Times, LongPast
  <2>2. seen' = [seen EXCEPT ![t] = sum]
    BY <1>4 DEF ReadSum
  <2>3. seen' \in [Threads -> Times]
    BY <2>1, <2>2 DEF TypeOK
  <2> QED BY <1>4, <2>3, GoType DEF TypeOK, ReadSum, Labels, session, menu
<1>5. CASE WriteSum(t)
  BY <1>5, GoType DEF TypeOK, WriteSum, Labels, menu
<1>6. CASE ReadEnd(t)
  BY <1>6, GoType DEF TypeOK, ReadEnd, Labels, session, menu
<1>7. CASE SaveEnd(t)
  <2>1. seen' \in [Threads -> Times] /\ ini' \in Times
    BY <1>7 DEF TypeOK, SaveEnd, Times
  <2> QED BY <1>7, <2>1, GoType DEF TypeOK, SaveEnd, Labels, menu
<1>8. CASE StartTimer(t)
  BY <1>8, GoType DEF TypeOK, StartTimer, Labels, menu
<1>9. CASE StopTimer(t)
  BY <1>9, GoType DEF TypeOK, StopTimer, Labels, menu
<1>10. CASE NotRunning(t)
  BY <1>10, GoType DEF TypeOK, NotRunning, Labels, menu
<1>11. CASE ForgetEnd(t)
  BY <1>11, GoType DEF TypeOK, ForgetEnd, Labels, menu, Times
<1>12. CASE ForgetSaved(t)
  BY <1>12, GoType DEF TypeOK, ForgetSaved, Labels, menu, Times
<1>13. CASE ShowTime(t)
  BY <1>13, ReturnType DEF TypeOK, ShowTime, session, menu
<1> QED
  BY <1>1, <1>2, <1>3, <1>4, <1>5, <1>6, <1>7, <1>8, <1>9, <1>10, <1>11, <1>12,
     <1>13 DEF SessionStep

\* Showing a list and selecting its first game, on either thread.
LEMMA ListStepType ==
  ASSUME TypeOK, NEW t \in Threads, ShowList(t) \/ LockList(t) \/ SelectFirst(t)
  PROVE  TypeOK'
<1>1. CASE ShowList(t)
  BY <1>1, GoType, GamesOfType DEF TypeOK, ShowList, Labels, session, ReleaseHeader
<1>2. CASE LockList(t)
  BY <1>2, GoType DEF TypeOK, LockList, Labels, session, menu
<1>3. CASE SelectFirst(t)
  <2>1. /\ up' \in BOOLEAN /\ overlapped' \in BOOLEAN
        /\ at' \in [Threads -> Labels]
        /\ call' \in [Threads -> Calls]
    BY <1>3, GoType, ReturnType DEF SelectFirst, Labels
  <2>2. holder' \in [Mutexes -> Threads \cup {Nobody}]
    BY <1>3 DEF TypeOK, SelectFirst
  <2>3. UNCHANGED <<session, seen, category, list>>
    BY <1>3 DEF SelectFirst
  <2>4. /\ selected' \in Nat /\ loading' \in BOOLEAN
        /\ header' \in Games \cup {NoGame} /\ fetching' \subseteq Games
    <3>1. CASE list # <<>>
      <4>1. list[1] \in Games
        BY <3>1 DEF TypeOK
      <4>2. /\ selected' = 1 /\ loading' = TRUE /\ header' = NoGame
            /\ fetching' = fetching \cup {list[1]}
        BY <1>3, <3>1 DEF SelectFirst, ReleaseHeader, Fetch
      <4> QED BY <4>1, <4>2 DEF TypeOK
    <3>2. CASE list = <<>>
      <4>1. /\ selected' = 0 /\ loading' = FALSE /\ header' \in {header, NoGame}
            /\ fetching' = fetching
        BY <1>3, <3>2 DEF SelectFirst
      <4> QED BY <4>1 DEF TypeOK
    <3> QED BY <3>1, <3>2
  <2> QED BY <2>1, <2>2, <2>3, <2>4 DEF TypeOK, session
<1> QED BY <1>1, <1>2, <1>3

\* A click is on a game of the list.
GameClicked == at["ui"] = "select clicked" => call["ui"].game \in Games

LEMMA MenuStepType ==
  ASSUME TypeOK, GameClicked, MenuStep
  PROVE  TypeOK'
<1> DEFINE Mutexed == holder' \in [Mutexes -> Threads \cup {Nobody}]
<1>1. CASE LockOverlay
  BY <1>1, GoType DEF TypeOK, LockOverlay, Labels, Threads, session, menu
<1>2. CASE IgnoreData
  BY <1>2, ReturnType DEF TypeOK, IgnoreData, session, menu
<1>3. CASE Move
  <2>1. Mutexed
    BY <1>3 DEF TypeOK, Move, Unlock
  <2>2. CASE list # <<>>
    <3>1. selected' \in 1..Len(list)
      BY <1>3, <2>2, MovedType DEF Move
    <3>2. list[selected'] \in Games /\ selected' \in Nat
      BY <3>1 DEF TypeOK
    <3> QED
      BY <1>3, <2>1, <2>2, <3>2, ReturnType
      DEF TypeOK, Move, session, ReleaseHeader, Fetch
  <2>3. CASE list = <<>>
    BY <1>3, <2>1, <2>3, ReturnType DEF TypeOK, Move, session
  <2> QED BY <2>2, <2>3
<1>4. CASE Launch
  BY <1>4, ReturnType DEF TypeOK, Launch, Unlock, session, menu
<1>5. CASE CheckSelected
  <2>1. /\ up' \in BOOLEAN /\ overlapped' \in BOOLEAN
        /\ at' \in [Threads -> Labels]
        /\ call' \in [Threads -> Calls]
    BY <1>5, GoType, ReturnType DEF CheckSelected, Labels
  <2>2. Mutexed
    BY <1>5 DEF TypeOK, CheckSelected, Unlock
  <2> QED BY <1>5, <2>1, <2>2 DEF TypeOK, CheckSelected, session, menu
<1>6. CASE ShowImage
  <2>1. call["ui"].game \in Games \cup {NoGame}
    BY DEF TypeOK, Threads, Calls
  <2> QED BY <1>6, <2>1, ReturnType DEF TypeOK, ShowImage, Unlock, session
<1>7. CASE SelectClicked
  <2>1. call["ui"].index \in Nat
    BY DEF TypeOK, Threads, Calls
  <2>2. CASE UNCHANGED fetching
    BY <1>7, <2>1, <2>2, ReturnType DEF TypeOK, SelectClicked, session, ReleaseHeader
  <2>3. CASE Fetch(call["ui"].game)
    <3>1. call["ui"].game \in Games
      BY <1>7 DEF GameClicked, SelectClicked, Return
    <3>2. selected' \in Nat /\ loading' \in BOOLEAN /\ header' \in Games \cup {NoGame}
      BY <1>7, <2>1 DEF TypeOK, SelectClicked, ReleaseHeader
    <3> QED
      BY <1>7, <2>3, <3>1, <3>2, ReturnType DEF TypeOK, SelectClicked, session, Fetch
  <2> QED BY <1>7, <2>2, <2>3 DEF SelectClicked
<1> QED BY <1>1, <1>2, <1>3, <1>4, <1>5, <1>6, <1>7 DEF MenuStep

LEMMA BeginningType ==
  ASSUME TypeOK, NEW t \in Threads, Receives(t) \/ Happens
  PROVE  TypeOK'
<1>1. ASSUME NEW n \in Lengths, Start(t, n)
      PROVE  TypeOK'
  <2>1. [NoCall EXCEPT !.op = "start", !.length = n] \in Calls
    <3>1. n \in 0..MaxLeft /\ "start" \in Ops
      BY TimeAssumption DEF Ops
    <3> QED BY <3>1, NoCallType DEF Calls
  <2> QED BY <1>1, <2>1, BeginType DEF TypeOK, Start, Labels, menu
<1>2. CASE Stop(t) \/ Add(t) \/ TimerTick
  <2>1. /\ [NoCall EXCEPT !.op = "stop"] \in Calls
        /\ [NoCall EXCEPT !.op = "add"] \in Calls
    BY NoCallType DEF Calls, Ops
  <2> QED
    BY <1>2, <2>1, BeginType DEF TypeOK, Stop, Add, TimerTick, Labels, session, menu
<1>3. CASE Browse
  <2>1. [NoCall EXCEPT !.op = "category"] \in Calls
    BY NoCallType DEF Calls, Ops
  <2>2. category' \in 0..Len(Categories)
    <3>1. Len(Categories) \in Nat
      BY GameAssumption
    <3>2. category' \in 1..Len(Categories)
      BY <1>3 DEF Browse
    <3> QED BY <3>1, <3>2
  <2> QED BY <1>3, <2>1, <2>2, BeginType DEF TypeOK, Browse, Labels, session
<1>4. CASE Step
  <2>1. \A o \in {"up", "down", "launch"} : [NoCall EXCEPT !.op = o] \in Calls
    BY NoCallType DEF Calls, Ops
  <2>2. PICK o \in {"up", "down", "launch"} :
               Begin("ui", [NoCall EXCEPT !.op = o], "lock overlay")
    BY <1>4 DEF Step
  <2> QED BY <1>4, <2>1, <2>2, BeginType DEF TypeOK, Step, Labels, session, menu
<1>5. CASE Click
  <2>1. PICK i \in 1..Len(list) :
               Begin("ui", [NoCall EXCEPT !.op = "click", !.game = list[i], !.index = i],
                     "select clicked")
    BY <1>5 DEF Click
  <2>2. list[i] \in Games /\ i \in Nat
    BY ListedType
  <2>3. [NoCall EXCEPT !.op = "click", !.game = list[i], !.index = i] \in Calls
    BY <2>2, NoCallType DEF Calls, Ops
  <2> QED BY <1>5, <2>1, <2>3, BeginType DEF TypeOK, Click, Labels, session, menu
<1>6. CASE Close \/ CloseUnconnected
  <2>1. [NoCall EXCEPT !.op = "close"] \in Calls
    BY NoCallType DEF Calls, Ops
  <2> QED
    BY <1>6, <2>1, BeginType DEF TypeOK, Close, CloseUnconnected, Labels, session, menu
<1>7. ASSUME NEW game \in Games, DataReady(game)
      PROVE  TypeOK'
  <2>1. [NoCall EXCEPT !.op = "ready", !.game = game] \in Calls
    BY NoCallType DEF Calls, Ops
  <2> QED BY <1>7, <2>1, BeginType DEF TypeOK, DataReady, Labels, session
<1> QED BY <1>1, <1>2, <1>3, <1>4, <1>5, <1>6, <1>7 DEF Receives, Happens

\* The values of a process that is not there.
LEMMA DownValues ==
  /\ [t \in Threads |-> "idle"] \in [Threads -> Labels]
  /\ [t \in Threads |-> NoCall] \in [Threads -> Calls]
  /\ [t \in Threads |-> LongPast] \in [Threads -> Times]
  /\ [m \in Mutexes |-> Nobody] \in [Mutexes -> Threads \cup {Nobody}]
  /\ 0 \in 0..Len(Categories)
  /\ <<>> \in Seq(Games)
<1>1. "idle" \in Labels
  BY DEF Labels
<1>2. 0 \in 0..Len(Categories)
  BY GameAssumption
<1> QED BY <1>1, <1>2, NoCallType DEF Times

LEMMA DownType ==
  ASSUME TypeOK, Down
  PROVE  TypeOK'
BY DownValues DEF TypeOK, Down, Times

LEMMA RestartType ==
  ASSUME TypeOK, Restart
  PROVE  TypeOK'
<1>1. category' \in 0..Len(Categories) /\ list' \in Seq(Games)
  BY FirstCategoryType, GamesOfType DEF Restart
<1>2. running' \in BOOLEAN /\ endTime' \in Times /\ timer' \in BOOLEAN /\ ini' \in Times
  BY DEF TypeOK, Restart, Times
<1> QED BY <1>1, <1>2 DEF TypeOK, Restart

LEMMA TimeType ==
  ASSUME TypeOK, TimePasses
  PROVE  TypeOK'
<1>1. \A time \in Times : Passed(time) \in Times
  BY DEF Times, Passed, LongPast
<1> QED BY <1>1 DEF TypeOK, TimePasses, menu

\* What both kinds of steps of a thread leave of the thread that is at a click.
LEMMA GameClickedStep ==
  ASSUME TypeOK, GameClicked, [Next]_vars
  PROVE  GameClicked'
<1> USE DEF GameClicked, Go, Return, Begin, Threads
<1>1. ASSUME NEW t \in Threads, SessionStep(t)
      PROVE  GameClicked'
  BY <1>1 DEF TypeOK, SessionStep, ForgetGame, ToFirstCategory, SetEnd, ReadSum, WriteSum,
     ReadEnd, SaveEnd, StartTimer, StopTimer, NotRunning, ForgetEnd, ForgetSaved, ShowTime
<1>2. ASSUME NEW t \in Threads, ShowList(t) \/ LockList(t) \/ SelectFirst(t)
      PROVE  GameClicked'
  BY <1>2 DEF TypeOK, ShowList, LockList, SelectFirst
<1>3. CASE MenuStep \/ Disconnect
  BY <1>3 DEF TypeOK, MenuStep, LockOverlay, IgnoreData, Move, Launch, CheckSelected,
     ShowImage, SelectClicked, Disconnect
<1>4. ASSUME NEW t \in Threads, Receives(t)
      PROVE  GameClicked'
  BY <1>4 DEF TypeOK, Receives, Start, Stop, Add
<1>5. CASE Click
  <2>1. PICK i \in 1..Len(list) :
               Begin("ui", [NoCall EXCEPT !.op = "click", !.game = list[i], !.index = i],
                     "select clicked")
    BY <1>5 DEF Click
  <2>2. list[i] \in Games
    BY ListedType
  <2> DEFINE c == [NoCall EXCEPT !.op = "click", !.game = list[i], !.index = i]
  <2>3. call' = [call EXCEPT !["ui"] = c]
    BY <2>1
  <2>4. c.game = list[i]
    BY DEF NoCall
  <2>5. call'["ui"] = c
    <3> HIDE DEF c
    <3> QED BY <2>3 DEF TypeOK
  <2> QED BY <2>2, <2>4, <2>5
<1>6. CASE TimerTick \/ Browse \/ Step \/ Close \/ CloseUnconnected
  BY <1>6 DEF TypeOK, TimerTick, Browse, Step, Close, CloseUnconnected
<1>7. ASSUME NEW game \in Games, DataReady(game)
      PROVE  GameClicked'
  BY <1>7 DEF TypeOK, DataReady
<1>8. CASE Down \/ Restart \/ TimePasses \/ UNCHANGED vars
  BY <1>8 DEF Down, Restart, TimePasses, vars
<1> QED
  BY <1>1, <1>2, <1>3, <1>4, <1>5, <1>6, <1>7, <1>8
  DEF Next, GoesOn, Happens, Exit, Crash

LEMMA TypeStep ==
  ASSUME TypeOK, GameClicked, [Next]_vars
  PROVE  TypeOK'
<1>1. CASE UNCHANGED vars
  BY <1>1 DEF TypeOK, vars, session, menu
<1>2. CASE Disconnect
  BY <1>2, GoType DEF TypeOK, Disconnect, Labels, session, menu
<1>3. CASE \E t \in Threads : SessionStep(t)
  BY <1>3, SessionStepType
<1>4. CASE \E t \in Threads : ShowList(t) \/ LockList(t) \/ SelectFirst(t)
  BY <1>4, ListStepType
<1>5. CASE MenuStep
  BY <1>5, MenuStepType
<1>6. CASE Happens \/ \E t \in Threads : Receives(t)
  BY <1>6, BeginningType DEF Threads
<1>7. CASE Down \/ Restart \/ TimePasses
  BY <1>7, DownType, RestartType, TimeType
<1> QED
  BY <1>1, <1>2, <1>3, <1>4, <1>5, <1>6, <1>7 DEF Next, GoesOn, Exit, Crash

LEMMA TypeInit == Init => TypeOK /\ GameClicked
<1> SUFFICES ASSUME Init PROVE TypeOK /\ GameClicked
  OBVIOUS
<1>1. TypeOK
  BY DownValues DEF Init, TypeOK, Times
<1>2. at["ui"] = "idle"
  BY DEF Init, Threads
<1> QED BY <1>1, <1>2 DEF GameClicked

LEMMA TypesAlways == Spec => [](TypeOK /\ GameClicked)
<1>1. TypeOK /\ GameClicked /\ [Next]_vars => (TypeOK /\ GameClicked)'
  BY TypeStep, GameClickedStep
<1> QED BY <1>1, TypeInit, PTL DEF Spec

\* Every variable keeps its type, and the bound on the sessions plays no part in it:
\* a selection made by a click, by a button or by a new session is an index, and
\* what is fetched and shown are games.
THEOREM TypesKept == Spec => []TypeOK
BY TypesAlways, PTL
-----------------------------------------------------------------------------
(* No session is left running without anything that will end it.           *)

\* KillTimer is called to stop a session, and SetTimer to start one.
Purposeful ==
  \A t \in Threads :
    /\ at[t] = "kill timer" => call[t].op = "stop"
    /\ at[t] = "set timer" => call[t].op = "start"

TimedInv == TypeOK /\ GameClicked /\ Purposeful /\ RunningIsTimed

\* A thread that goes on, and neither starts a session nor kills the timer, keeps
\* the invariant if it goes on towards SetTimer where it was on its way to it.
LEMMA TimedGo ==
  ASSUME TimedInv, NEW u \in Threads, NEW from, NEW to, Go(u, from, to),
         to # "kill timer", to = "set timer" => call[u].op = "start",
         from # "join", from = "not running" => ~ running',
         running' => running, timer => timer',
         call[u].op = "start" /\ from \in BeforeTimer => to \in BeforeTimer \/ timer'
  PROVE  Purposeful' /\ RunningIsTimed'
<1>1. /\ at[u] = from
      /\ call' = call
      /\ at'[u] = to
      /\ \A t \in Threads \ {u} : at'[t] = at[t]
  BY DEF TimedInv, TypeOK, Go
<1>2. Purposeful'
  BY <1>1 DEF TimedInv, Purposeful
<1>3. ASSUME running', ~ timer'
      PROVE  (\E t \in Threads : Starting(t)' \/ Stopping(t)') \/ at'["ui"] = "join"
  <2>1. CASE at["ui"] = "join"
    BY <1>1, <2>1 DEF Threads
  <2>2. CASE \E t \in Threads : Starting(t) \/ Stopping(t)
    <3>1. PICK t \in Threads : Starting(t) \/ Stopping(t)
      BY <2>2
    <3>2. CASE t = u
      BY <1>1, <1>3, <3>1, <3>2 DEF Starting, Stopping
    <3>3. CASE t # u
      BY <1>1, <3>1, <3>3 DEF Starting, Stopping
    <3> QED BY <3>2, <3>3
  <2> QED BY <1>3, <2>1, <2>2 DEF TimedInv, RunningIsTimed
<1> QED BY <1>2, <1>3 DEF RunningIsTimed

\* A thread whose handler returns was not on its way to SetTimer.
LEMMA TimedReturn ==
  ASSUME TimedInv, NEW u \in Threads, NEW from, Return(u, from),
         from \notin {"join", "not running"},
         call[u].op = "start" => from \notin BeforeTimer,
         UNCHANGED <<running, timer>>
  PROVE  Purposeful' /\ RunningIsTimed'
<1>1. /\ at[u] = from
      /\ at'[u] = "idle"
      /\ \A t \in Threads \ {u} : at'[t] = at[t] /\ call'[t] = call[t]
  BY DEF TimedInv, TypeOK, Return
<1>2. Purposeful'
  BY <1>1 DEF TimedInv, Purposeful
<1>3. ~ Starting(u) /\ ~ Stopping(u)
  BY <1>1 DEF Starting, Stopping
<1>4. (\E t \in Threads : Starting(t) \/ Stopping(t)) =>
        \E t \in Threads : Starting(t)' \/ Stopping(t)'
  BY <1>1, <1>3 DEF Starting, Stopping
<1>5. at["ui"] = "join" => at'["ui"] = "join"
  BY <1>1 DEF Threads
<1> QED BY <1>2, <1>4, <1>5 DEF TimedInv, RunningIsTimed

\* A thread that begins a handler was idle; if it makes the session run, it starts it,
\* and if the timer is gone, it closes the process.
LEMMA TimedBegin ==
  ASSUME TimedInv, NEW u \in Threads, NEW c, NEW label, Begin(u, c, label),
         label = "kill timer" => c.op = "stop", label # "set timer",
         running' => running \/ (c.op = "start" /\ label \in BeforeTimer),
         timer => timer' \/ (u = "ui" /\ label = "join")
  PROVE  Purposeful' /\ RunningIsTimed'
<1>1. /\ at[u] = "idle"
      /\ at'[u] = label
      /\ call'[u] = c
      /\ \A t \in Threads \ {u} : at'[t] = at[t] /\ call'[t] = call[t]
  BY DEF TimedInv, TypeOK, Begin
<1>2. Purposeful'
  BY <1>1 DEF TimedInv, Purposeful
<1>3. ~ Starting(u) /\ ~ Stopping(u)
  BY <1>1 DEF Starting, Stopping, BeforeTimer
<1>4. (\E t \in Threads : Starting(t) \/ Stopping(t)) =>
        \E t \in Threads : Starting(t)' \/ Stopping(t)'
  BY <1>1, <1>3 DEF Starting, Stopping
<1>5. at["ui"] = "join" => at'["ui"] = "join"
  BY <1>1 DEF Threads
<1>6. c.op = "start" /\ label \in BeforeTimer => Starting(u)'
  BY <1>1 DEF Starting
<1>7. u = "ui" /\ label = "join" => at'["ui"] = "join"
  BY <1>1
<1> QED BY <1>2, <1>4, <1>5, <1>6, <1>7 DEF TimedInv, RunningIsTimed

LEMMA TimedSession ==
  ASSUME TimedInv, NEW u \in Threads, SessionStep(u)
  PROVE  Purposeful' /\ RunningIsTimed'
<1> USE DEF BeforeTimer
<1>1. CASE ForgetGame(u)
  BY <1>1, TimedGo DEF ForgetGame, session
<1>2. CASE ToFirstCategory(u)
  BY <1>2, TimedGo DEF ToFirstCategory, session
<1>3. CASE SetEnd(u)
  BY <1>3, TimedGo DEF SetEnd, session
<1>4. CASE ReadSum(u)
  BY <1>4, TimedGo DEF ReadSum, session
<1>5. CASE WriteSum(u)
  BY <1>5, TimedGo DEF WriteSum, session
<1>6. CASE ReadEnd(u)
  BY <1>6, TimedGo DEF ReadEnd, session
<1>7. CASE SaveEnd(u)
  BY <1>7, TimedGo DEF SaveEnd
<1>8. CASE StartTimer(u)
  BY <1>8, TimedGo DEF StartTimer
<1>9. CASE StopTimer(u)
  <2>1. /\ call' = call
        /\ at[u] = "kill timer"
        /\ at'[u] = "not running"
        /\ \A t \in Threads \ {u} : at'[t] = at[t]
    BY <1>9 DEF TimedInv, TypeOK, StopTimer, Go
  <2>2. Purposeful'
    BY <2>1 DEF TimedInv, Purposeful
  <2>3. Stopping(u)'
    BY <2>1 DEF TimedInv, Purposeful, Stopping
  <2> QED BY <2>2, <2>3 DEF RunningIsTimed
<1>10. CASE NotRunning(u)
  BY <1>10, TimedGo DEF NotRunning
<1>11. CASE ForgetEnd(u)
  BY <1>11, TimedGo DEF ForgetEnd
<1>12. CASE ForgetSaved(u)
  BY <1>12, TimedGo DEF ForgetSaved
<1>13. CASE ShowTime(u)
  BY <1>13, TimedReturn DEF ShowTime, session
<1> QED BY <1>1, <1>2, <1>3, <1>4, <1>5, <1>6, <1>7, <1>8, <1>9, <1>10,
     <1>11, <1>12, <1>13 DEF SessionStep

LEMMA TimedList ==
  ASSUME TimedInv, NEW u \in Threads, ShowList(u) \/ LockList(u) \/ SelectFirst(u)
  PROVE  Purposeful' /\ RunningIsTimed'
<1>1. CASE ShowList(u)
  BY <1>1, TimedGo DEF ShowList, session, BeforeTimer
<1>2. CASE LockList(u)
  BY <1>2, TimedGo DEF LockList, session, BeforeTimer
<1>3. CASE SelectFirst(u)
  BY <1>3, TimedGo, TimedReturn DEF SelectFirst, session, BeforeTimer
<1> QED BY <1>1, <1>2, <1>3

LEMMA TimedMenu ==
  ASSUME TimedInv, MenuStep \/ Disconnect
  PROVE  Purposeful' /\ RunningIsTimed'
<1> USE DEF session, BeforeTimer, Threads
<1>1. CASE LockOverlay
  BY <1>1, TimedGo DEF LockOverlay
<1>2. CASE Disconnect
  BY <1>2, TimedGo DEF Disconnect
<1>3. CASE IgnoreData
  BY <1>3, TimedReturn DEF IgnoreData
<1>4. CASE Move
  BY <1>4, TimedReturn DEF Move
<1>5. CASE Launch
  BY <1>5, TimedReturn DEF Launch
<1>6. CASE ShowImage
  BY <1>6, TimedReturn DEF ShowImage
<1>7. CASE SelectClicked
  BY <1>7, TimedReturn DEF SelectClicked
<1>8. CASE CheckSelected
  BY <1>8, TimedGo, TimedReturn DEF CheckSelected
<1> QED BY <1>1, <1>2, <1>3, <1>4, <1>5, <1>6, <1>7, <1>8 DEF MenuStep

LEMMA TimedBeginning ==
  ASSUME TimedInv, NEW u \in Threads, Receives(u) \/ Happens
  PROVE  Purposeful' /\ RunningIsTimed'
<1> USE DEF session, Threads
<1>1. ASSUME NEW n \in Lengths, Start(u, n)
      PROVE  Purposeful' /\ RunningIsTimed'
  BY <1>1, TimedBegin DEF Start, NoCall, BeforeTimer
<1>2. CASE Stop(u)
  BY <1>2, TimedBegin DEF Stop, NoCall
<1>3. CASE TimerTick
  BY <1>3, TimedBegin DEF TimerTick, NoCall
<1>4. CASE Add(u)
  BY <1>4, TimedBegin DEF Add
<1>5. CASE Browse
  BY <1>5, TimedBegin DEF Browse
<1>6. CASE Step
  BY <1>6, TimedBegin DEF Step
<1>7. CASE Click
  BY <1>7, TimedBegin DEF Click
<1>8. CASE Close
  BY <1>8, TimedBegin DEF Close
<1>9. CASE CloseUnconnected
  BY <1>9, TimedBegin DEF CloseUnconnected
<1>10. ASSUME NEW game \in Games, DataReady(game)
      PROVE  Purposeful' /\ RunningIsTimed'
  BY <1>10, TimedBegin DEF DataReady
<1> QED BY <1>1, <1>2, <1>3, <1>4, <1>5, <1>6, <1>7, <1>8, <1>9, <1>10
  DEF Receives, Happens

LEMMA TimedStep == TimedInv /\ [Next]_vars => TimedInv'
<1> SUFFICES ASSUME TimedInv, [Next]_vars
             PROVE  Purposeful' /\ RunningIsTimed'
  BY TypeStep, GameClickedStep DEF TimedInv
<1>1. CASE UNCHANGED vars
  BY <1>1 DEF vars, session, TimedInv, Purposeful, RunningIsTimed, Starting, Stopping
<1>2. CASE Down
  BY <1>2 DEF Down, Purposeful, RunningIsTimed
<1>3. CASE Restart
  <2>1. UNCHANGED <<at, call>> /\ (timer' \/ UNCHANGED <<running, timer>>)
    BY <1>3 DEF Restart
  <2>2. Purposeful'
    BY <2>1 DEF TimedInv, Purposeful
  <2>3. CASE timer'
    BY <2>2, <2>3 DEF RunningIsTimed
  <2>4. CASE UNCHANGED <<running, timer>>
    BY <2>1, <2>2, <2>4 DEF TimedInv, RunningIsTimed, Starting, Stopping
  <2> QED BY <2>1, <2>3, <2>4
<1>4. CASE TimePasses
  <2>1. UNCHANGED <<running, timer, at, call>>
    BY <1>4 DEF TimePasses
  <2> QED BY <2>1 DEF TimedInv, Purposeful, RunningIsTimed, Starting, Stopping
<1> QED
  BY <1>1, <1>2, <1>3, <1>4, TimedSession, TimedList, TimedMenu, TimedBeginning
  DEF Next, GoesOn, Exit, Crash, Threads

\* Whatever starts, prolonging, stops and ticks do to one another on the two threads,
\* which share the session without a lock, a session counts as running only while
\* the window has its timer, or a thread is on its way to set it, to end the session
\* or the process.  RunningIsTimed is inductive once it is known with which purpose
\* a thread comes to KillTimer and SetTimer.
THEOREM SessionsAreTimed == Spec => []RunningIsTimed
<1>1. Init => TimedInv
  BY TypeInit DEF Init, TimedInv, Purposeful, RunningIsTimed
<1>2. TimedInv => RunningIsTimed
  BY DEF TimedInv
<1> QED BY <1>1, <1>2, TimedStep, PTL DEF Spec
-----------------------------------------------------------------------------
(* The image shown is that of the selected game.                           *)

\* Where the UI thread is inside g_overlayStateMutex.
Inside == {"move", "launch", "check selected", "show image"}

OverlayHeld == at["ui"] \in Inside => holder["overlay"] = "ui"

\* From the check to the image no other game is selected: the receive thread can
\* change the list meanwhile, with its own mutex, but then no game is selected.
StillWanted ==
  (at["ui"] = "show image" /\ selected \in 1..Len(list)) =>
    list[selected] = call["ui"].game

DownSelectsNone == ~ up => selected = 0

ImageParts == OverlayHeld /\ StillWanted /\ DownSelectsNone /\ ImageIsSelected

ImageInv == TypeOK /\ GameClicked /\ ImageParts

\* The UI thread is outside the mutex, or stays where it is.
Elsewhere ==
  /\ up'
  /\ \/ at'["ui"] \notin Inside
     \/ at'["ui"] = at["ui"] /\ call'["ui"] = call["ui"]

LEMMA ElsewhereGo ==
  ASSUME TypeOK, NEW u \in Threads, NEW from, NEW to, to \notin Inside, Go(u, from, to)
  PROVE  Elsewhere
BY DEF TypeOK, Go, Elsewhere, Inside, Threads

LEMMA ElsewhereReturn ==
  ASSUME TypeOK, NEW u \in Threads, NEW from, Return(u, from)
  PROVE  Elsewhere
BY DEF TypeOK, Return, Elsewhere, Inside, Threads

LEMMA ElsewhereBegin ==
  ASSUME TypeOK, NEW u \in Threads, NEW c, NEW to, to \notin Inside, Begin(u, c, to)
  PROVE  Elsewhere
BY DEF TypeOK, Begin, Elsewhere, Inside, Threads

LEMMA ImageUntouched ==
  ASSUME ImageInv, Elsewhere, UNCHANGED <<list, selected, header>>,
         holder'["overlay"] = holder["overlay"]
  PROVE  ImageParts'
BY DEF ImageInv, ImageParts, Elsewhere, OverlayHeld, StillWanted, DownSelectsNone,
       ImageIsSelected, Inside

\* The image is released, and no image is about to be shown.
LEMMA ImageReleased ==
  ASSUME ImageInv, TypeOK', Elsewhere, header' = NoGame,
         holder'["overlay"] = holder["overlay"], Free("overlay") \/ selected' = 0
  PROVE  ImageParts'
<1>1. OverlayHeld' /\ DownSelectsNone' /\ ImageIsSelected'
  BY DEF ImageInv, ImageParts, Elsewhere, OverlayHeld, DownSelectsNone, ImageIsSelected
<1>2. StillWanted'
  <2>1. CASE selected' = 0
    <3>1. Len(list') \in Nat
      BY DEF TypeOK
    <3>2. selected' \notin 1..Len(list')
      BY <2>1, <3>1
    <3> QED BY <3>2 DEF StillWanted
  <2>2. CASE Free("overlay")
    <3>1. at["ui"] \notin Inside
      BY <2>2 DEF ImageInv, ImageParts, OverlayHeld, Free, Nobody
    <3> QED BY <3>1 DEF StillWanted, Elsewhere, Inside
  <2> QED BY <2>1, <2>2
<1> QED BY <1>1, <1>2 DEF ImageParts

LEMMA ImageSession ==
  ASSUME ImageInv, TypeOK', NEW u \in Threads, SessionStep(u)
  PROVE  ImageParts'
<1>1. Elsewhere
  <2> USE DEF Inside
  <2>1. CASE ForgetGame(u)
    BY <2>1, ElsewhereGo DEF ImageInv, ForgetGame
  <2>2. CASE ToFirstCategory(u)
    BY <2>2, ElsewhereGo DEF ImageInv, ToFirstCategory
  <2>3. CASE SetEnd(u)
    BY <2>3, ElsewhereGo DEF ImageInv, SetEnd
  <2>4. CASE ReadSum(u)
    BY <2>4, ElsewhereGo DEF ImageInv, ReadSum
  <2>5. CASE WriteSum(u)
    BY <2>5, ElsewhereGo DEF ImageInv, WriteSum
  <2>6. CASE ReadEnd(u)
    BY <2>6, ElsewhereGo DEF ImageInv, ReadEnd
  <2>7. CASE SaveEnd(u)
    BY <2>7, ElsewhereGo DEF ImageInv, SaveEnd
  <2>8. CASE StartTimer(u)
    BY <2>8, ElsewhereGo DEF ImageInv, StartTimer
  <2>9. CASE StopTimer(u)
    BY <2>9, ElsewhereGo DEF ImageInv, StopTimer
  <2>10. CASE NotRunning(u)
    BY <2>10, ElsewhereGo DEF ImageInv, NotRunning
  <2>11. CASE ForgetEnd(u)
    BY <2>11, ElsewhereGo DEF ImageInv, ForgetEnd
  <2>12. CASE ForgetSaved(u)
    BY <2>12, ElsewhereGo DEF ImageInv, ForgetSaved
  <2>13. CASE ShowTime(u)
    BY <2>13, ElsewhereReturn DEF ImageInv, ShowTime
  <2> QED
    BY <2>1, <2>2, <2>3, <2>4, <2>5, <2>6, <2>7, <2>8, <2>9,
       <2>10, <2>11, <2>12, <2>13 DEF SessionStep
<1>2. CASE ForgetGame(u)
  BY <1>1, <1>2, ImageReleased DEF ForgetGame, ReleaseHeader
<1>3. CASE ~ ForgetGame(u)
  <2>1. UNCHANGED <<list, selected, header, holder>>
    BY <1>3 DEF SessionStep, ToFirstCategory, SetEnd, ReadSum, WriteSum, ReadEnd, SaveEnd,
       StartTimer, StopTimer, NotRunning, ForgetEnd, ForgetSaved, ShowTime, menu
  <2> QED BY <1>1, <2>1, ImageUntouched
<1> QED BY <1>2, <1>3

LEMMA ImageList ==
  ASSUME ImageInv, TypeOK', NEW u \in Threads, ShowList(u) \/ LockList(u) \/ SelectFirst(u)
  PROVE  ImageParts'
<1>1. Elsewhere
  <2>1. CASE ShowList(u)
    BY <2>1, ElsewhereGo DEF ImageInv, ShowList, Inside
  <2>2. CASE LockList(u)
    BY <2>2, ElsewhereGo DEF ImageInv, LockList, Inside
  <2>3. CASE SelectFirst(u)
    BY <2>3, ElsewhereGo, ElsewhereReturn DEF ImageInv, SelectFirst, Inside
  <2> QED BY <2>1, <2>2, <2>3
<1>2. CASE ShowList(u)
  BY <1>1, <1>2, ImageReleased DEF ShowList, ReleaseHeader
<1>3. CASE LockList(u)
  <2>1. UNCHANGED <<list, selected, header>> /\ holder'["overlay"] = holder["overlay"]
    BY <1>3 DEF ImageInv, TypeOK, LockList, menu, Mutexes
  <2> QED BY <1>1, <2>1, ImageUntouched
<1>4. CASE SelectFirst(u)
  <2>1. Free("overlay") /\ holder'["overlay"] = holder["overlay"]
    BY <1>4 DEF ImageInv, TypeOK, SelectFirst, Mutexes
  <2>2. CASE header' = NoGame
    BY <1>1, <2>1, <2>2, ImageReleased
  <2>3. CASE header' # NoGame
    <3>1. selected' = 0
      BY <1>4, <2>3 DEF SelectFirst, ReleaseHeader
    <3> QED
      <4>1. Len(list') \in Nat
        BY DEF TypeOK
      <4>2. selected' \notin 1..Len(list')
        BY <3>1, <4>1
      <4> QED
        BY <1>1, <2>1, <3>1, <4>2 DEF ImageInv, ImageParts, Elsewhere, OverlayHeld,
           StillWanted, DownSelectsNone, ImageIsSelected
  <2> QED BY <2>2, <2>3
<1> QED BY <1>2, <1>3, <1>4

\* The overlay mutex is given back with the return of the handler.
LEMMA ImageReturn ==
  ASSUME ImageInv, NEW from, Return("ui", from), ImageIsSelected'
  PROVE  ImageParts'
<1>1. at'["ui"] = "idle" /\ up'
  BY DEF ImageInv, TypeOK, Return, Threads
<1> QED BY <1>1 DEF ImageParts, OverlayHeld, StillWanted, DownSelectsNone, Inside

LEMMA ImageMenu ==
  ASSUME ImageInv, MenuStep
  PROVE  ImageParts'
<1>1. CASE LockOverlay
  <2>1. holder'["overlay"] = "ui"
    BY <1>1 DEF ImageInv, TypeOK, LockOverlay, Mutexes
  <2>0. up'
    <3>1. up /\ up' = up
      BY <1>1 DEF LockOverlay, Go
    <3> QED BY <3>1
  <2>2. at'["ui"] # "show image"
    BY <1>1 DEF ImageInv, TypeOK, LockOverlay, Go, Threads
  <2>3. ImageIsSelected'
    BY <1>1 DEF ImageInv, ImageParts, ImageIsSelected, LockOverlay, menu
  <2> QED BY <2>0, <2>1, <2>2, <2>3 DEF ImageParts, OverlayHeld, StillWanted, DownSelectsNone
<1>2. CASE IgnoreData
  BY <1>2, ImageReturn DEF ImageInv, ImageParts, ImageIsSelected, IgnoreData, menu
<1>3. CASE Move
  BY <1>3, ImageReturn DEF ImageInv, ImageParts, ImageIsSelected, Move, ReleaseHeader
<1>4. CASE Launch
  BY <1>4, ImageReturn DEF ImageInv, ImageParts, ImageIsSelected, Launch, menu
<1>5. CASE CheckSelected
  <2>1. ImageIsSelected'
    BY <1>5 DEF ImageInv, ImageParts, ImageIsSelected, CheckSelected, menu
  <2>2. CASE Return("ui", "check selected")
    BY <2>1, <2>2, ImageReturn
  <2>3. CASE ~ Return("ui", "check selected")
    <3>1. /\ IsSelected(call["ui"].game)
          /\ Go("ui", "check selected", "show image")
          /\ UNCHANGED <<holder, selected, list>>
      BY <1>5, <2>3 DEF CheckSelected, menu
    <3>2. at["ui"] = "check selected" /\ up' /\ call' = call
      BY <3>1 DEF Go
    <3> QED
      BY <2>1, <3>1, <3>2 DEF ImageInv, ImageParts, OverlayHeld, StillWanted,
         DownSelectsNone, IsSelected, Inside
  <2> QED BY <2>2, <2>3
<1>6. CASE ShowImage
  <2>1. at["ui"] = "show image" /\ header' \in {call["ui"].game, NoGame}
        /\ UNCHANGED <<list, selected>>
    BY <1>6 DEF ShowImage, Return
  <2>2. ImageIsSelected'
    BY <2>1 DEF ImageInv, ImageParts, StillWanted, ImageIsSelected
  <2> QED BY <1>6, <2>2, ImageReturn DEF ShowImage
<1>7. CASE SelectClicked
  <2>1. ImageIsSelected'
    BY <1>7 DEF ImageInv, ImageParts, ImageIsSelected, SelectClicked, ReleaseHeader
  <2> QED BY <1>7, <2>1, ImageReturn DEF SelectClicked
<1> QED BY <1>1, <1>2, <1>3, <1>4, <1>5, <1>6, <1>7 DEF MenuStep

LEMMA ImageBeginning ==
  ASSUME ImageInv, NEW u \in Threads, Receives(u) \/ Happens
  PROVE  ImageParts'
<1> SUFFICES Elsewhere /\ UNCHANGED <<list, selected, header, holder>>
  BY ImageUntouched
<1> USE DEF ImageInv, Inside, Threads, menu
<1>1. ASSUME NEW n \in Lengths, Start(u, n)
      PROVE  Elsewhere /\ UNCHANGED <<list, selected, header, holder>>
  <2>1. \E c : Begin(u, c, "forget game")
    BY <1>1 DEF Start
  <2>2. Elsewhere
    BY <2>1, ElsewhereBegin
  <2> QED BY <1>1, <2>2 DEF Start
<1>2. CASE Stop(u)
  BY <1>2, ElsewhereBegin DEF Stop
<1>3. CASE Add(u)
  BY <1>3, ElsewhereBegin DEF Add
<1>4. CASE TimerTick
  BY <1>4, ElsewhereBegin DEF TimerTick
<1>5. CASE Browse
  BY <1>5, ElsewhereBegin DEF Browse
<1>6. CASE Step
  BY <1>6, ElsewhereBegin DEF Step
<1>7. CASE Click
  <2>1. \E c : Begin("ui", c, "select clicked")
    BY <1>7 DEF Click
  <2>2. Elsewhere
    BY <2>1, ElsewhereBegin
  <2> QED BY <1>7, <2>2 DEF Click
<1>8. CASE Close
  BY <1>8, ElsewhereBegin DEF Close
<1>9. CASE CloseUnconnected
  BY <1>9, ElsewhereBegin DEF CloseUnconnected
<1>10. ASSUME NEW game \in Games, DataReady(game)
       PROVE  Elsewhere /\ UNCHANGED <<list, selected, header, holder>>
  <2>1. \E c : Begin("ui", c, "lock overlay")
    BY <1>10 DEF DataReady
  <2>2. Elsewhere
    BY <2>1, ElsewhereBegin
  <2> QED BY <1>10, <2>2 DEF DataReady
<1> QED BY <1>1, <1>2, <1>3, <1>4, <1>5, <1>6, <1>7, <1>8, <1>9, <1>10
  DEF Receives, Happens

LEMMA ImageStep == ImageInv /\ [Next]_vars => ImageInv'
<1> SUFFICES ASSUME ImageInv, [Next]_vars, TypeOK'
             PROVE  ImageParts'
  BY TypeStep, GameClickedStep DEF ImageInv
<1>1. CASE UNCHANGED vars \/ TimePasses
  <2>1. UNCHANGED <<up, at, call, list, selected, header, holder>>
    BY <1>1 DEF vars, menu, TimePasses
  <2> QED
    BY <2>1 DEF ImageInv, ImageParts, OverlayHeld, StillWanted, DownSelectsNone,
       ImageIsSelected
<1>2. CASE Disconnect
  <2>1. Elsewhere /\ UNCHANGED <<list, selected, header, holder>>
    BY <1>2, ElsewhereGo DEF ImageInv, Disconnect, Inside, Threads, menu
  <2> QED BY <2>1, ImageUntouched
<1>3. CASE Down
  <2>1. /\ at'["ui"] = "idle"
        /\ selected' = 0
        /\ header' = NoGame
    BY <1>3 DEF Down, Threads
  <2> QED
    BY <2>1 DEF ImageParts, OverlayHeld, StillWanted, DownSelectsNone, ImageIsSelected, Inside
<1>4. CASE Restart
  <2>1. /\ up' /\ selected = 0 /\ selected' = 0
        /\ UNCHANGED <<at, call, holder>>
    BY <1>4 DEF ImageInv, ImageParts, DownSelectsNone, Restart
  <2>2. Len(list') \in Nat
    BY DEF TypeOK
  <2> QED
    BY <2>1, <2>2 DEF ImageInv, ImageParts, OverlayHeld, StillWanted, DownSelectsNone,
       ImageIsSelected
<1> QED
  BY <1>1, <1>2, <1>3, <1>4, ImageSession, ImageList, ImageMenu, ImageBeginning
  DEF Next, GoesOn, Exit, Crash, Threads

\* The data of a game comes from a thread of its own, late and out of order, while the
\* guest goes on and the receive thread shows the menu of a new session; yet the
\* details panel shows the image of the selected game.  The invariant says why: the
\* check and the image are inside g_overlayStateMutex, and what changes the list
\* without that mutex selects no game and releases the image.
THEOREM ImageIsOfSelected == Spec => []ImageIsSelected
<1>1. Init => ImageInv
  BY TypeInit DEF Init, ImageInv, ImageParts, OverlayHeld, StillWanted, DownSelectsNone,
     ImageIsSelected, Threads, Inside
<1>2. ImageInv => ImageIsSelected
  BY DEF ImageInv, ImageParts
<1> QED BY <1>1, <1>2, ImageStep, PTL DEF Spec
-----------------------------------------------------------------------------
(* What is saved is what is in memory, while one thread at a time changes  *)
(* the session.                                                            *)

InSession(t) == call[t].op \in SessionOps

\* The places of the session's handlers; three are shared with the game menu.
SessionPlaces ==
  { "forget game", "first category", "set end", "read end", "save end", "set timer", "show time",
    "read sum", "write sum", "kill timer", "not running", "forget end", "forget saved" }

\* Where a thread is that starts, prolongs or stops a session, and where another is not.
InPlace(t) ==
  /\ call[t].op = "start" => at[t] \in BeforeTimer \cup {"show time"}
  /\ call[t].op = "add" => at[t] \in {"read sum", "write sum", "read end", "save end", "show time"}
  /\ call[t].op = "stop" => at[t] \in {"kill timer", "not running", "forget end", "forget saved",
                                      "forget game", "show time"}
  /\ at[t] \in SessionPlaces => InSession(t)

\* How far a handler is that no other has disturbed.
Progress(t) ==
  /\ call[t].op \in {"start", "add"} \/ at[t] \in {"kill timer", "not running"} => running
  /\ call[t].op = "stop" /\ at[t] \in {"forget saved", "forget game", "show time"} =>
       endTime = LongPast
  /\ at[t] = "save end" => seen[t] = endTime
  /\ at[t] \notin {"read end", "save end", "forget saved"} => ini = endTime

Alone == up /\ ~ overlapped

OneAtATime == ~ (InSession("ui") /\ InSession("recv"))

\* Memory is empty before the process starts.
DownForgets == ~ up => endTime = LongPast /\ \A t \in Threads : at[t] = "idle" /\ call[t] = NoCall

SavedParts ==
  /\ \A t \in Threads : InPlace(t)
  /\ DownForgets
  /\ Alone => OneAtATime /\ SavedWhenAlone /\ \A t \in Threads : InSession(t) => Progress(t)

SavedInv == TypeOK /\ GameClicked /\ SavedParts

\* A thread that goes on: within a session's handler it makes progress, elsewhere
\* it leaves the session alone.
LEMMA SavedGo ==
  ASSUME SavedInv, NEW u \in Threads, NEW from, NEW to, Go(u, from, to),
         \A t \in Threads \ {u} : seen'[t] = seen[t],
         InPlace(u)', Alone /\ InSession(u) => Progress(u)',
         ~ InSession(u) => UNCHANGED <<running, endTime, ini, seen>>
  PROVE  SavedParts'
<1>1. /\ up /\ up' /\ UNCHANGED <<call, overlapped>> /\ at'[u] = to
      /\ \A t \in Threads \ {u} : at'[t] = at[t]
  BY DEF SavedInv, TypeOK, Go
<1>2. \A t \in Threads : InSession(t)' <=> InSession(t)
  BY <1>1 DEF InSession
<1>3. \A t \in Threads : InPlace(t)'
  BY <1>1, <1>2 DEF SavedInv, SavedParts, InPlace
<1>4. DownForgets'
  BY <1>1 DEF DownForgets
<1>5. ASSUME Alone'
      PROVE  OneAtATime' /\ SavedWhenAlone' /\ \A t \in Threads : InSession(t)' => Progress(t)'
  <2>1. Alone /\ OneAtATime /\ SavedWhenAlone /\ \A t \in Threads : InSession(t) => Progress(t)
    BY <1>1, <1>5 DEF SavedInv, SavedParts, Alone
  <2>2. OneAtATime'
    BY <1>2, <2>1 DEF OneAtATime, Threads
  <2>3. CASE InSession(u)
    <3>1. \A t \in Threads \ {u} : ~ InSession(t)
      BY <2>1, <2>3 DEF OneAtATime, Threads
    <3>2. SavedWhenAlone'
      BY <1>2, <2>3 DEF SavedWhenAlone, InSession
    <3> QED BY <1>2, <2>1, <2>2, <2>3, <3>1, <3>2
  <2>4. CASE ~ InSession(u)
    <3>1. SavedWhenAlone'
      BY <1>1, <2>1, <2>4 DEF SavedWhenAlone
    <3>2. \A t \in Threads \ {u} : Progress(t) => Progress(t)'
      BY <1>1, <2>4 DEF Progress
    <3> QED BY <1>2, <2>1, <2>2, <2>4, <3>1, <3>2
  <2> QED BY <2>3, <2>4
<1> QED BY <1>3, <1>4, <1>5 DEF SavedParts

LEMMA LongPastIsOver == ~ (LongPast > 0)
BY DEF LongPast

\* A handler that returns has saved what it changed.
LEMMA SavedReturn ==
  ASSUME SavedInv, NEW u \in Threads, NEW from, Return(u, from),
         InSession(u) => from = "show time", UNCHANGED <<running, endTime, ini, seen>>
  PROVE  SavedParts'
<1>1. /\ up /\ up' /\ at[u] = from /\ at'[u] = "idle" /\ call'[u] = NoCall /\ UNCHANGED overlapped
      /\ \A t \in Threads \ {u} : at'[t] = at[t] /\ call'[t] = call[t]
  BY DEF SavedInv, TypeOK, Return
<1>2. ~ InSession(u)' /\ \A t \in Threads \ {u} : InSession(t)' <=> InSession(t)
  <2>1. NoCall.op \notin SessionOps
    BY DEF NoCall, SessionOps
  <2> QED BY <1>1, <2>1 DEF InSession
<1>3. \A t \in Threads : InPlace(t)'
  <2>1. "idle" \notin SessionPlaces
    BY DEF SessionPlaces
  <2>2. InPlace(u)'
    BY <1>1, <1>2, <2>1 DEF InPlace, InSession, SessionOps
  <2> QED BY <1>1, <1>2, <2>2 DEF SavedInv, SavedParts, InPlace
<1>4. DownForgets'
  BY <1>1 DEF DownForgets
<1>5. ASSUME Alone'
      PROVE  OneAtATime' /\ SavedWhenAlone' /\ \A t \in Threads : InSession(t)' => Progress(t)'
  <2>1. Alone /\ OneAtATime /\ SavedWhenAlone /\ \A t \in Threads : InSession(t) => Progress(t)
    BY <1>1, <1>5 DEF SavedInv, SavedParts, Alone
  <2>2. OneAtATime'
    BY <1>2, <2>1 DEF OneAtATime, Threads
  <2>3. \A t \in Threads \ {u} : Progress(t) => Progress(t)'
    BY <1>1 DEF Progress
  <2>4. SavedWhenAlone'
    <3>1. CASE InSession(u)
      <4>1. ini = endTime
        BY <1>1, <2>1, <3>1 DEF Progress
      <4>2. running \/ endTime = LongPast
        BY <1>1, <2>1, <3>1 DEF Progress, InSession, SessionOps
      <4>3. endTime = LongPast => ~ (endTime > 0)
        BY LongPastIsOver
      <4>4. ini' = endTime' /\ (endTime' > 0 => running')
        BY <4>1, <4>2, <4>3
      <4> QED BY <4>4 DEF SavedWhenAlone
    <3>2. CASE ~ InSession(u)
      <4>1. (\A t \in Threads : call'[t].op \notin SessionOps) => \A t \in Threads : call[t].op \notin SessionOps
        BY <1>1, <3>2 DEF InSession
      <4> QED BY <1>1, <2>1, <4>1 DEF SavedWhenAlone
    <3> QED BY <3>1, <3>2
  <2> QED BY <1>2, <2>1, <2>2, <2>3, <2>4
<1> QED BY <1>3, <1>4, <1>5 DEF SavedParts

Beginnings == {<<"start", "forget game">>, <<"add", "read sum">>, <<"stop", "kill timer">>}

\* A handler begins with what the last one has saved, or is the second one.
LEMMA SavedBegin ==
  ASSUME SavedInv, NEW u \in Threads, NEW c, NEW label, Begin(u, c, label),
         UNCHANGED <<endTime, ini, seen>>, running' = running \/ (c.op = "start" /\ running'),
         \/ running' /\ <<c.op, label>> \in Beginnings
         \/ c.op \notin SessionOps /\ label \notin SessionPlaces
  PROVE  SavedParts'
<1>1. /\ up /\ up' /\ at'[u] = label /\ call'[u] = c /\ at[u] = "idle"
      /\ overlapped' = (overlapped \/ {c.op, call[Other(u)].op} \subseteq SessionOps)
      /\ \A t \in Threads \ {u} : at'[t] = at[t] /\ call'[t] = call[t]
  BY DEF SavedInv, TypeOK, Begin
<1>2. /\ InSession(u)' <=> c.op \in SessionOps
      /\ \A t \in Threads \ {u} : InSession(t)' <=> InSession(t)
  BY <1>1 DEF InSession
<1>3. \A t \in Threads : InPlace(t)'
  <2>1. InPlace(u)'
    BY <1>1, <1>2 DEF InPlace, Beginnings, SessionOps, BeforeTimer
  <2>2. \A t \in Threads \ {u} : InPlace(t)'
    BY <1>1, <1>2 DEF SavedInv, SavedParts, InPlace
  <2> QED BY <2>1, <2>2
<1>4. DownForgets'
  BY <1>1 DEF DownForgets
<1>5. ~ InSession(u)
  BY <1>1 DEF SavedInv, SavedParts, InPlace, InSession, SessionOps, BeforeTimer
<1>6. ASSUME Alone'
      PROVE  OneAtATime' /\ SavedWhenAlone' /\ \A t \in Threads : InSession(t)' => Progress(t)'
  <2>1. Alone /\ OneAtATime /\ SavedWhenAlone /\ \A t \in Threads : InSession(t) => Progress(t)
    BY <1>1, <1>6 DEF SavedInv, SavedParts, Alone
  <2>2. c.op \in SessionOps => \A t \in Threads : ~ InSession(t)
    BY <1>1, <1>5, <1>6 DEF Alone, Other, InSession, Threads
  <2>3. OneAtATime'
    BY <1>2, <2>1, <2>2 DEF OneAtATime, Threads
  <2>4. CASE c.op \in SessionOps
    <3>1. ini = endTime
      BY <2>1, <2>2, <2>4 DEF SavedWhenAlone, Alone, InSession
    <3>2. <<c.op, label>> \in Beginnings /\ running'
      BY <2>4
    <3>3. Progress(u)'
      BY <1>1, <3>1, <3>2 DEF Progress, Beginnings
    <3>4. SavedWhenAlone'
      BY <1>2, <2>4 DEF SavedWhenAlone, InSession
    <3> QED BY <1>2, <2>2, <2>3, <2>4, <3>3, <3>4
  <2>5. CASE c.op \notin SessionOps
    <3>1. running' = running
      BY <2>5 DEF SessionOps
    <3>2. \A t \in Threads \ {u} : Progress(t) => Progress(t)'
      BY <1>1, <3>1 DEF Progress
    <3>3. SavedWhenAlone'
      BY <1>1, <1>2, <1>5, <2>1, <3>1 DEF SavedWhenAlone, InSession, Alone
    <3> QED BY <1>2, <2>1, <2>3, <2>5, <3>2, <3>3
  <2> QED BY <2>4, <2>5
<1> QED BY <1>3, <1>4, <1>6 DEF SavedParts

LEMMA SavedSession ==
  ASSUME SavedInv, NEW u \in Threads, SessionStep(u)
  PROVE  SavedParts'
<1>0. /\ InPlace(u) /\ (Alone /\ InSession(u) => Progress(u))
  BY DEF SavedInv, SavedParts
<1>1. ASSUME NEW from \in SessionPlaces, NEW to, Go(u, from, to)
      PROVE  /\ at[u] = from /\ at'[u] = to /\ UNCHANGED call
             /\ InSession(u) /\ InSession(u)' /\ (Alone => Progress(u))
  BY <1>0, <1>1 DEF SavedInv, TypeOK, Go, Alone, InPlace, InSession
<1> USE DEF SessionPlaces
<1>2. CASE ToFirstCategory(u)
  <2>1. Go(u, "first category", "show list") /\ UNCHANGED session /\ UNCHANGED seen
    BY <1>2 DEF ToFirstCategory, SavedInv, TypeOK
  <2>2. /\ at[u] = "first category" /\ at'[u] = "show list" /\ UNCHANGED call
        /\ InSession(u) /\ InSession(u)' /\ (Alone => Progress(u))
    BY <1>1, <2>1
  <2>3. InPlace(u)'
    BY <1>0, <2>2 DEF InPlace, InSession, SessionOps, BeforeTimer
  <2>4. Alone => Progress(u)'
    BY <1>0, <2>1, <2>2 DEF Progress, InPlace, InSession, SessionOps, BeforeTimer, session, SavedInv, TypeOK
  <2> QED BY <2>1, <2>2, <2>3, <2>4, SavedGo
<1>3. CASE SetEnd(u)
  <2>1. Go(u, "set end", "read end") /\ UNCHANGED <<running, ini, seen>>
    BY <1>3 DEF SetEnd, SavedInv, TypeOK
  <2>2. /\ at[u] = "set end" /\ at'[u] = "read end" /\ UNCHANGED call
        /\ InSession(u) /\ InSession(u)' /\ (Alone => Progress(u))
    BY <1>1, <2>1
  <2>3. InPlace(u)'
    BY <1>0, <2>2 DEF InPlace, InSession, SessionOps, BeforeTimer
  <2>4. Alone => Progress(u)'
    BY <1>0, <2>1, <2>2 DEF Progress, InPlace, InSession, SessionOps, BeforeTimer, session, SavedInv, TypeOK
  <2> QED BY <2>1, <2>2, <2>3, <2>4, SavedGo
<1>4. CASE ReadSum(u)
  <2>1. Go(u, "read sum", "write sum") /\ UNCHANGED session /\ \A t \in Threads \ {u} : seen'[t] = seen[t]
    BY <1>4 DEF ReadSum, SavedInv, TypeOK
  <2>2. /\ at[u] = "read sum" /\ at'[u] = "write sum" /\ UNCHANGED call
        /\ InSession(u) /\ InSession(u)' /\ (Alone => Progress(u))
    BY <1>1, <2>1
  <2>3. InPlace(u)'
    BY <1>0, <2>2 DEF InPlace, InSession, SessionOps, BeforeTimer
  <2>4. Alone => Progress(u)'
    BY <1>0, <2>1, <2>2 DEF Progress, InPlace, InSession, SessionOps, BeforeTimer, session, SavedInv, TypeOK
  <2> QED BY <2>1, <2>2, <2>3, <2>4, SavedGo
<1>5. CASE WriteSum(u)
  <2>1. Go(u, "write sum", "read end") /\ UNCHANGED <<running, ini, seen>>
    BY <1>5 DEF WriteSum, SavedInv, TypeOK
  <2>2. /\ at[u] = "write sum" /\ at'[u] = "read end" /\ UNCHANGED call
        /\ InSession(u) /\ InSession(u)' /\ (Alone => Progress(u))
    BY <1>1, <2>1
  <2>3. InPlace(u)'
    BY <1>0, <2>2 DEF InPlace, InSession, SessionOps, BeforeTimer
  <2>4. Alone => Progress(u)'
    BY <1>0, <2>1, <2>2 DEF Progress, InPlace, InSession, SessionOps, BeforeTimer, session, SavedInv, TypeOK
  <2> QED BY <2>1, <2>2, <2>3, <2>4, SavedGo
<1>6. CASE ReadEnd(u)
  <2>1. /\ Go(u, "read end", "save end") /\ UNCHANGED session
        /\ seen'[u] = endTime /\ \A t \in Threads \ {u} : seen'[t] = seen[t]
    BY <1>6 DEF ReadEnd, SavedInv, TypeOK
  <2>2. /\ at[u] = "read end" /\ at'[u] = "save end" /\ UNCHANGED call
        /\ InSession(u) /\ InSession(u)' /\ (Alone => Progress(u))
    BY <1>1, <2>1
  <2>3. InPlace(u)'
    BY <1>0, <2>2 DEF InPlace, InSession, SessionOps, BeforeTimer
  <2>4. Alone => Progress(u)'
    <3>1. seen'[u] = endTime' /\ running' = running
      BY <2>1 DEF session
    <3>2. call[u].op \in {"start", "add"}
      BY <1>0, <2>2 DEF InPlace, InSession, SessionOps
    <3> QED BY <2>2, <3>1, <3>2 DEF Progress
  <2> QED BY <2>1, <2>2, <2>3, <2>4, SavedGo
<1>7. CASE StartTimer(u)
  <2>1. Go(u, "set timer", "show time") /\ UNCHANGED <<running, endTime, ini, seen>>
    BY <1>7 DEF StartTimer, SavedInv, TypeOK
  <2>2. /\ at[u] = "set timer" /\ at'[u] = "show time" /\ UNCHANGED call
        /\ InSession(u) /\ InSession(u)' /\ (Alone => Progress(u))
    BY <1>1, <2>1
  <2>3. InPlace(u)'
    BY <1>0, <2>2 DEF InPlace, InSession, SessionOps, BeforeTimer
  <2>4. Alone => Progress(u)'
    BY <1>0, <2>1, <2>2 DEF Progress, InPlace, InSession, SessionOps, BeforeTimer, session, SavedInv, TypeOK
  <2> QED BY <2>1, <2>2, <2>3, <2>4, SavedGo
<1>8. CASE StopTimer(u)
  <2>1. Go(u, "kill timer", "not running") /\ UNCHANGED <<running, endTime, ini, seen>>
    BY <1>8 DEF StopTimer, SavedInv, TypeOK
  <2>2. /\ at[u] = "kill timer" /\ at'[u] = "not running" /\ UNCHANGED call
        /\ InSession(u) /\ InSession(u)' /\ (Alone => Progress(u))
    BY <1>1, <2>1
  <2>3. InPlace(u)'
    BY <1>0, <2>2 DEF InPlace, InSession, SessionOps, BeforeTimer
  <2>4. Alone => Progress(u)'
    BY <1>0, <2>1, <2>2 DEF Progress, InPlace, InSession, SessionOps, BeforeTimer, session, SavedInv, TypeOK
  <2> QED BY <2>1, <2>2, <2>3, <2>4, SavedGo
<1>9. CASE NotRunning(u)
  <2>1. Go(u, "not running", "forget end") /\ UNCHANGED <<endTime, ini, seen>>
    BY <1>9 DEF NotRunning, SavedInv, TypeOK
  <2>2. /\ at[u] = "not running" /\ at'[u] = "forget end" /\ UNCHANGED call
        /\ InSession(u) /\ InSession(u)' /\ (Alone => Progress(u))
    BY <1>1, <2>1
  <2>3. InPlace(u)'
    BY <1>0, <2>2 DEF InPlace, InSession, SessionOps, BeforeTimer
  <2>4. Alone => Progress(u)'
    BY <1>0, <2>1, <2>2 DEF Progress, InPlace, InSession, SessionOps, BeforeTimer, session, SavedInv, TypeOK
  <2> QED BY <2>1, <2>2, <2>3, <2>4, SavedGo
<1>10. CASE ForgetEnd(u)
  <2>1. Go(u, "forget end", "forget saved") /\ endTime' = LongPast /\ UNCHANGED <<running, ini, seen>>
    BY <1>10 DEF ForgetEnd, SavedInv, TypeOK
  <2>2. /\ at[u] = "forget end" /\ at'[u] = "forget saved" /\ UNCHANGED call
        /\ InSession(u) /\ InSession(u)' /\ (Alone => Progress(u))
    BY <1>1, <2>1
  <2>3. InPlace(u)'
    BY <1>0, <2>2 DEF InPlace, InSession, SessionOps, BeforeTimer
  <2>4. Alone => Progress(u)'
    BY <1>0, <2>1, <2>2 DEF Progress, InPlace, InSession, SessionOps, BeforeTimer, session, SavedInv, TypeOK
  <2> QED BY <2>1, <2>2, <2>3, <2>4, SavedGo
<1>11. CASE ForgetSaved(u)
  <2>1. Go(u, "forget saved", "forget game") /\ ini' = LongPast /\ UNCHANGED <<running, endTime, seen>>
    BY <1>11 DEF ForgetSaved, SavedInv, TypeOK
  <2>2. /\ at[u] = "forget saved" /\ at'[u] = "forget game" /\ UNCHANGED call
        /\ InSession(u) /\ InSession(u)' /\ (Alone => Progress(u))
    BY <1>1, <2>1
  <2>3. InPlace(u)'
    BY <1>0, <2>2 DEF InPlace, InSession, SessionOps, BeforeTimer
  <2>4. Alone => Progress(u)'
    BY <1>0, <2>1, <2>2 DEF Progress, InPlace, InSession, SessionOps, BeforeTimer, session, SavedInv, TypeOK
  <2> QED BY <2>1, <2>2, <2>3, <2>4, SavedGo
<1>12. CASE ForgetGame(u)
  <2>1. PICK to \in {"first category", "show time"} :
           /\ Go(u, "forget game", to)
           /\ <<call[u].op, to>> \in {<<"start", "first category">>, <<"stop", "show time">>}
    BY <1>12 DEF ForgetGame
  <2>2. /\ at[u] = "forget game" /\ at'[u] = to /\ UNCHANGED call
        /\ InSession(u) /\ InSession(u)' /\ (Alone => Progress(u))
    BY <1>1, <2>1
  <2>3. InPlace(u)'
    BY <2>1, <2>2 DEF InPlace, BeforeTimer
  <2>4. UNCHANGED <<running, endTime, ini, seen>>
    BY <1>12 DEF ForgetGame, session
  <2>5. Alone => Progress(u)'
    BY <2>1, <2>2, <2>4 DEF Progress
  <2> QED BY <2>1, <2>2, <2>3, <2>4, <2>5, SavedGo
<1>13. CASE SaveEnd(u)
  <2>1. PICK to \in {"set timer", "show time"} :
           /\ Go(u, "save end", to)
           /\ <<call[u].op, to>> \in {<<"start", "set timer">>, <<"add", "show time">>}
    BY <1>13 DEF SaveEnd
  <2>2. /\ at[u] = "save end" /\ at'[u] = to /\ UNCHANGED call
        /\ InSession(u) /\ InSession(u)' /\ (Alone => Progress(u))
    BY <1>1, <2>1
  <2>3. InPlace(u)'
    BY <2>1, <2>2 DEF InPlace, BeforeTimer
  <2>4. /\ ini' = seen[u] /\ UNCHANGED <<running, endTime>>
        /\ \A t \in Threads \ {u} : seen'[t] = seen[t]
    BY <1>13 DEF SaveEnd, SavedInv, TypeOK
  <2>5. Alone => Progress(u)'
    BY <2>1, <2>2, <2>4 DEF Progress
  <2> QED BY <2>1, <2>2, <2>3, <2>4, <2>5, SavedGo
<1>14. CASE ShowTime(u)
  BY <1>14, SavedReturn DEF ShowTime, session
<1> QED BY <1>2, <1>3, <1>4, <1>5, <1>6, <1>7, <1>8,
     <1>9, <1>10, <1>11, <1>12, <1>13, <1>14 DEF SessionStep

LEMMA SavedList ==
  ASSUME SavedInv, NEW u \in Threads, ShowList(u) \/ LockList(u) \/ SelectFirst(u)
  PROVE  SavedParts'
<1>0. /\ InPlace(u) /\ (Alone /\ InSession(u) => Progress(u))
      /\ UNCHANGED <<running, endTime, ini, seen>>
  BY DEF SavedInv, SavedParts, ShowList, LockList, SelectFirst, session
<1>1. ASSUME NEW from \in {"show list", "lock list", "select first"},
             NEW to \in {"lock list", "select first", "set end"}, Go(u, from, to),
             to = "set end" => call[u].op = "start"
      PROVE  SavedParts'
  <2>1. /\ at[u] = from /\ at'[u] = to /\ UNCHANGED call /\ (Alone' => Alone)
    BY <1>1 DEF SavedInv, TypeOK, Go, Alone
  <2>2. InPlace(u)'
    BY <1>0, <1>1, <2>1 DEF InPlace, BeforeTimer, InSession, SessionOps, SessionPlaces
  <2>3. Alone /\ InSession(u) => Progress(u)'
    BY <1>0, <1>1, <2>1 DEF Progress, InPlace, InSession, SessionOps
  <2> QED BY <1>0, <1>1, <2>2, <2>3, SavedGo
<1>2. CASE ShowList(u) \/ LockList(u)
  BY <1>1, <1>2 DEF ShowList, LockList
<1>3. CASE SelectFirst(u) /\ call[u].op = "start"
  BY <1>1, <1>3 DEF SelectFirst
<1>4. CASE SelectFirst(u) /\ call[u].op = "category"
  BY <1>0, <1>4, SavedReturn DEF SelectFirst, InSession, SessionOps
<1> QED BY <1>2, <1>3, <1>4 DEF SelectFirst

\* The handlers of the menu, and the closing, do not touch the session.
LEMMA SavedMenu ==
  ASSUME SavedInv, MenuStep \/ Disconnect
  PROVE  SavedParts'
<1> DEFINE Here == {"lock overlay", "move", "launch", "check selected", "show image",
                    "select clicked", "closing"}
<1>0. "ui" \in Threads /\ InPlace("ui")
  BY DEF SavedInv, SavedParts, Threads
<1>1. at["ui"] \in Here => ~ InSession("ui")
  BY <1>0 DEF InPlace, InSession, SessionOps, BeforeTimer
<1>2. UNCHANGED <<running, endTime, ini, seen>>
  BY DEF MenuStep, LockOverlay, IgnoreData, Move, Launch, CheckSelected, ShowImage, SelectClicked,
     Disconnect, session
<1>3. ASSUME NEW from \in Here, NEW to \in Here \cup {"join"}, Go("ui", from, to)
      PROVE  SavedParts'
  <2>1. at["ui"] = from /\ at'["ui"] = to /\ UNCHANGED call
    BY <1>0, <1>3 DEF SavedInv, TypeOK, Go
  <2>2. ~ InSession("ui") /\ ~ InSession("ui")'
    BY <1>1, <1>3, <2>1 DEF InSession
  <2>3. InPlace("ui")'
    BY <1>3, <2>1, <2>2 DEF InPlace, InSession, SessionOps, SessionPlaces
  <2> QED BY <1>0, <1>2, <1>3, <2>2, <2>3, SavedGo
<1>4. ASSUME NEW from \in Here, Return("ui", from)
      PROVE  SavedParts'
  <2>1. ~ InSession("ui")
    BY <1>1, <1>4 DEF Return
  <2> QED BY <1>0, <1>2, <1>4, <2>1, SavedReturn
<1>5. CASE LockOverlay \/ Disconnect
  BY <1>3, <1>5 DEF LockOverlay, Disconnect
<1>6. CASE IgnoreData \/ Move \/ Launch \/ ShowImage \/ SelectClicked
  BY <1>4, <1>6 DEF IgnoreData, Move, Launch, ShowImage, SelectClicked
<1>7. CASE CheckSelected
  BY <1>3, <1>4, <1>7 DEF CheckSelected
<1> QED BY <1>5, <1>6, <1>7 DEF MenuStep

LEMMA SavedBeginning ==
  ASSUME SavedInv, NEW u \in Threads, Receives(u) \/ Happens
  PROVE  SavedParts'
<1>1. "ui" \in Threads
  BY DEF Threads
<1>2. ASSUME NEW n \in Lengths, Start(u, n)
      PROVE  SavedParts'
  <2> DEFINE c == [NoCall EXCEPT !.op = "start", !.length = n]
  <2>1. c.op = "start"
    BY DEF NoCall
  <2>2. Begin(u, c, "forget game") /\ running' /\ UNCHANGED <<endTime, ini, seen>>
    BY <1>2 DEF Start
  <2> HIDE DEF c
  <2> QED BY <2>1, <2>2, SavedBegin DEF Beginnings
<1>3. CASE Add(u)
  <2> DEFINE c == [NoCall EXCEPT !.op = "add"]
  <2>1. c.op = "add"
    BY DEF NoCall
  <2>2. Begin(u, c, "read sum") /\ running /\ UNCHANGED <<running, endTime, ini, seen>>
    BY <1>3 DEF Add, session
  <2> HIDE DEF c
  <2> QED BY <2>1, <2>2, SavedBegin DEF Beginnings
<1>4. CASE Stop(u) \/ TimerTick
  <2> DEFINE c == [NoCall EXCEPT !.op = "stop"]
  <2>1. c.op = "stop"
    BY DEF NoCall
  <2>2. PICK t \in Threads : Begin(t, c, "kill timer") /\ running /\ UNCHANGED <<running, endTime, ini, seen>>
    BY <1>1, <1>4 DEF Stop, TimerTick, session
  <2> HIDE DEF c
  <2> QED BY <2>1, <2>2, SavedBegin DEF Beginnings
<1>5. ASSUME NEW c, NEW label \in {"show list", "lock overlay", "select clicked", "closing", "join"},
             c.op \in {"category", "up", "down", "launch", "click", "close", "ready"},
             Begin("ui", c, label), UNCHANGED <<running, endTime, ini, seen>>
      PROVE  SavedParts'
  <2>1. c.op \notin SessionOps /\ label \notin SessionPlaces
    BY <1>5 DEF SessionOps, SessionPlaces
  <2> QED BY <1>1, <1>5, <2>1, SavedBegin
<1>6. CASE Browse
  BY <1>5, <1>6 DEF Browse, NoCall, session
<1>7. CASE Step
  BY <1>5, <1>7 DEF Step, NoCall, session
<1>8. CASE Click
  BY <1>5, <1>8 DEF Click, NoCall, session
<1>9. CASE Close \/ CloseUnconnected
  BY <1>5, <1>9 DEF Close, CloseUnconnected, NoCall, session
<1>10. ASSUME NEW game \in Games, DataReady(game)
      PROVE  SavedParts'
  BY <1>5, <1>10 DEF DataReady, NoCall, session
<1> QED BY <1>2, <1>3, <1>4, <1>6, <1>7, <1>8, <1>9, <1>10
  DEF Receives, Happens

\* What a process that is down, or has just started, has in hand.
LEMMA IdlePlace == NoCall.op = "none" /\ "idle" \notin SessionPlaces
BY DEF NoCall, SessionPlaces

LEMMA SavedProcess ==
  ASSUME SavedInv, Down \/ Restart
  PROVE  SavedParts'
<1>1. \A t \in Threads : at'[t] = "idle" /\ call'[t] = NoCall
  BY DEF SavedInv, SavedParts, DownForgets, Down, Restart
<1>2. OneAtATime' /\ \A t \in Threads : ~ InSession(t)' /\ InPlace(t)'
  BY <1>1, IdlePlace DEF OneAtATime, InSession, InPlace, SessionOps, Threads
<1>3. CASE Down
  BY <1>1, <1>2, <1>3 DEF Down, SavedParts, DownForgets, Alone
<1>4. CASE Restart
  <2>1. endTime = LongPast
    BY <1>4 DEF SavedInv, SavedParts, DownForgets, Restart
  <2>2. ini' = endTime' /\ (endTime' > 0 => running')
    BY <1>4, <2>1 DEF Restart, LongPast
  <2> QED BY <1>2, <1>4, <2>2 DEF Restart, SavedParts, DownForgets, SavedWhenAlone
<1> QED BY <1>3, <1>4

\* Times that are equal stay so, and none that has passed comes back.
LEMMA SavedTime ==
  ASSUME SavedInv, TimePasses
  PROVE  SavedParts'
<1>1. /\ UNCHANGED <<up, running, at, call, overlapped>>
      /\ endTime' = Passed(endTime) /\ ini' = Passed(ini)
      /\ \A t \in Threads : seen'[t] = Passed(seen[t])
  BY DEF TimePasses
<1>2. endTime = LongPast => endTime' = LongPast
  BY <1>1 DEF Passed
<1>3. endTime' > 0 => endTime > 0
  BY <1>1 DEF SavedInv, TypeOK, Times, Passed, LongPast
<1>4. \A t \in Threads : Progress(t) => Progress(t)'
  BY <1>1, <1>2 DEF Progress
<1>5. SavedWhenAlone => SavedWhenAlone'
  BY <1>1, <1>3 DEF SavedWhenAlone
<1> QED
  BY <1>1, <1>2, <1>4, <1>5
  DEF SavedInv, SavedParts, InPlace, InSession, DownForgets, Alone, OneAtATime

LEMMA SavedStep == SavedInv /\ [Next]_vars => SavedInv'
<1> SUFFICES ASSUME SavedInv, [Next]_vars
             PROVE  SavedParts'
  BY TypeStep, GameClickedStep DEF SavedInv
<1>1. CASE UNCHANGED vars
  BY <1>1 DEF vars, session, SavedInv, SavedParts, InPlace, InSession, DownForgets, Alone,
     OneAtATime, SavedWhenAlone, Progress
<1> QED
  BY <1>1, SavedProcess, SavedTime, SavedSession, SavedList, SavedMenu, SavedBeginning
  DEF Next, GoesOn, Exit, Crash, Threads

\* The end of the session in settings.ini is the one in memory, and belongs to a session
\* that runs, whenever no thread is changing it and the two have not changed it at
\* once: over starts, prolongings, stops, ends of the process and new starts.
\* Inductive is how far an undisturbed handler has come with memory and file.
THEOREM EndsAreSaved == Spec => []SavedWhenAlone
<1>1. Init => SavedInv
  <2> SUFFICES ASSUME Init PROVE SavedParts
    BY TypeInit DEF SavedInv
  <2>1. \A t \in Threads : at[t] = "idle" /\ call[t] = NoCall
    BY DEF Init
  <2>2. \A t \in Threads : InPlace(t)
    BY <2>1, IdlePlace DEF InPlace, InSession, SessionOps
  <2> QED BY <2>1, <2>2 DEF Init, SavedParts, DownForgets, Alone
<1>2. SavedInv => SavedWhenAlone
  <2>1. SavedInv /\ ~ Alone => SavedWhenAlone
    BY DEF Alone, SavedWhenAlone
  <2> QED BY <2>1 DEF SavedInv, SavedParts
<1> QED BY <1>1, <1>2, SavedStep, PTL DEF Spec
=============================================================================
