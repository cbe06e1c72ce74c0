------------------------------- MODULE Station -------------------------------
(***************************************************************************)
(* The station application: the session of a guest and the game menu.      *)
(*                                                                         *)
(* Two threads run the same code on the same variables.  The UI thread     *)
(* handles one window message at a time: buttons, the session timer, clicks *)
(* in the headset, game data that has arrived.  The receive thread executes *)
(* the commands of the master.  The session variables are shared without a *)
(* lock; the game menu has g_overlayStateMutex ("overlay") and             *)
(* g_VROverlayGameListMutex ("list").  A step is a part of a handler that  *)
(* touches shared state once, or what it does while it holds the mutexes.  *)
(*                                                                         *)
(* Times are counted from the present moment, so that time passes by       *)
(* counting every stored time down; LongPast stands for the time 0 and for *)
(* anything more than a unit ago.                                          *)
(***************************************************************************)
EXTENDS Integers, Sequences

CONSTANTS
  Games,         \* the application ids of the installed games
  NoGame,        \* the null image, and the game of a call that has none
  Categories,    \* g_categories: a sequence of sequences of games
  Lengths,       \* the lengths a session can be started with
  MaxLeft,       \* bound: nobody starts or prolongs a session beyond this
  Uses           \* what happens in a run: a subset of AllUses

AllUses == {"start", "stop", "add", "browse", "step", "click", "close", "crash"}

ASSUME GameAssumption ==
  /\ NoGame \notin Games
  /\ Categories \in Seq(Seq(Games))

ASSUME TimeAssumption ==
  /\ MaxLeft \in Nat
  /\ Lengths \subseteq 1..MaxLeft

ASSUME UseAssumption == Uses \subseteq AllUses

VARIABLES
  up,            \* the process runs
  running,       \* g_SessionRunning
  endTime,       \* g_sessionEndTime
  timer,         \* the window's SESSION_TIMER_ID timer exists
  ini,           \* SessionEndTime in settings.ini
  at,            \* where each thread is
  call,          \* the arguments and local variables of its handler
  seen,          \* the end time it has read, and is about to write
  holder,        \* who holds each mutex
  category,      \* g_selectedCategoryIndexVR, counted from 1; 0 for none
  list,          \* g_currentCategoryGameAppIds_VR
  selected,      \* g_selectedGameIndex, counted from 1; 0 for none
  loading,       \* g_isLoadingGameData
  header,        \* the game whose image g_pSelectedGameHeader is
  fetching,      \* the games whose data is on its way to the UI thread
  overlapped     \* history: the two threads changed the session at once

session == <<running, endTime, timer, ini>>
menu == <<category, list, selected, loading, header, fetching>>
vars == <<up, session, at, call, seen, holder, menu, overlapped>>

Threads == {"ui", "recv"}
Mutexes == {"overlay", "list"}
Nobody == "nobody"

LongPast == -1
Times == Nat \cup {LongPast}

NoCall == [op |-> "none", length |-> 0, game |-> NoGame, index |-> 0]
-----------------------------------------------------------------------------
Labels ==
  { "idle", "forget game", "first category", "show list", "lock list",
    "select first", "set end", "read end", "save end", "set timer", "show time",
    "read sum", "write sum", "kill timer", "not running", "forget end",
    "forget saved", "lock overlay", "move", "launch", "check selected",
    "show image", "select clicked", "closing", "join" }

Ops == {"none", "start", "stop", "add", "category", "up", "down", "launch",
        "click", "ready", "close"}

SessionOps == {"start", "stop", "add"}

Calls ==
  [op : Ops, length : 0..MaxLeft, game : Games \cup {NoGame}, index : Nat]

Free(m) == holder[m] = Nobody

\* Thread t is at one place and goes on at another.
Go(t, from, to) ==
  /\ up
  /\ at[t] = from
  /\ at' = [at EXCEPT ![t] = to]
  /\ UNCHANGED <<up, call, overlapped>>

\* The handler of t returns: the UI thread takes the next message, the receive
\* thread calls recv() again.
Return(t, from) ==
  /\ up
  /\ at[t] = from
  /\ at' = [at EXCEPT ![t] = "idle"]
  /\ call' = [call EXCEPT ![t] = NoCall]
  /\ UNCHANGED <<up, overlapped>>

Other(t) == IF t = "ui" THEN "recv" ELSE "ui"

\* Thread t begins a handler.
Begin(t, c, label) ==
  /\ up
  /\ at[t] = "idle"
  /\ t = "recv" => at["ui"] # "join"
  /\ at' = [at EXCEPT ![t] = label]
  /\ call' = [call EXCEPT ![t] = c]
  /\ overlapped' =
       (overlapped \/ {c.op, call[Other(t)].op} \subseteq SessionOps)
  /\ UNCHANGED up

GamesOf(c) == IF c = 0 THEN <<>> ELSE Categories[c]

FirstCategory == IF Categories = <<>> THEN 0 ELSE 1

\* SAFE_RELEASE of the image of the game selected before.
ReleaseHeader == header' = NoGame

\* A detached thread fetches the data of g and posts WM_APP_GAME_DATA_READY.
\* Two fetches of one game bring the same data: the second repeats the first.
Fetch(g) == fetching' = fetching \cup {g}
-----------------------------------------------------------------------------
(* Starting, prolonging and stopping a session, on either thread.          *)

\* StartSession() and START_SESSION: the session counts as running at once,
\* and has no end yet.
Start(t, n) ==
  /\ "start" \in Uses
  /\ Begin(t, [NoCall EXCEPT !.op = "start", !.length = n], "forget game")
  /\ running' = TRUE
  /\ UNCHANGED <<endTime, timer, ini, seen, holder, menu>>

\* StopSession() and STOP_SESSION.
Stop(t) ==
  /\ "stop" \in Uses
  /\ running
  /\ Begin(t, [NoCall EXCEPT !.op = "stop"], "kill timer")
  /\ UNCHANGED <<session, seen, holder, menu>>

\* AddMoreTimeToSession() and ADD_TIME.
Add(t) ==
  /\ "add" \in Uses
  /\ running
  /\ endTime < MaxLeft
  /\ Begin(t, [NoCall EXCEPT !.op = "add"], "read sum")
  /\ UNCHANGED <<session, seen, holder, menu>>

\* Mutant: the session ends only at the tick that meets its last second.
TimerTickOnTheSecond ==
  /\ timer
  /\ running
  /\ endTime = 0
  /\ Begin("ui", [NoCall EXCEPT !.op = "stop"], "kill timer")
  /\ UNCHANGED <<session, seen, holder, menu>>

\* WM_TIMER: the countdown.  Before the end it only shows the time.
TimerTick ==
  /\ timer
  /\ running
  /\ endTime <= 0
  /\ Begin("ui", [NoCall EXCEPT !.op = "stop"], "kill timer")
  /\ UNCHANGED <<session, seen, holder, menu>>

\* The launcher is reset, under g_overlayStateMutex.
ForgetGame(t) ==
  /\ \/ call[t].op = "start" /\ Go(t, "forget game", "first category")
     \/ call[t].op = "stop" /\ Go(t, "forget game", "show time")
  /\ Free("overlay")
  /\ selected' = 0
  /\ loading' = FALSE
  /\ ReleaseHeader
  /\ UNCHANGED <<session, seen, holder, category, list, fetching>>

\* Under g_categoriesMutex.
ToFirstCategory(t) ==
  /\ Go(t, "first category", "show list")
  /\ category' = FirstCategory
  /\ UNCHANGED <<session, seen, holder, list, selected, loading, header, fetching>>

SetEnd(t) ==
  /\ Go(t, "set end", "read end")
  /\ endTime' = call[t].length
  /\ UNCHANGED <<running, timer, ini, seen, holder, menu>>

\* g_sessionEndTime += ... reads it and writes the sum.
ReadSum(t) ==
  /\ Go(t, "read sum", "write sum")
  /\ seen' = [seen EXCEPT ![t] = IF endTime = LongPast THEN LongPast ELSE endTime + 1]
  /\ UNCHANGED <<session, holder, menu>>

WriteSum(t) ==
  /\ Go(t, "write sum", "read end")
  /\ endTime' = seen[t]
  /\ UNCHANGED <<running, timer, ini, seen, holder, menu>>

\* SaveSessionEndTime(g_sessionEndTime): the argument is read, then written.
ReadEnd(t) ==
  /\ Go(t, "read end", "save end")
  /\ seen' = [seen EXCEPT ![t] = endTime]
  /\ UNCHANGED <<session, holder, menu>>

\* Mutant: added time is not saved.
SaveEndOfStart(t) ==
  /\ \/ call[t].op = "start" /\ Go(t, "save end", "set timer")
     \/ call[t].op = "add" /\ Go(t, "save end", "show time")
  /\ ini' = IF call[t].op = "start" THEN seen[t] ELSE ini
  /\ seen' = [seen EXCEPT ![t] = LongPast]
  /\ UNCHANGED <<running, endTime, timer, holder, menu>>

SaveEnd(t) ==
  /\ \/ call[t].op = "start" /\ Go(t, "save end", "set timer")
     \/ call[t].op = "add" /\ Go(t, "save end", "show time")
  /\ ini' = seen[t]
  /\ seen' = [seen EXCEPT ![t] = LongPast]
  /\ UNCHANGED <<running, endTime, timer, holder, menu>>

StartTimer(t) ==
  /\ Go(t, "set timer", "show time")
  /\ timer' = TRUE
  /\ UNCHANGED <<running, endTime, ini, seen, holder, menu>>

StopTimer(t) ==
  /\ Go(t, "kill timer", "not running")
  /\ timer' = FALSE
  /\ UNCHANGED <<running, endTime, ini, seen, holder, menu>>

NotRunning(t) ==
  /\ Go(t, "not running", "forget end")
  /\ running' = FALSE
  /\ UNCHANGED <<endTime, timer, ini, seen, holder, menu>>

ForgetEnd(t) ==
  /\ Go(t, "forget end", "forget saved")
  /\ endTime' = LongPast
  /\ UNCHANGED <<running, timer, ini, seen, holder, menu>>

ForgetSaved(t) ==
  /\ Go(t, "forget saved", "forget game")
  /\ ini' = LongPast
  /\ UNCHANGED <<running, endTime, timer, seen, holder, menu>>

\* UpdateTimeLeftDisplay(): SetWindowTextW sends the window a message; the
\* receive thread waits until the UI thread takes messages.
ShowTime(t) ==
  /\ Return(t, "show time")
  /\ t = "recv" => at["ui"] = "idle"
  /\ UNCHANGED <<session, seen, holder, menu>>
-----------------------------------------------------------------------------
(* The game menu.                                                          *)

\* UpdateCurrentCategoryGameList_VR(), under g_VROverlayGameListMutex alone.
ShowList(t) ==
  /\ Go(t, "show list", "lock list")
  /\ Free("list")
  /\ list' = GamesOf(category)
  /\ selected' = 0
  /\ loading' = FALSE
  /\ ReleaseHeader
  /\ UNCHANGED <<session, seen, holder, category, fetching>>

LockList(t) ==
  /\ Go(t, "lock list", "select first")
  /\ Free("list")
  /\ holder' = [holder EXCEPT !["list"] = t]
  /\ UNCHANGED <<session, seen, menu>>

\* The first game of the list is selected, under both mutexes.  With an empty
\* list a new session leaves the image as it is, a new category drops it.
SelectFirst(t) ==
  /\ \/ call[t].op = "start" /\ Go(t, "select first", "set end")
     \/ call[t].op = "category" /\ Return(t, "select first")
  /\ Free("overlay")
  /\ holder' = [holder EXCEPT !["list"] = Nobody]
  /\ \/ /\ list # <<>>
        /\ selected' = 1
        /\ loading' = TRUE
        /\ ReleaseHeader
        /\ Fetch(list[1])
     \/ /\ list = <<>>
        /\ selected' = 0
        /\ loading' = FALSE
        /\ header' = IF call[t].op = "start" THEN header ELSE NoGame
        /\ UNCHANGED fetching
  /\ UNCHANGED <<session, seen, category, list>>

\* Mutant: the category below the last one is the one after it.
BrowseTooFar ==
  /\ "browse" \in Uses
  /\ category' = category + 1
  /\ Begin("ui", [NoCall EXCEPT !.op = "category"], "show list")
  /\ UNCHANGED <<session, seen, holder, list, selected, loading, header, fetching>>

\* Another category: the two Simulate Category buttons and a click in the headset.
Browse ==
  /\ "browse" \in Uses
  /\ \E c \in 1..Len(Categories) :
       /\ c # category \/ Len(Categories) = 1
       /\ category' = c
  /\ Begin("ui", [NoCall EXCEPT !.op = "category"], "show list")
  /\ UNCHANGED <<session, seen, holder, list, selected, loading, header, fetching>>

\* Simulate UP, DOWN and SELECT, and the Start button in the headset.
Step ==
  /\ "step" \in Uses
  /\ \E o \in {"up", "down", "launch"} :
       Begin("ui", [NoCall EXCEPT !.op = o], "lock overlay")
  /\ UNCHANGED <<session, seen, holder, menu>>

\* WM_APP_GAME_DATA_READY for game g, in any order.
DataReady(g) ==
  /\ g \in fetching
  /\ Begin("ui", [NoCall EXCEPT !.op = "ready", !.game = g], "lock overlay")
  /\ fetching' = fetching \ {g}
  /\ UNCHANGED <<session, seen, holder, category, list, selected, loading, header>>

LockOverlay ==
  /\ \/ call["ui"].op \in {"up", "down"} /\ Go("ui", "lock overlay", "move")
     \/ call["ui"].op = "launch" /\ Go("ui", "lock overlay", "launch")
     \/ /\ call["ui"].op = "ready"
        /\ selected # 0
        /\ Go("ui", "lock overlay", "check selected")
  /\ Free("overlay")
  /\ holder' = [holder EXCEPT !["overlay"] = "ui"]
  /\ UNCHANGED <<session, seen, menu>>

\* The data of a game is of no use while none is selected.
IgnoreData ==
  /\ Return("ui", "lock overlay")
  /\ call["ui"].op = "ready"
  /\ selected = 0
  /\ Free("overlay")
  /\ UNCHANGED <<session, seen, holder, menu>>

Unlock(m) == holder' = [holder EXCEPT ![m] = Nobody]

\* The game above or below in the list, in a circle; a selection beyond the list
\* goes to its first game.
Moved(op) ==
  IF op = "up"
  THEN IF selected <= 1 THEN Len(list)
       ELSE IF selected - 1 > Len(list) THEN 1 ELSE selected - 1
  ELSE IF selected = 0 \/ selected >= Len(list) THEN 1 ELSE selected + 1

Move ==
  /\ Return("ui", "move")
  /\ Free("list")
  /\ Unlock("overlay")
  /\ \/ /\ list # <<>>
        /\ selected' = Moved(call["ui"].op)
        /\ loading' = TRUE
        /\ ReleaseHeader
        /\ Fetch(list[selected'])
     \/ /\ list = <<>>
        /\ loading' = FALSE
        /\ UNCHANGED <<selected, header, fetching>>
  /\ UNCHANGED <<session, seen, category, list>>

\* The selected game is launched: it is read under both mutexes.
Launch ==
  /\ Return("ui", "launch")
  /\ Free("list")
  /\ Unlock("overlay")
  /\ UNCHANGED <<session, seen, menu>>

IsSelected(g) == selected \in 1..Len(list) /\ list[selected] = g

\* Mutant: whichever game is selected gets the image that has arrived.
CheckSelectedAny ==
  /\ Free("list")
  /\ \/ /\ selected # 0
        /\ Go("ui", "check selected", "show image")
        /\ UNCHANGED holder
     \/ /\ selected = 0
        /\ Return("ui", "check selected")
        /\ Unlock("overlay")
  /\ UNCHANGED <<session, seen, menu>>

\* Is the selected game, if there still is one, the one whose data has come?
\* g_VROverlayGameListMutex is given back before the image is shown,
\* g_overlayStateMutex is kept.
CheckSelected ==
  LET wanted == IsSelected(call["ui"].game)
  IN
    /\ Free("list")
    /\ \/ /\ wanted
          /\ Go("ui", "check selected", "show image")
          /\ UNCHANGED holder
       \/ /\ ~ wanted
          /\ Return("ui", "check selected")
          /\ Unlock("overlay")
    /\ UNCHANGED <<session, seen, menu>>

\* The data of a game may be without an image.
ShowImage ==
  /\ Return("ui", "show image")
  /\ Unlock("overlay")
  /\ header' \in {call["ui"].game, NoGame}
  /\ loading' = FALSE
  /\ UNCHANGED <<session, seen, category, list, selected, fetching>>

\* A click on a game in the headset: the list is copied under its mutex.
Click ==
  /\ "click" \in Uses
  /\ Free("list")
  /\ category # 0
  /\ \E i \in 1..Len(list) :
       Begin("ui", [NoCall EXCEPT !.op = "click", !.game = list[i], !.index = i],
             "select clicked")
  /\ UNCHANGED <<session, seen, holder, menu>>

\* The game is selected under the other mutex, unless it is loading already.
SelectClicked ==
  LET c == call["ui"]
  IN
    /\ Return("ui", "select clicked")
    /\ Free("overlay")
    /\ \/ /\ selected # c.index \/ ~ loading
          /\ selected' = c.index
          /\ loading' = TRUE
          /\ ReleaseHeader
          /\ Fetch(c.game)
       \/ /\ selected = c.index /\ loading
          /\ UNCHANGED <<selected, loading, header, fetching>>
    /\ UNCHANGED <<session, seen, holder, category, list>>
-----------------------------------------------------------------------------
(* The process: closing, crashing, starting again; and the clock.          *)

\* WM_CLOSE of a connected station: it tells the master, waits 100 ms, closes
\* the socket and waits for the receive thread.
Close ==
  /\ "close" \in Uses
  /\ Begin("ui", [NoCall EXCEPT !.op = "close"], "closing")
  /\ UNCHANGED <<session, seen, holder, menu>>

Disconnect ==
  /\ Go("ui", "closing", "join")
  /\ UNCHANGED <<session, seen, holder, menu>>

\* Without a connection WM_DESTROY comes first, and kills the timers.
CloseUnconnected ==
  /\ "close" \in Uses
  /\ Begin("ui", [NoCall EXCEPT !.op = "close"], "join")
  /\ timer' = FALSE
  /\ UNCHANGED <<running, endTime, ini, seen, holder, menu>>

\* Whatever was in memory is gone; settings.ini stays.
Down ==
  /\ up
  /\ up' = FALSE
  /\ running' = FALSE
  /\ endTime' = LongPast
  /\ timer' = FALSE
  /\ at' = [t \in Threads |-> "idle"]
  /\ call' = [t \in Threads |-> NoCall]
  /\ seen' = [t \in Threads |-> LongPast]
  /\ holder' = [m \in Mutexes |-> Nobody]
  /\ category' = 0
  /\ list' = <<>>
  /\ selected' = 0
  /\ loading' = FALSE
  /\ header' = NoGame
  /\ fetching' = {}
  /\ overlapped' = FALSE
  /\ UNCHANGED ini

\* The receive thread has returned from its last command, join() returns, and
\* the message loop ends.
Exit ==
  /\ at["ui"] = "join"
  /\ at["recv"] = "idle"
  /\ Down

Crash ==
  /\ "crash" \in Uses
  /\ Down

\* Mutant: a resumed session does not get its timer.
RestartUntimed ==
  /\ ~ up
  /\ up' = TRUE
  /\ category' = FirstCategory
  /\ list' = GamesOf(category')
  /\ running' = (ini > 0)
  /\ endTime' = IF ini > 0 THEN ini ELSE LongPast
  /\ ini' = endTime'
  /\ UNCHANGED <<timer, at, call, seen, holder, selected, loading, header,
                 fetching, overlapped>>

\* WinMain: the end time is loaded, the first category is shown, and
\* ResumeSessionIfNeeded() resumes the session or forgets it.
Restart ==
  /\ ~ up
  /\ up' = TRUE
  /\ category' = FirstCategory
  /\ list' = GamesOf(category')
  /\ \/ /\ ini > 0
        /\ running' = TRUE
        /\ endTime' = ini
        /\ timer' = TRUE
        /\ UNCHANGED ini
     \/ /\ ini <= 0
        /\ ini' = LongPast
        /\ UNCHANGED <<running, endTime, timer>>
  /\ UNCHANGED <<at, call, seen, holder, selected, loading, header, fetching, overlapped>>

Passed(time) == IF time = LongPast THEN LongPast ELSE time - 1

TimePasses ==
  /\ endTime' = Passed(endTime)
  /\ ini' = Passed(ini)
  /\ seen' = [t \in Threads |-> Passed(seen[t])]
  /\ UNCHANGED <<up, running, timer, at, call, holder, menu, overlapped>>
-----------------------------------------------------------------------------
Init ==
  /\ up = FALSE
  /\ running = FALSE
  /\ endTime = LongPast
  /\ timer = FALSE
  /\ ini = LongPast
  /\ at = [t \in Threads |-> "idle"]
  /\ call = [t \in Threads |-> NoCall]
  /\ seen = [t \in Threads |-> LongPast]
  /\ holder = [m \in Mutexes |-> Nobody]
  /\ category = 0
  /\ list = <<>>
  /\ selected = 0
  /\ loading = FALSE
  /\ header = NoGame
  /\ fetching = {}
  /\ overlapped = FALSE

\* What a thread does once it is in a handler.
SessionStep(t) ==
  \/ ForgetGame(t) \/ ToFirstCategory(t) \/ SetEnd(t)
  \/ ReadSum(t) \/ WriteSum(t) \/ ReadEnd(t) \/ SaveEnd(t)
  \/ StartTimer(t) \/ StopTimer(t) \/ NotRunning(t)
  \/ ForgetEnd(t) \/ ForgetSaved(t) \/ ShowTime(t)

MenuStep ==
  \/ LockOverlay \/ IgnoreData \/ Move \/ Launch
  \/ CheckSelected \/ ShowImage \/ SelectClicked

GoesOn(t) ==
  \/ SessionStep(t)
  \/ ShowList(t) \/ LockList(t) \/ SelectFirst(t)
  \/ t = "ui" /\ (MenuStep \/ Disconnect \/ Exit)

\* What begins a handler.
Receives(t) == (\E n \in Lengths : Start(t, n)) \/ Stop(t) \/ Add(t)

Happens ==
  \/ TimerTick \/ Browse \/ Step \/ Click \/ Close \/ CloseUnconnected
  \/ \E g \in Games : DataReady(g)

Next ==
  \/ \E t \in Threads : GoesOn(t) \/ Receives(t)
  \/ Happens
  \/ Crash
  \/ Restart
  \/ TimePasses

Spec == Init /\ [][Next]_vars

\* A thread in a handler runs on and gets a mutex in the end if that is free
\* again and again; WM_TIMER comes when the queue is empty; time passes.
Fairness ==
  /\ \A t \in Threads : SF_vars(GoesOn(t))
  /\ SF_vars(TimerTick)
  /\ WF_vars(TimePasses)

LiveSpec == Spec /\ Fairness
-----------------------------------------------------------------------------
TypeOK ==
  /\ up \in BOOLEAN /\ running \in BOOLEAN /\ timer \in BOOLEAN
  /\ endTime \in Times /\ ini \in Times /\ seen \in [Threads -> Times]
  /\ at \in [Threads -> Labels]
  /\ call \in [Threads -> Calls]
  /\ holder \in [Mutexes -> Threads \cup {Nobody}]
  /\ category \in 0..Len(Categories)
  /\ list \in Seq(Games)
  /\ selected \in Nat
  /\ loading \in BOOLEAN
  /\ header \in Games \cup {NoGame}
  /\ fetching \subseteq Games
  /\ overlapped \in BOOLEAN

\* Between running = TRUE and SetTimer, and between KillTimer and running = FALSE.
BeforeTimer ==
  {"forget game", "first category", "show list", "lock list", "select first",
   "set end", "read end", "save end", "set timer"}

Starting(t) == call[t].op = "start" /\ at[t] \in BeforeTimer

Stopping(t) == call[t].op = "stop" /\ at[t] = "not running"

\* A session that runs has its timer, or somebody is about to set it or about to
\* end the session: whatever StartSessionTimer() and StopSessionTimer() do to one
\* another without a lock, no session is left running that nothing will end.
RunningIsTimed ==
  running => \/ timer
             \/ \E t \in Threads : Starting(t) \/ Stopping(t)
             \/ at["ui"] = "join"

\* The image in the details panel is that of the selected game, although its data
\* comes late, out of order, and while the list changes on another thread.
ImageIsSelected ==
  (header # NoGame /\ selected \in 1..Len(list)) => header = list[selected]

\* As long as the two threads have not changed the session at the same time, the
\* end time in settings.ini is the one in memory, and belongs to a running session.
SavedWhenAlone ==
  (up /\ ~ overlapped /\ \A t \in Threads : call[t].op \notin SessionOps) =>
    /\ ini = endTime
    /\ endTime > 0 => running

\* Each thread holds the mutex the other waits for.
Crossed ==
  /\ at["recv"] = "select first"
  /\ holder["overlay"] = "ui"
  /\ at["ui"] \in {"move", "launch", "check selected"}

\* The closing UI thread waits for the receive thread, which waits for the window.
JoinWaits == at["ui"] = "join" /\ at["recv"] = "show time"

Overdue == running /\ endTime <= 0

\* The countdown: a session whose time is up ends, or has been given a new end, by
\* the station itself, also when a start or a stop is cut short by the other thread,
\* unless the threads wait for one another in one of these two ways.
EndsUnlessStuck == Overdue ~> (~ running \/ endTime > 0 \/ Crossed \/ JoinWaits)
=============================================================================
