------------------------------ MODULE Launcher ------------------------------
(***************************************************************************)
(* Starting and ending games on a station (steam_games.cpp, globals.cpp,   *)
(* session.cpp, window_proc.cpp).  The window's thread launches games and  *)
(* runs the countdown, the receive thread stops sessions for the master;   *)
(* they share g_customGamePID and g_runningCustomGameAppId without a lock. *)
(* Of the session only whether one runs matters here (Station has the      *)
(* rest).                                                                  *)
(***************************************************************************)
EXTENDS Naturals

CONSTANTS
  Games,     \* every game on the menu
  Custom,    \* those that are custom games
  InVR,      \* those that become SteamVR's scene application
  Pids,      \* bound: processes at a time
  NoGame, NoPid

ASSUME LauncherAssumption ==
  /\ Custom \subseteq Games /\ InVR \subseteq Games /\ Games \ Custom \subseteq InVR
  /\ NoGame \notin Games /\ NoPid \notin Pids

VARIABLES
  process,      \* the system: process number -> the game that runs, if any
  scene,        \* SteamVR: the process of the current scene application
  customPID,    \* g_customGamePID
  runningId,    \* g_runningCustomGameAppId
  session,      \* g_SessionRunning
  thread,       \* where the window's thread and the receive thread are
  loose,        \* history: processes the station has lost sight of
  since         \* history: processes launched since the last stop began, or the
                \* session ended without one

tracked == <<customPID, runningId>>
vars == <<process, scene, tracked, session, thread, loose, since>>

\* A thread that does nothing.
Rests == [at |-> "idle", game |-> NoGame, pid |-> NoPid]

TypeOK ==
  /\ process \in [Pids -> Games \cup {NoGame}]
  /\ scene \in Pids \cup {NoPid}
  /\ customPID \in Pids \cup {NoPid} /\ runningId \in Games \cup {NoGame}
  /\ session \in BOOLEAN
  /\ thread \in [{"ui", "recv"} ->
       [at : {"idle", "replace", "again", "start", "learn", "end", "forget", "quit"},
        game : Games \cup {NoGame}, pid : Pids \cup {NoPid}]]
  /\ thread["recv"].at \in {"idle", "end", "forget", "quit"}
  /\ loose \subseteq Pids /\ since \subseteq Pids

Init ==
  /\ process = [p \in Pids |-> NoGame] /\ scene = NoPid
  /\ customPID = NoPid /\ runningId = NoGame
  /\ session = FALSE /\ thread = [t \in {"ui", "recv"} |-> Rests]
  /\ loose = {} /\ since = {}
-----------------------------------------------------------------------------
Goes(t, place) == thread' = [thread EXCEPT ![t] = place]

Runs(p) == p # NoPid /\ process[p] # NoGame

\* Process p ends, and is nobody's any more.
Ends(p) ==
  /\ process' = [q \in Pids |-> IF q = p THEN NoGame ELSE process[q]]
  /\ scene' = IF scene = p THEN NoPid ELSE scene
  /\ loose' = loose \ {p} /\ since' = since \ {p}

\* KillProcessByPID, whose callers do not look at its result: when the process
\* cannot be opened or ended, it runs on.
RunsOn(p) == Runs(p) /\ UNCHANGED <<process, scene, since>>

\* The process whose number is about to be forgotten is ended, or lost sight of.
EndsOrLoses(p) == Ends(p) \/ (RunsOn(p) /\ loose' = loose \cup {p})

\* A custom game other than g runs, as far as the station knows.
DifferentNever(g) == FALSE

Different(g) == customPID # NoPid /\ runningId \notin {NoGame, g}

\* Where a launch goes on when no other custom game is in its way.
Onwards(g) == IF g \in Custom THEN "again" ELSE "start"

\* LaunchGame, from the menu in the headset or the window.
LaunchGame(g) ==
  /\ thread["ui"].at = "idle"
  /\ Goes("ui", [Rests EXCEPT !.game = g, !.at = IF Different(g) THEN "replace" ELSE Onwards(g)])
  /\ UNCHANGED <<process, scene, tracked, session, loose, since>>

\* A different custom game is ended first.
Replace ==
  /\ thread["ui"].at = "replace"
  /\ EndsOrLoses(customPID)
  /\ customPID' = NoPid /\ runningId' = NoGame
  /\ Goes("ui", [thread["ui"] EXCEPT !.at = Onwards(thread["ui"].game)])
  /\ UNCHANGED session

\* OpenProcess tells whether the same custom game still runs.  It may also fail
\* for one that runs, and find one that has ended while somebody has a handle.
Again ==
  /\ thread["ui"].at = "again"
  /\ \/ /\ customPID = NoPid \/ runningId # thread["ui"].game
        /\ Goes("ui", [thread["ui"] EXCEPT !.at = "start"])
        /\ UNCHANGED <<tracked, loose>>
     \/ /\ customPID # NoPid /\ runningId = thread["ui"].game
        /\ Goes("ui", Rests)
        /\ UNCHANGED <<tracked, loose>>
     \/ /\ customPID # NoPid /\ runningId = thread["ui"].game
        /\ Goes("ui", [thread["ui"] EXCEPT !.at = "start"])
        /\ customPID' = NoPid /\ runningId' = NoGame
        /\ loose' = IF Runs(customPID) THEN loose \cup {customPID} ELSE loose
  /\ UNCHANGED <<process, scene, session, since>>

\* No executable, no SteamVR, or SteamVR refuses.
LaunchFails ==
  /\ thread["ui"].at = "start"
  /\ Goes("ui", Rests)
  /\ UNCHANGED <<process, scene, tracked, session, loose, since>>

\* SteamVR starts the process; its number is one nobody remembers.
Launched ==
  /\ thread["ui"].at = "start"
  /\ \E p \in Pids \ {customPID, thread["recv"].pid} :
       /\ ~ Runs(p) /\ \A q \in Pids \ {customPID, thread["recv"].pid} : Runs(q) \/ p <= q
       /\ process' = [process EXCEPT ![p] = thread["ui"].game]
       /\ since' = since \cup {p}
       /\ Goes("ui", IF thread["ui"].game \in Custom
                     THEN [thread["ui"] EXCEPT !.at = "learn", !.pid = p] ELSE Rests)
  /\ UNCHANGED <<scene, tracked, session, loose>>

\* Ten attempts to learn the number of a custom game's process.
Learn ==
  /\ thread["ui"].at = "learn"
  /\ Goes("ui", Rests)
  /\ \/ /\ Runs(thread["ui"].pid)
        /\ customPID' = thread["ui"].pid /\ runningId' = thread["ui"].game
        /\ UNCHANGED loose
     \/ /\ loose' = IF Runs(thread["ui"].pid) THEN loose \cup {thread["ui"].pid} ELSE loose
        /\ UNCHANGED tracked
  /\ UNCHANGED <<process, scene, session, since>>
-----------------------------------------------------------------------------
\* A session starts, on either thread.
StartSession ==
  /\ ~ session
  /\ session' = TRUE
  /\ UNCHANGED <<process, scene, tracked, thread, loose, since>>

\* What StopSession does first.
FirstQuits == "quit"

First == IF customPID # NoPid THEN "end" ELSE "quit"

\* StopSession, by the button or for the master.
StopSession(t) ==
  /\ session /\ thread[t].at = "idle"
  /\ session' = FALSE
  /\ since' = {thread["ui"].pid} \ {NoPid}
  /\ Goes(t, [Rests EXCEPT !.at = First])
  /\ UNCHANGED <<process, scene, tracked, loose>>

EndGame(t) ==
  /\ thread[t].at = "end"
  /\ EndsOrLoses(customPID)
  /\ Goes(t, [thread[t] EXCEPT !.at = "forget", !.pid = customPID])
  /\ UNCHANGED <<tracked, session>>

\* By now the other thread may have launched another game.
ForgetGame(t) ==
  /\ thread[t].at = "forget"
  /\ customPID' = NoPid /\ runningId' = NoGame
  /\ loose' = IF Runs(customPID) THEN loose \cup {customPID} ELSE loose
  /\ Goes(t, [Rests EXCEPT !.at = "quit"])
  /\ UNCHANGED <<process, scene, session, since>>

\* OpenVR may not be there, and the kill may fail here, too.
QuitVRApp(t) ==
  /\ thread[t].at = "quit"
  /\ Ends(scene) \/ UNCHANGED <<process, scene, loose, since>>
  /\ Goes(t, Rests)
  /\ UNCHANGED <<tracked, session>>

\* The countdown ends the session with QuitVRApp alone.
TimeUp ==
  /\ session /\ thread["ui"].at = "idle"
  /\ session' = FALSE
  /\ since' = {p \in Pids : Runs(p)}
  /\ Goes("ui", [Rests EXCEPT !.at = "quit"])
  /\ UNCHANGED <<process, scene, tracked, loose>>
-----------------------------------------------------------------------------
\* A game ends by itself.
GameExits(p) ==
  /\ Runs(p)
  /\ Ends(p)
  /\ UNCHANGED <<tracked, session, thread>>

\* A game is up and is the scene application; SteamVR ends the one before.
BecomesScene(p) ==
  /\ Runs(p) /\ process[p] \in InVR /\ scene # p
  /\ scene' = p
  /\ process' = [q \in Pids |-> IF q = scene THEN NoGame ELSE process[q]]
  /\ loose' = loose \ {scene} /\ since' = since \ {scene}
  /\ UNCHANGED <<tracked, session, thread>>

\* The station's program ends and starts again; games and the session stay.
Restart ==
  /\ customPID' = NoPid /\ runningId' = NoGame
  /\ thread' = [t \in {"ui", "recv"} |-> Rests]
  /\ loose' = loose \cup {p \in {customPID, thread["ui"].pid} : Runs(p)}
  /\ UNCHANGED <<process, scene, session, since>>

Next ==
  \/ \E g \in Games : LaunchGame(g)
  \/ Replace \/ Again \/ LaunchFails \/ Launched \/ Learn
  \/ StartSession \/ TimeUp
  \/ \E t \in {"ui", "recv"} : StopSession(t) \/ EndGame(t) \/ ForgetGame(t) \/ QuitVRApp(t)
  \/ \E p \in Pids : GameExits(p) \/ BecomesScene(p)
  \/ Restart

Spec == Init /\ [][Next]_vars
-----------------------------------------------------------------------------
(* Properties. *)

\* A custom game is never left running beside another: each one that runs is the
\* one the station would end next, or is just being launched, or its number could
\* not be learnt, or it could not be ended or asked after when it should have been,
\* or the station restarted, or a stop forgot it that began before it was launched.
OneCustomGame ==
  \A p \in Pids : process[p] \in Custom => p \in {customPID, thread["ui"].pid} \cup loose

\* When a stop is over, no custom game of that session runs, whatever the window's
\* thread was launching meanwhile, except those the station has lost sight of, as
\* above: one whose end failed is forgotten all the same, and never tried again.
\* The countdown leaves them running.
StopEndsTheGame ==
  ~ session /\ (\A t \in {"ui", "recv"} : thread[t].at \notin {"end", "forget", "quit"}) =>
    \A p \in Pids : process[p] \in Custom => p \in since \cup loose
=============================================================================
