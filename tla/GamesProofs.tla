---------------------------- MODULE GamesProofs ----------------------------
(***************************************************************************)
(* Theorems about a station's games: launching and ending them (Launcher), *)
(* the list of custom games and its file (CustomGames), the categories and *)
(* their copy in settings.ini (Categories), and the three together as they *)
(* are model-checked (MCGames), for any values of the constants.           *)
(***************************************************************************)
EXTENDS MCGames, SequenceTheorems, WellFoundedInduction, TLAPS

(***************************************************************************)
(* Launching and ending games.                                             *)
(***************************************************************************)

\* Where a launch is between its first look at the game that runs and the end.
Launching == thread["ui"].at \in {"replace", "again", "start", "learn"}

\* What the window's thread knows where it is.
LaunchInv ==
  /\ Launching => thread["ui"].game \in Games
  /\ thread["ui"].at \in {"again", "learn"} => thread["ui"].game \in Custom
  /\ thread["ui"].at = "again" => customPID = NoPid \/ runningId = thread["ui"].game
  /\ thread["ui"].at \in {"start", "learn"} /\ thread["ui"].game \in Custom => customPID = NoPid
  /\ thread["ui"].at = "learn" => thread["ui"].pid \in Pids

\* What is remembered: a process number only where it is used, a game wherever
\* there is a process.
MemoryInv ==
  /\ thread["ui"].at \notin {"learn", "forget"} => thread["ui"].pid = NoPid
  /\ thread["ui"].at = "forget" /\ Runs(thread["ui"].pid) => thread["ui"].pid \in loose
  /\ customPID # NoPid => runningId # NoGame

\* Without a session a custom game runs on only when it was launched since, is
\* lost, or is about to be ended.
StopInv ==
  ~ session =>
    \A p \in Pids : process[p] \in Custom =>
      p \in since \cup loose \/ (p = customPID /\ \E t \in {"ui", "recv"} : thread[t].at = "end")

LauncherInv == TypeOK /\ LaunchInv /\ MemoryInv /\ OneCustomGame /\ StopInv
-----------------------------------------------------------------------------
(* The steps, one lemma each. *)

\* The thread that goes is where it goes, the other is where it was.
LEMMA GoesThere ==
  ASSUME TypeOK, NEW t \in {"ui", "recv"}, NEW place, Goes(t, place)
  PROVE  /\ thread'[t] = place
         /\ \A u \in {"ui", "recv"} \ {t} : thread'[u] = thread[u]
BY DEF TypeOK, Goes

\* Where a thread can go.
Places ==
  [at : {"idle", "replace", "again", "start", "learn", "end", "forget", "quit"},
   game : Games \cup {NoGame}, pid : Pids \cup {NoPid}]

LEMMA GoesType ==
  ASSUME TypeOK, NEW t \in {"ui", "recv"}, NEW place \in Places, Goes(t, place),
         t = "recv" => place.at \in {"idle", "end", "forget", "quit"}
  PROVE  /\ thread' \in [{"ui", "recv"} -> Places]
         /\ thread'["recv"].at \in {"idle", "end", "forget", "quit"}
BY DEF TypeOK, Goes, Places

LEMMA RestsType == Rests \in Places /\ Rests.at = "idle" /\ Rests.pid = NoPid
BY DEF Rests, Places

\* Whatever ends, the types are kept, no process starts, and what ended is nobody's.
LEMMA EndsKeeps ==
  ASSUME TypeOK, NEW p, Ends(p)
  PROVE  /\ process' \in [Pids -> Games \cup {NoGame}] /\ scene' \in Pids \cup {NoPid}
         /\ loose' \subseteq Pids /\ since' \subseteq Pids
         /\ \A q \in Pids : process'[q] # NoGame =>
              process'[q] = process[q] /\ q # p
              /\ (q \in loose => q \in loose') /\ (q \in since => q \in since')
BY LauncherAssumption DEF TypeOK, Ends

\* The same when the process may run on, which the station then loses.
LEMMA EndsOrLosesKeeps ==
  ASSUME TypeOK, NEW p \in Pids \cup {NoPid}, EndsOrLoses(p)
  PROVE  /\ process' \in [Pids -> Games \cup {NoGame}] /\ scene' \in Pids \cup {NoPid}
         /\ loose' \subseteq Pids /\ since' \subseteq Pids
         /\ \A q \in Pids : process'[q] # NoGame =>
              process'[q] = process[q] /\ (q = p => q \in loose')
              /\ (q \in loose => q \in loose') /\ (q \in since => q \in since')
<1>1. CASE Ends(p)
  BY <1>1, EndsKeeps
<1>2. CASE RunsOn(p) /\ loose' = loose \cup {p}
  BY <1>2 DEF TypeOK, RunsOn, Runs
<1> QED BY <1>1, <1>2 DEF EndsOrLoses

\* A process that does not run now, and did not start, does not run.
LEMMA CustomRuns ==
  /\ NoGame \notin Custom
  /\ \A p \in Pids : p # NoPid
BY LauncherAssumption

LEMMA LaunchGameStep ==
  ASSUME LauncherInv, NEW g \in Games, LaunchGame(g)
  PROVE  LauncherInv'
<1> DEFINE place == [Rests EXCEPT !.game = g, !.at = IF Different(g) THEN "replace" ELSE Onwards(g)]
<1>1. /\ place \in Places /\ place.game = g /\ place.pid = NoPid
      /\ place.at = IF Different(g) THEN "replace" ELSE Onwards(g)
  BY DEF Places, Rests, Onwards
<1>2. Goes("ui", place) /\ thread["ui"].at = "idle"
  BY DEF LaunchGame
<1> HIDE DEF place
<1>3. thread'["ui"] = place /\ thread'["recv"] = thread["recv"]
  BY <1>2, GoesThere DEF LauncherInv
<1>4. TypeOK'
  BY <1>1, <1>2, GoesType DEF LauncherInv, TypeOK, LaunchGame, tracked, Places
<1>5. LaunchInv' /\ MemoryInv'
  BY <1>1, <1>2, <1>3 DEF LauncherInv, LaunchInv, Launching, MemoryInv, LaunchGame, tracked, Different, Onwards, Runs
<1>6. OneCustomGame' /\ StopInv'
  BY <1>1, <1>2, <1>3, CustomRuns DEF LauncherInv, OneCustomGame, StopInv, MemoryInv, LaunchGame, tracked
<1> QED BY <1>4, <1>5, <1>6 DEF LauncherInv

LEMMA ThreadType ==
  ASSUME TypeOK, NEW t \in {"ui", "recv"}
  PROVE  thread[t] \in Places
BY DEF TypeOK, Places

LEMMA ReplaceStep ==
  ASSUME LauncherInv, Replace
  PROVE  LauncherInv'
<1> DEFINE place == [thread["ui"] EXCEPT !.at = Onwards(thread["ui"].game)]
<1>1. /\ place \in Places /\ place.game = thread["ui"].game /\ place.pid = thread["ui"].pid
      /\ place.at = Onwards(thread["ui"].game)
  <2>1. thread["ui"] \in Places
    BY ThreadType DEF LauncherInv
  <2> QED BY <2>1 DEF Onwards, Places
<1>2. Goes("ui", place) /\ thread["ui"].at = "replace"
  BY DEF Replace
<1> HIDE DEF place
<1>3. thread'["ui"] = place /\ thread'["recv"] = thread["recv"]
  BY <1>2, GoesThere DEF LauncherInv
<1>4. TypeOK'
  BY <1>1, <1>2, GoesType, EndsOrLosesKeeps DEF LauncherInv, TypeOK, Replace, Places
<1>5. LaunchInv' /\ MemoryInv'
  BY <1>1, <1>2, <1>3 DEF LauncherInv, LaunchInv, Launching, MemoryInv, Replace, Onwards
<1>6. OneCustomGame' /\ StopInv'
  <2>1. \A q \in Pids : process'[q] \in Custom =>
          process[q] \in Custom /\ (q = customPID => q \in loose')
          /\ (q \in loose => q \in loose') /\ (q \in since => q \in since')
    BY EndsOrLosesKeeps, CustomRuns DEF LauncherInv, TypeOK, Replace
  <2> QED
    BY <1>1, <1>2, <1>3, <2>1, CustomRuns DEF LauncherInv, OneCustomGame, StopInv, MemoryInv, Replace
<1> QED BY <1>4, <1>5, <1>6 DEF LauncherInv

LEMMA AgainStep ==
  ASSUME LauncherInv, Again
  PROVE  LauncherInv'
<1> DEFINE onwards == [thread["ui"] EXCEPT !.at = "start"]
<1>1. /\ onwards \in Places /\ onwards.game = thread["ui"].game /\ onwards.pid = thread["ui"].pid
      /\ onwards.at = "start"
  BY ThreadType DEF LauncherInv, Places
<1>2. thread["ui"].at = "again"
  BY DEF Again
<1>3. CASE Goes("ui", onwards) /\ (customPID = NoPid \/ runningId # thread["ui"].game) /\ UNCHANGED <<tracked, loose>>
  <2> HIDE DEF onwards
  <2>1. thread'["ui"] = onwards /\ thread'["recv"] = thread["recv"]
    BY <1>3, GoesThere DEF LauncherInv
  <2>2. TypeOK'
    BY <1>1, <1>3, GoesType DEF LauncherInv, TypeOK, Again, Places, tracked
  <2>3. LaunchInv' /\ MemoryInv'
    BY <1>1, <1>2, <1>3, <2>1 DEF LauncherInv, LaunchInv, Launching, MemoryInv, Again, tracked, Runs
  <2>4. OneCustomGame' /\ StopInv'
    BY <1>1, <1>2, <1>3, <2>1, CustomRuns DEF LauncherInv, OneCustomGame, StopInv, MemoryInv, Again, tracked
  <2> QED BY <2>2, <2>3, <2>4 DEF LauncherInv
<1>4. CASE Goes("ui", Rests) /\ UNCHANGED <<tracked, loose>>
  <2>1. thread'["ui"] = Rests /\ thread'["recv"] = thread["recv"]
    BY <1>4, GoesThere DEF LauncherInv
  <2>2. TypeOK'
    BY <1>4, RestsType, GoesType DEF LauncherInv, TypeOK, Again, Places, tracked
  <2>3. LaunchInv' /\ MemoryInv'
    BY <1>4, RestsType, <2>1 DEF LauncherInv, LaunchInv, Launching, MemoryInv, Again, tracked, Runs
  <2>4. OneCustomGame' /\ StopInv'
    BY <1>2, <1>4, RestsType, <2>1, CustomRuns DEF LauncherInv, OneCustomGame, StopInv, MemoryInv, Again, tracked
  <2> QED BY <2>2, <2>3, <2>4 DEF LauncherInv
<1>5. CASE Goes("ui", onwards) /\ customPID' = NoPid /\ runningId' = NoGame
           /\ loose' = IF Runs(customPID) THEN loose \cup {customPID} ELSE loose
  <2> HIDE DEF onwards
  <2>1. thread'["ui"] = onwards /\ thread'["recv"] = thread["recv"]
    BY <1>5, GoesThere DEF LauncherInv
  <2>2. TypeOK'
    BY <1>1, <1>5, GoesType DEF LauncherInv, TypeOK, Again, Places
  <2>3. LaunchInv' /\ MemoryInv'
    BY <1>1, <1>2, <1>5, <2>1 DEF LauncherInv, LaunchInv, Launching, MemoryInv, Again, Runs
  <2>4. OneCustomGame' /\ StopInv'
    BY <1>1, <1>2, <1>5, <2>1, CustomRuns DEF LauncherInv, OneCustomGame, StopInv, MemoryInv, Again, Runs
  <2> QED BY <2>2, <2>3, <2>4 DEF LauncherInv
<1> QED BY <1>3, <1>4, <1>5 DEF Again

LEMMA LaunchFailsStep ==
  ASSUME LauncherInv, LaunchFails
  PROVE  LauncherInv'
<1>1. Goes("ui", Rests) /\ thread["ui"].at = "start"
  BY DEF LaunchFails
<1>2. thread'["ui"] = Rests /\ thread'["recv"] = thread["recv"]
  BY <1>1, GoesThere DEF LauncherInv
<1>3. TypeOK'
  BY <1>1, RestsType, GoesType DEF LauncherInv, TypeOK, LaunchFails, Places, tracked
<1>4. LaunchInv' /\ MemoryInv'
  BY <1>2, RestsType DEF LauncherInv, LaunchInv, Launching, MemoryInv, LaunchFails, tracked
<1>5. OneCustomGame' /\ StopInv'
  BY <1>1, <1>2, RestsType, CustomRuns
  DEF LauncherInv, OneCustomGame, StopInv, MemoryInv, LaunchFails, tracked
<1> QED BY <1>3, <1>4, <1>5 DEF LauncherInv

LEMMA LaunchedStep ==
  ASSUME LauncherInv, Launched
  PROVE  LauncherInv'
<1> DEFINE learn(p) == [thread["ui"] EXCEPT !.at = "learn", !.pid = p]
<1>1. PICK p \in Pids :
        /\ ~ Runs(p)
        /\ process' = [process EXCEPT ![p] = thread["ui"].game]
        /\ since' = since \cup {p}
        /\ Goes("ui", IF thread["ui"].game \in Custom THEN learn(p) ELSE Rests)
  BY DEF Launched
<1>2. /\ thread["ui"].at = "start" /\ thread["ui"].game \in Games /\ thread["ui"].pid = NoPid
      /\ UNCHANGED <<scene, customPID, runningId, session, loose>>
  BY DEF Launched, LauncherInv, LaunchInv, Launching, MemoryInv, tracked
<1>3. /\ learn(p) \in Places /\ learn(p).game = thread["ui"].game /\ learn(p).pid = p
      /\ learn(p).at = "learn"
  <2>1. thread["ui"] \in Places
    BY ThreadType DEF LauncherInv
  <2> QED BY <2>1 DEF Places
<1>4. \A q \in Pids : process'[q] = IF q = p THEN thread["ui"].game ELSE process[q]
  BY <1>1 DEF LauncherInv, TypeOK
<1>5. CASE thread["ui"].game \in Custom
  <2>1. thread'["ui"] = learn(p) /\ thread'["recv"] = thread["recv"]
    BY <1>1, <1>5, GoesThere DEF LauncherInv
  <2>2. Goes("ui", learn(p))
    BY <1>1, <1>5
  <2> HIDE DEF learn
  <2>3. TypeOK'
    BY <1>1, <1>2, <1>3, <2>2, GoesType DEF LauncherInv, TypeOK, Places
  <2>4. LaunchInv' /\ MemoryInv'
    BY <1>2, <1>3, <1>5, <2>1 DEF LauncherInv, LaunchInv, Launching, MemoryInv
  <2>5. OneCustomGame' /\ StopInv'
    BY <1>1, <1>2, <1>3, <1>4, <2>1, CustomRuns DEF LauncherInv, OneCustomGame, StopInv
  <2> QED BY <2>3, <2>4, <2>5 DEF LauncherInv
<1>6. CASE thread["ui"].game \notin Custom
  <2>1. thread'["ui"] = Rests /\ thread'["recv"] = thread["recv"]
    BY <1>1, <1>6, GoesThere DEF LauncherInv
  <2>2. Goes("ui", Rests)
    BY <1>1, <1>6
  <2> HIDE DEF learn
  <2>3. TypeOK'
    BY <1>1, <1>2, RestsType, <2>2, GoesType DEF LauncherInv, TypeOK, Places
  <2>4. LaunchInv' /\ MemoryInv'
    BY <1>2, RestsType, <2>1 DEF LauncherInv, LaunchInv, Launching, MemoryInv
  <2>5. OneCustomGame' /\ StopInv'
    BY <1>1, <1>2, RestsType, <1>4, <1>6, <2>1, CustomRuns DEF LauncherInv, OneCustomGame, StopInv
  <2> QED BY <2>3, <2>4, <2>5 DEF LauncherInv
<1> QED BY <1>5, <1>6

LEMMA LearnStep ==
  ASSUME LauncherInv, Learn
  PROVE  LauncherInv'
<1>1. Goes("ui", Rests) /\ thread["ui"].at = "learn" /\ thread["ui"].pid \in Pids
      /\ thread["ui"].game \in Custom /\ customPID = NoPid
      /\ UNCHANGED <<process, scene, session, since>>
  BY DEF Learn, LauncherInv, LaunchInv
<1>2. thread'["ui"] = Rests /\ thread'["recv"] = thread["recv"]
  BY <1>1, GoesThere DEF LauncherInv
<1>3. CASE /\ Runs(thread["ui"].pid)
           /\ customPID' = thread["ui"].pid /\ runningId' = thread["ui"].game
           /\ UNCHANGED loose
  <2>1. TypeOK'
    BY <1>1, <1>3, RestsType, GoesType, LauncherAssumption DEF LauncherInv, TypeOK, Places
  <2>2. LaunchInv' /\ MemoryInv'
    BY <1>1, <1>2, <1>3, RestsType, LauncherAssumption DEF LaunchInv, Launching, MemoryInv
  <2>3. OneCustomGame' /\ StopInv'
    BY <1>1, <1>2, <1>3, RestsType, CustomRuns DEF LauncherInv, OneCustomGame, StopInv
  <2> QED BY <2>1, <2>2, <2>3 DEF LauncherInv
<1>4. CASE /\ loose' = IF Runs(thread["ui"].pid) THEN loose \cup {thread["ui"].pid} ELSE loose
           /\ UNCHANGED tracked
  <2>1. TypeOK'
    BY <1>1, <1>4, RestsType, GoesType DEF LauncherInv, TypeOK, Places, tracked
  <2>2. LaunchInv' /\ MemoryInv'
    BY <1>1, <1>2, <1>4, RestsType DEF LaunchInv, Launching, MemoryInv, tracked
  <2>3. OneCustomGame' /\ StopInv'
    BY <1>1, <1>2, <1>4, RestsType, CustomRuns DEF LauncherInv, OneCustomGame, StopInv, Runs, tracked
  <2> QED BY <2>1, <2>2, <2>3 DEF LauncherInv
<1> QED BY <1>3, <1>4 DEF Learn

LEMMA StartSessionStep ==
  ASSUME LauncherInv, StartSession
  PROVE  LauncherInv'
<1>1. TypeOK'
  BY DEF LauncherInv, TypeOK, StartSession, tracked
<1>2. LaunchInv' /\ MemoryInv'
  BY DEF LauncherInv, LaunchInv, Launching, MemoryInv, Runs, StartSession, tracked
<1>3. OneCustomGame' /\ StopInv'
  BY DEF LauncherInv, OneCustomGame, StopInv, StartSession, tracked
<1> QED BY <1>1, <1>2, <1>3 DEF LauncherInv

LEMMA StopSessionStep ==
  ASSUME LauncherInv, NEW t \in {"ui", "recv"}, StopSession(t)
  PROVE  LauncherInv'
<1> DEFINE place == [Rests EXCEPT !.at = First]
<1>1. /\ place \in Places /\ place.pid = NoPid /\ place.at = First
      /\ First \in {"end", "quit"}
  BY DEF First, Rests, Places
<1>2. Goes(t, place) /\ thread[t].at = "idle" /\ session
  BY DEF StopSession
<1> HIDE DEF place
<1>3. thread'[t] = place /\ \A u \in {"ui", "recv"} \ {t} : thread'[u] = thread[u]
  BY <1>2, GoesThere DEF LauncherInv
<1>4. TypeOK'
  <2>1. since' \subseteq Pids
    BY ThreadType DEF LauncherInv, Places, StopSession
  <2> QED BY <1>1, <1>2, <2>1, GoesType DEF LauncherInv, TypeOK, StopSession, tracked, Places
<1>5. LaunchInv' /\ MemoryInv'
  BY <1>1, <1>2, <1>3 DEF LauncherInv, LaunchInv, Launching, MemoryInv, StopSession, tracked, Runs
<1>6. OneCustomGame'
  BY <1>1, <1>2, <1>3, CustomRuns DEF LauncherInv, OneCustomGame, MemoryInv, StopSession, tracked
<1>7. StopInv'
  <2> SUFFICES ASSUME NEW p \in Pids, process[p] \in Custom
               PROVE  p \in since' \/ p \in loose' \/ (p = customPID' /\ thread'[t].at = "end")
    BY DEF StopInv, StopSession
  <2>1. p \in {customPID, thread["ui"].pid} \cup loose
    BY DEF LauncherInv, OneCustomGame
  <2>2. CASE p = customPID
    BY <1>1, <1>3, <2>2, CustomRuns DEF First, StopSession, tracked
  <2>3. CASE p = thread["ui"].pid
    BY <2>3, CustomRuns DEF StopSession
  <2>4. CASE p \in loose
    BY <2>4 DEF StopSession
  <2> QED BY <2>1, <2>2, <2>3, <2>4
<1> QED BY <1>4, <1>5, <1>6, <1>7 DEF LauncherInv

LEMMA EndGameStep ==
  ASSUME LauncherInv, NEW t \in {"ui", "recv"}, EndGame(t)
  PROVE  LauncherInv'
<1> DEFINE place == [thread[t] EXCEPT !.at = "forget", !.pid = customPID]
<1>1. /\ place \in Places /\ place.pid = customPID /\ place.at = "forget"
  <2>1. thread[t] \in Places /\ customPID \in Pids \cup {NoPid}
    BY ThreadType DEF LauncherInv, TypeOK
  <2> QED BY <2>1 DEF Places
<1>2. Goes(t, place) /\ thread[t].at = "end"
  BY DEF EndGame
<1> HIDE DEF place
<1>3. thread'[t] = place /\ \A u \in {"ui", "recv"} \ {t} : thread'[u] = thread[u]
  BY <1>2, GoesThere DEF LauncherInv
<1>4. \A q \in Pids : process'[q] # NoGame =>
        process'[q] = process[q] /\ (q = customPID => q \in loose')
        /\ (q \in loose => q \in loose') /\ (q \in since => q \in since')
  BY EndsOrLosesKeeps DEF LauncherInv, TypeOK, EndGame
<1>5. TypeOK'
  BY <1>1, <1>2, GoesType, EndsOrLosesKeeps DEF LauncherInv, TypeOK, EndGame, tracked, Places
<1>6. LaunchInv' /\ MemoryInv'
  <2>1. \A p \in Pids \cup {NoPid} : (Runs(p) => p \in loose) => (p # NoPid /\ process'[p] # NoGame => p \in loose')
    BY <1>4 DEF Runs
  <2>2. customPID # NoPid /\ process'[customPID] # NoGame => customPID \in loose'
    BY <1>4 DEF LauncherInv, TypeOK
  <2>3. thread["ui"].pid \in Pids \cup {NoPid}
    BY ThreadType DEF LauncherInv, Places
  <2>4. LaunchInv'
    BY <1>1, <1>2, <1>3 DEF LauncherInv, LaunchInv, Launching, EndGame, tracked
  <2>5. CASE t = "ui"
    BY <1>1, <1>2, <1>3, <2>2, <2>4, <2>5 DEF LauncherInv, MemoryInv, EndGame, tracked, Runs
  <2>6. CASE t = "recv"
    BY <1>1, <1>2, <1>3, <2>1, <2>3, <2>4, <2>6 DEF LauncherInv, MemoryInv, EndGame, tracked, Runs
  <2> QED BY <2>5, <2>6
<1>7. OneCustomGame' /\ StopInv'
  BY <1>1, <1>2, <1>3, <1>4, CustomRuns DEF LauncherInv, OneCustomGame, StopInv, MemoryInv, EndGame, tracked
<1> QED BY <1>5, <1>6, <1>7 DEF LauncherInv

LEMMA ForgetGameStep ==
  ASSUME LauncherInv, NEW t \in {"ui", "recv"}, ForgetGame(t)
  PROVE  LauncherInv'
<1> DEFINE place == [Rests EXCEPT !.at = "quit"]
<1>1. place \in Places /\ place.pid = NoPid /\ place.at = "quit"
  BY DEF Rests, Places
<1>2. Goes(t, place) /\ thread[t].at = "forget"
  BY DEF ForgetGame
<1> HIDE DEF place
<1>3. thread'[t] = place /\ \A u \in {"ui", "recv"} \ {t} : thread'[u] = thread[u]
  BY <1>2, GoesThere DEF LauncherInv
<1>4. TypeOK'
  BY <1>1, <1>2, GoesType DEF LauncherInv, TypeOK, ForgetGame, Places, Runs
<1>5. LaunchInv' /\ MemoryInv'
  BY <1>1, <1>2, <1>3 DEF LauncherInv, LaunchInv, Launching, MemoryInv, ForgetGame, Runs
<1>6. \A p \in Pids : process[p] \in Custom /\ p = customPID => p \in loose'
  BY CustomRuns DEF ForgetGame, Runs
<1>7. OneCustomGame'
  <2> SUFFICES ASSUME NEW p \in Pids, process[p] \in Custom
               PROVE  p \in loose' \/ p = thread'["ui"].pid
    BY DEF OneCustomGame, ForgetGame
  <2>1. p \in {customPID, thread["ui"].pid} \cup loose
    BY DEF LauncherInv, OneCustomGame
  <2>2. CASE p = thread["ui"].pid /\ t = "ui"
    BY <1>2, <2>2, CustomRuns DEF LauncherInv, MemoryInv, Runs, ForgetGame
  <2>3. CASE p = thread["ui"].pid /\ t = "recv"
    BY <1>3, <2>3
  <2>4. CASE p = customPID \/ p \in loose
    BY <1>6, <2>4 DEF ForgetGame
  <2> QED BY <2>1, <2>2, <2>3, <2>4
<1>8. StopInv'
  BY <1>6 DEF LauncherInv, StopInv, ForgetGame
<1> QED BY <1>4, <1>5, <1>7, <1>8 DEF LauncherInv

LEMMA QuitVRAppStep ==
  ASSUME LauncherInv, NEW t \in {"ui", "recv"}, QuitVRApp(t)
  PROVE  LauncherInv'
<1>1. Goes(t, Rests) /\ thread[t].at = "quit"
  BY DEF QuitVRApp
<1>2. thread'[t] = Rests /\ \A u \in {"ui", "recv"} \ {t} : thread'[u] = thread[u]
  BY <1>1, GoesThere DEF LauncherInv
<1>3. /\ process' \in [Pids -> Games \cup {NoGame}] /\ scene' \in Pids \cup {NoPid}
      /\ loose' \subseteq Pids /\ since' \subseteq Pids
      /\ \A q \in Pids : process'[q] # NoGame =>
           process'[q] = process[q]
           /\ (q \in loose => q \in loose') /\ (q \in since => q \in since')
  <2>1. CASE Ends(scene)
    BY <2>1, EndsKeeps DEF LauncherInv
  <2>2. CASE UNCHANGED <<process, scene, loose, since>>
    BY <2>2 DEF LauncherInv, TypeOK
  <2> QED BY <2>1, <2>2 DEF QuitVRApp
<1>4. TypeOK'
  BY <1>1, <1>3, RestsType, GoesType DEF LauncherInv, TypeOK, QuitVRApp, tracked, Places
<1>5. LaunchInv' /\ MemoryInv'
  <2>1. thread["ui"].pid \in Pids \cup {NoPid}
    BY ThreadType DEF LauncherInv, Places
  <2>2. Runs(thread["ui"].pid)' /\ UNCHANGED thread["ui"].pid =>
          Runs(thread["ui"].pid) /\ (thread["ui"].pid \in loose => thread["ui"].pid \in loose')
    BY <1>3, <2>1 DEF Runs
  <2> QED BY <1>1, <1>2, <2>1, <2>2, RestsType DEF LauncherInv, LaunchInv, Launching, MemoryInv, QuitVRApp, tracked, Runs
<1>6. OneCustomGame' /\ StopInv'
  BY <1>1, <1>2, <1>3, RestsType, CustomRuns DEF LauncherInv, OneCustomGame, StopInv, MemoryInv, QuitVRApp, tracked
<1> QED BY <1>4, <1>5, <1>6 DEF LauncherInv

LEMMA TimeUpStep ==
  ASSUME LauncherInv, TimeUp
  PROVE  LauncherInv'
<1> DEFINE place == [Rests EXCEPT !.at = "quit"]
<1>1. place \in Places /\ place.pid = NoPid /\ place.at = "quit"
  BY DEF Rests, Places
<1>2. Goes("ui", place) /\ thread["ui"].at = "idle"
  BY DEF TimeUp
<1> HIDE DEF place
<1>3. thread'["ui"] = place /\ thread'["recv"] = thread["recv"]
  BY <1>2, GoesThere DEF LauncherInv
<1>4. TypeOK'
  BY <1>1, <1>2, GoesType DEF LauncherInv, TypeOK, TimeUp, tracked, Places
<1>5. LaunchInv' /\ MemoryInv'
  BY <1>1, <1>2, <1>3 DEF LauncherInv, LaunchInv, Launching, MemoryInv, TimeUp, tracked
<1>6. OneCustomGame' /\ StopInv'
  BY <1>1, <1>2, <1>3, CustomRuns DEF LauncherInv, OneCustomGame, StopInv, MemoryInv, TimeUp, tracked, Runs
<1> QED BY <1>4, <1>5, <1>6 DEF LauncherInv

\* A process ends outside the station.
LEMMA OutsideStep ==
  ASSUME LauncherInv, NEW p \in Pids, GameExits(p) \/ BecomesScene(p)
  PROVE  LauncherInv'
<1>1. /\ process' \in [Pids -> Games \cup {NoGame}] /\ scene' \in Pids \cup {NoPid}
      /\ loose' \subseteq Pids /\ since' \subseteq Pids
      /\ \A q \in Pids : process'[q] # NoGame =>
           process'[q] = process[q]
           /\ (q \in loose => q \in loose') /\ (q \in since => q \in since')
  <2>1. CASE GameExits(p)
    BY <2>1, EndsKeeps DEF LauncherInv, GameExits
  <2>2. CASE BecomesScene(p)
    BY <2>2 DEF LauncherInv, TypeOK, BecomesScene
  <2> QED BY <2>1, <2>2
<1>2. UNCHANGED <<tracked, session, thread>>
  BY DEF GameExits, BecomesScene
<1>3. TypeOK'
  BY <1>1, <1>2 DEF LauncherInv, TypeOK, tracked
<1>4. LaunchInv' /\ MemoryInv'
  <2>1. thread["ui"].pid \in Pids \cup {NoPid}
    BY ThreadType DEF LauncherInv, Places
  <2>2. Runs(thread["ui"].pid)' /\ UNCHANGED thread["ui"].pid =>
          Runs(thread["ui"].pid) /\ (thread["ui"].pid \in loose => thread["ui"].pid \in loose')
    BY <1>1, <2>1 DEF Runs
  <2> QED BY <1>2, <2>1, <2>2 DEF LauncherInv, LaunchInv, Launching, MemoryInv, tracked, Runs
<1>5. OneCustomGame' /\ StopInv'
  BY <1>1, <1>2, CustomRuns DEF LauncherInv, OneCustomGame, StopInv, tracked
<1> QED BY <1>3, <1>4, <1>5 DEF LauncherInv

LEMMA RestartStep ==
  ASSUME LauncherInv, Restart
  PROVE  LauncherInv'
<1>1. thread'["ui"] = Rests /\ thread'["recv"] = Rests
  BY DEF Restart
<1>2. TypeOK'
  <2>1. thread' \in [{"ui", "recv"} -> Places]
    BY RestsType DEF Restart
  <2>2. loose' \subseteq Pids
    BY ThreadType DEF LauncherInv, TypeOK, Places, Restart, Runs
  <2> QED BY <1>1, <2>1, <2>2, RestsType DEF LauncherInv, TypeOK, Restart, Places
<1>3. LaunchInv' /\ MemoryInv'
  BY <1>1, RestsType DEF LaunchInv, Launching, MemoryInv, Restart
<1>4. \A p \in Pids : process[p] \in Custom /\ p \in {customPID, thread["ui"].pid} => p \in loose'
  BY CustomRuns DEF Restart, Runs
<1>5. OneCustomGame' /\ StopInv'
  BY <1>4 DEF LauncherInv, OneCustomGame, StopInv, Restart
<1> QED BY <1>2, <1>3, <1>5 DEF LauncherInv
-----------------------------------------------------------------------------
LEMMA LauncherInit == Init => LauncherInv
<1> SUFFICES ASSUME Init PROVE LauncherInv
  OBVIOUS
<1>1. thread["ui"] = Rests /\ thread["recv"] = Rests
  BY DEF Init
<1>2. TypeOK
  <2>1. thread \in [{"ui", "recv"} -> Places]
    BY RestsType DEF Init
  <2> QED BY <1>1, <2>1, RestsType DEF Init, TypeOK, Places
<1>3. LaunchInv /\ MemoryInv
  BY <1>1, RestsType DEF Init, LaunchInv, Launching, MemoryInv
<1>4. OneCustomGame /\ StopInv
  BY CustomRuns DEF Init, OneCustomGame, StopInv
<1> QED BY <1>2, <1>3, <1>4 DEF LauncherInv

LEMMA LauncherStep ==
  ASSUME LauncherInv, [Next]_vars
  PROVE  LauncherInv'
<1>1. ASSUME NEW g \in Games, LaunchGame(g)
      PROVE  LauncherInv'
  BY <1>1, LaunchGameStep
<1>2. ASSUME NEW t \in {"ui", "recv"}, StopSession(t) \/ EndGame(t) \/ ForgetGame(t) \/ QuitVRApp(t)
      PROVE  LauncherInv'
  BY <1>2, StopSessionStep, EndGameStep, ForgetGameStep, QuitVRAppStep
<1>3. ASSUME NEW p \in Pids, GameExits(p) \/ BecomesScene(p)
      PROVE  LauncherInv'
  BY <1>3, OutsideStep
<1>4. CASE Replace \/ Again \/ LaunchFails \/ Launched \/ Learn
  BY <1>4, ReplaceStep, AgainStep, LaunchFailsStep, LaunchedStep, LearnStep
<1>5. CASE StartSession \/ TimeUp \/ Restart
  BY <1>5, StartSessionStep, TimeUpStep, RestartStep
<1>6. CASE UNCHANGED vars
  BY <1>6 DEF vars, tracked, LauncherInv, TypeOK, LaunchInv, Launching, MemoryInv, Runs, OneCustomGame, StopInv
<1> QED BY <1>1, <1>2, <1>3, <1>4, <1>5, <1>6 DEF Next

LEMMA LauncherAlways == Spec => []LauncherInv
BY LauncherInit, LauncherStep, PTL DEF Spec

\* Every variable keeps its type: the processes that are terminated, forgotten and
\* remembered are process numbers, whatever the two threads do to each other's.
THEOREM LauncherTypesKept == Spec => []TypeOK
<1>1. LauncherInv => TypeOK
  BY DEF LauncherInv
<1> QED BY <1>1, LauncherAlways, PTL

\* However many games and processes there are, a custom game that runs is the one
\* the station would end next, one being launched, or one of those it has lost.
THEOREM CustomGamesTracked == Spec => []OneCustomGame
<1>1. LauncherInv => OneCustomGame
  BY DEF LauncherInv
<1> QED BY <1>1, LauncherAlways, PTL

\* Whichever thread stops the session and whatever the other launches meanwhile,
\* no custom game of that session that the station still knows of is left running.
THEOREM StopsEndGames == Spec => []StopEndsTheGame
<1>1. LauncherInv => StopEndsTheGame
  BY DEF LauncherInv, StopInv, StopEndsTheGame
<1> QED BY <1>1, LauncherAlways, PTL
-----------------------------------------------------------------------------
(***************************************************************************)
(* The list of custom games and its file.                                  *)
(***************************************************************************)

\* Nobody is saving, or about to.
NoneSaves == \A t \in Threads : doing[t].at \notin {"save", "write"}

\* What the list in memory keeps to while the program runs, and the file when no
\* save is under way or outstanding.
ListInv ==
  /\ ~ opened => \A t \in Threads : doing[t].at = "idle"
  /\ opened => made \subseteq Ready(games) /\ gone \cap Listed(games) = {}
  /\ NoneSaves => made \subseteq Ready(file) /\ gone \cap Listed(file) = {}

CustomInv == CustomTypeOK /\ ListInv
-----------------------------------------------------------------------------
(* Lists. *)

\* A list is told from a file that breaks off by having a number for every kind.
LEMMA ListIsNotCut ==
  ASSUME NEW list \in Lists, NEW id \in Seconds
  PROVE  list # Cut
<1>1. <<id, TRUE>> \in DOMAIN list
  BY DEF Lists, Kinds
<1>2. DOMAIN Cut = {}
  BY DEF Cut
<1> QED BY <1>1, <1>2

LEMMA ReadyIs ==
  ASSUME NEW list \in Lists, NEW id \in Seconds
  PROVE  /\ id \in Ready(list) <=> list[<<id, TRUE>>] > 0
         /\ id \in Listed(list) <=> list[<<id, TRUE>>] > 0 \/ list[<<id, FALSE>>] > 0
BY ListIsNotCut DEF Ready, Listed

LEMMA ReadyIsListed ==
  ASSUME NEW list
  PROVE  Ready(list) \subseteq Listed(list) /\ Listed(list) \subseteq Seconds
BY DEF Ready, Listed

LEMMA EmptyList ==
  NoGames \in Lists /\ Ready(NoGames) = {} /\ Listed(NoGames) = {} /\ Ready(Cut) = {} /\ Listed(Cut) = {}
<1>1. NoGames \in Lists
  BY CustomGamesAssumption DEF NoGames, Lists
<1>2. \A id \in Seconds, exe \in BOOLEAN : NoGames[<<id, exe>>] = 0
  BY DEF NoGames, Kinds
<1>3. \A id \in Seconds : id \notin Ready(NoGames) /\ id \notin Listed(NoGames)
  <2> SUFFICES ASSUME NEW id \in Seconds
               PROVE  id \notin Ready(NoGames) /\ id \notin Listed(NoGames)
    OBVIOUS
  <2>1. NoGames[<<id, TRUE>>] = 0 /\ NoGames[<<id, FALSE>>] = 0
    BY <1>2
  <2>2. /\ id \in Ready(NoGames) <=> NoGames[<<id, TRUE>>] > 0
        /\ id \in Listed(NoGames) <=> NoGames[<<id, TRUE>>] > 0 \/ NoGames[<<id, FALSE>>] > 0
    BY <1>1, ReadyIs
  <2> QED BY <2>1, <2>2
<1>4. Ready(NoGames) = {} /\ Listed(NoGames) = {}
  BY <1>3, ReadyIsListed
<1> QED BY <1>1, <1>4 DEF Ready, Listed

\* What is loaded from a file: every game of it that has an executable, no other.
LEMMA Loaded ==
  ASSUME file \in Lists \cup {Cut}
  PROVE  /\ LoadCustomGames \in Lists
         /\ Ready(LoadCustomGames) = Ready(file)
         /\ Listed(LoadCustomGames) \subseteq Listed(file)
<1>1. CASE file = Cut
  BY <1>1, EmptyList DEF LoadCustomGames
<1>2. CASE file # Cut
  <2>1. file \in Lists
    BY <1>2
  <2>2. LoadCustomGames = [k \in Kinds |-> IF k[2] THEN file[k] ELSE 0]
    BY <1>2 DEF LoadCustomGames
  <2>3. LoadCustomGames \in Lists
    BY <2>1, <2>2, CustomGamesAssumption DEF Lists
  <2>4. \A id \in Seconds : LoadCustomGames[<<id, TRUE>>] = file[<<id, TRUE>>]
                            /\ LoadCustomGames[<<id, FALSE>>] = 0
    BY <2>2 DEF Kinds
  <2>5. ASSUME NEW id \in Seconds
        PROVE  /\ id \in Ready(LoadCustomGames) <=> id \in Ready(file)
               /\ id \in Listed(LoadCustomGames) => id \in Listed(file)
    <3> DEFINE loaded == LoadCustomGames
    <3>1. loaded[<<id, TRUE>>] = file[<<id, TRUE>>] /\ loaded[<<id, FALSE>>] = 0 /\ loaded \in Lists
      BY <2>3, <2>4
    <3> HIDE DEF loaded
    <3>2. /\ id \in Ready(loaded) <=> loaded[<<id, TRUE>>] > 0
          /\ id \in Listed(loaded) <=> loaded[<<id, TRUE>>] > 0 \/ loaded[<<id, FALSE>>] > 0
      BY <3>1, ReadyIs
    <3>3. /\ id \in Ready(file) <=> file[<<id, TRUE>>] > 0
          /\ id \in Listed(file) <=> file[<<id, TRUE>>] > 0 \/ file[<<id, FALSE>>] > 0
      BY <2>1, ReadyIs
    <3>4. ~ loaded[<<id, FALSE>>] > 0
      BY <3>1
    <3> QED BY <3>1, <3>2, <3>3, <3>4 DEF loaded
  <2> QED BY <2>3, <2>5, ReadyIsListed
<1> QED BY <1>1, <1>2

\* One list and another that has the same number of games of a second.
LEMMA SameGames ==
  ASSUME NEW list \in Lists, NEW other \in Lists, NEW id \in Seconds,
         other[<<id, TRUE>>] = list[<<id, TRUE>>], other[<<id, FALSE>>] = list[<<id, FALSE>>]
  PROVE  (id \in Ready(other) <=> id \in Ready(list)) /\ (id \in Listed(other) <=> id \in Listed(list))
<1>1. /\ id \in Ready(list) <=> list[<<id, TRUE>>] > 0
      /\ id \in Listed(list) <=> list[<<id, TRUE>>] > 0 \/ list[<<id, FALSE>>] > 0
  BY ReadyIs
<1>2. /\ id \in Ready(other) <=> other[<<id, TRUE>>] > 0
      /\ id \in Listed(other) <=> other[<<id, TRUE>>] > 0 \/ other[<<id, FALSE>>] > 0
  BY ReadyIs
<1> QED BY <1>1, <1>2

\* A game goes from one kind to the other and stays listed; with an executable it
\* is ready.
LEMMA ChangedKeeps ==
  ASSUME games \in Lists, NEW id \in Seconds, NEW had \in BOOLEAN, NEW exe \in BOOLEAN,
         id \in Listed(games) => games[<<id, had>>] > 0 /\ (had = exe \/ games[<<id, exe>>] < MaxCopies)
  PROVE  /\ Changed(id, had, exe) \in Lists
         /\ Listed(Changed(id, had, exe)) = Listed(games)
         /\ \A other \in Seconds \ {id} : other \in Ready(Changed(id, had, exe)) <=> other \in Ready(games)
         /\ id \in Listed(games) /\ exe => id \in Ready(Changed(id, had, exe))
<1> DEFINE new == Changed(id, had, exe)
<1>1. CASE id \notin Listed(games)
  BY <1>1 DEF Changed
<1>2. CASE id \in Listed(games) /\ had = exe
  <2>1. new = games
    BY <1>2 DEF Changed
  <2>2. id \in Ready(games) <=> games[<<id, TRUE>>] > 0
    BY ReadyIs
  <2>3. exe => games[<<id, TRUE>>] > 0
    <3>1. exe => exe = TRUE
      OBVIOUS
    <3> QED BY <1>2, <3>1
  <2> QED BY <1>2, <2>1, <2>2, <2>3
<1>3. CASE id \in Listed(games) /\ had # exe
  <2>1. new = [games EXCEPT ![<<id, had>>] = @ - 1, ![<<id, exe>>] = @ + 1]
    BY <1>3 DEF Changed
  <2>2. /\ <<id, had>> \in Kinds /\ <<id, exe>> \in Kinds /\ <<id, had>> # <<id, exe>>
        /\ games[<<id, had>>] \in 1..MaxCopies /\ games[<<id, exe>>] \in 0..(MaxCopies - 1)
    BY <1>3, CustomGamesAssumption DEF Kinds, Lists
  <2> HIDE DEF new
  <2>3. /\ new \in Lists
        /\ new[<<id, had>>] = games[<<id, had>>] - 1 /\ new[<<id, exe>>] = games[<<id, exe>>] + 1
        /\ \A k \in Kinds \ {<<id, had>>, <<id, exe>>} : new[k] = games[k]
    BY <2>1, <2>2, CustomGamesAssumption DEF Lists
  <2>4. new[<<id, exe>>] > 0
    BY <2>2, <2>3
  <2>5. ASSUME NEW other \in Seconds \ {id}
        PROVE  /\ other \in Ready(new) <=> other \in Ready(games)
               /\ other \in Listed(new) <=> other \in Listed(games)
    <3>1. \A b \in BOOLEAN : <<other, b>> \in Kinds \ {<<id, had>>, <<id, exe>>}
      BY DEF Kinds
    <3>2. new[<<other, TRUE>>] = games[<<other, TRUE>>] /\ new[<<other, FALSE>>] = games[<<other, FALSE>>]
      BY <2>3, <3>1
    <3> QED BY <2>3, <3>2, SameGames
  <2>6. /\ id \in Ready(new) <=> new[<<id, TRUE>>] > 0
        /\ id \in Listed(new) <=> new[<<id, TRUE>>] > 0 \/ new[<<id, FALSE>>] > 0
    BY <2>3, ReadyIs
  <2>7. id \in Listed(new) /\ (exe => id \in Ready(new))
    <3>1. CASE exe = TRUE
      BY <2>4, <2>6, <3>1
    <3>2. CASE exe = FALSE
      BY <2>4, <2>6, <3>2
    <3> QED BY <3>1, <3>2
  <2>8. Listed(new) = Listed(games)
    BY <1>3, <2>5, <2>7, ReadyIsListed
  <2>9. \A other \in Seconds \ {id} : other \in Ready(new) <=> other \in Ready(games)
    BY <2>5
  <2> QED BY <2>3, <2>7, <2>8, <2>9 DEF new
<1> QED BY <1>1, <1>2, <1>3
-----------------------------------------------------------------------------
(* The steps. *)

\* A thread's doing is changed, to something a thread can do.
LEMMA DoingType ==
  ASSUME CustomTypeOK, NEW t \in Threads,
         NEW to \in [at : {"idle", "update", "save", "write"}, id : Seconds \cup {0}, exe : BOOLEAN],
         doing' = [doing EXCEPT ![t] = to]
  PROVE  /\ doing' \in [Threads -> [at : {"idle", "update", "save", "write"}, id : Seconds \cup {0}, exe : BOOLEAN]]
         /\ doing'[t] = to /\ \A u \in Threads \ {t} : doing'[u] = doing[u]
BY DEF CustomTypeOK

\* The threads' doings but for one label.
LEMMA LabelType ==
  ASSUME CustomTypeOK, NEW t \in Threads, NEW to \in {"idle", "update", "save", "write"},
         doing' = [doing EXCEPT ![t].at = to]
  PROVE  /\ doing' \in [Threads -> [at : {"idle", "update", "save", "write"}, id : Seconds \cup {0}, exe : BOOLEAN]]
         /\ doing'[t].at = to /\ \A u \in Threads \ {t} : doing'[u] = doing[u]
BY DEF CustomTypeOK

LEMMA RestingType ==
  /\ Resting \in [at : {"idle", "update", "save", "write"}, id : Seconds \cup {0}, exe : BOOLEAN]
  /\ Resting.at = "idle"
BY DEF Resting

LEMMA OpenProgramStep ==
  ASSUME CustomInv, NEW steam \in BOOLEAN, OpenProgram(steam)
  PROVE  CustomInv'
<1>1. NoneSaves
  BY DEF CustomInv, ListInv, OpenProgram, NoneSaves
<1>2. /\ games' \in Lists /\ Ready(games') = (IF steam THEN Ready(file) ELSE {})
      /\ Listed(games') \subseteq Listed(file)
  BY Loaded, EmptyList DEF CustomInv, CustomTypeOK, OpenProgram
<1>3. CustomTypeOK'
  BY <1>2 DEF CustomInv, CustomTypeOK, OpenProgram
<1>4. ListInv'
  BY <1>1, <1>2 DEF CustomInv, ListInv, OpenProgram, NoneSaves
<1> QED BY <1>3, <1>4 DEF CustomInv

LEMMA CloseProgramStep ==
  ASSUME CustomInv, CloseProgram
  PROVE  CustomInv'
<1>1. \A t \in Threads : doing'[t] = Resting
  BY DEF CloseProgram
<1>2. CustomTypeOK'
  BY <1>1, RestingType, EmptyList, CustomGamesAssumption DEF CustomInv, CustomTypeOK, CloseProgram, Threads
<1>3. made' \subseteq Ready(file) /\ gone' \cap Listed(file) = {}
  BY DEF CustomInv, ListInv, CloseProgram, NoneSaves
<1>4. ListInv'
  BY <1>1, <1>3, RestingType DEF ListInv, CloseProgram
<1> QED BY <1>2, <1>4 DEF CustomInv

LEMMA AddCustomGameStep ==
  ASSUME CustomInv, AddCustomGame
  PROVE  CustomInv'
<1>1. now \in Seconds /\ UI \in Threads /\ <<now, FALSE>> \in Kinds /\ <<now, TRUE>> \in Kinds
  BY DEF CustomInv, CustomTypeOK, Threads, Kinds
<1>2. /\ games' \in Lists /\ games'[<<now, TRUE>>] = games[<<now, TRUE>>]
      /\ \A k \in Kinds \ {<<now, FALSE>>} : games'[k] = games[k]
  <2>1. games \in [Kinds -> 0..MaxCopies] /\ games[<<now, FALSE>>] < MaxCopies
        /\ games' = [games EXCEPT ![<<now, FALSE>>] = games[<<now, FALSE>>] + 1]
    BY DEF CustomInv, CustomTypeOK, AddCustomGame, Lists
  <2>2. games[<<now, FALSE>>] + 1 \in 0..MaxCopies
    BY <1>1, <2>1, CustomGamesAssumption
  <2>3. <<now, TRUE>> # <<now, FALSE>>
    OBVIOUS
  <2> QED BY <1>1, <2>1, <2>2, <2>3 DEF Lists
<1>3. \A id \in Seconds \ {now} : (id \in Ready(games') <=> id \in Ready(games))
                                  /\ (id \in Listed(games') <=> id \in Listed(games))
  <2> SUFFICES ASSUME NEW id \in Seconds \ {now}
               PROVE  (id \in Ready(games') <=> id \in Ready(games))
                      /\ (id \in Listed(games') <=> id \in Listed(games))
    OBVIOUS
  <2>1. <<id, TRUE>> \in Kinds \ {<<now, FALSE>>} /\ <<id, FALSE>> \in Kinds \ {<<now, FALSE>>}
    BY DEF Kinds
  <2>2. games'[<<id, TRUE>>] = games[<<id, TRUE>>] /\ games'[<<id, FALSE>>] = games[<<id, FALSE>>]
    BY <1>2, <2>1
  <2> QED BY <1>2, <2>2, SameGames DEF CustomInv, CustomTypeOK
<1>4. now \in Ready(games') <=> now \in Ready(games)
  <2>1. now \in Ready(games) <=> games[<<now, TRUE>>] > 0
    BY <1>1, ReadyIs DEF CustomInv, CustomTypeOK
  <2>2. now \in Ready(games') <=> games'[<<now, TRUE>>] > 0
    BY <1>1, <1>2, ReadyIs
  <2> QED BY <1>2, <2>1, <2>2
<1>5. doing' = [doing EXCEPT ![UI].at = "save"] /\ doing[UI].at = "idle" /\ opened /\ UNCHANGED <<opened, file, writer, now, made>>
      /\ gone' = gone \ {now}
  BY DEF AddCustomGame, UIRests
<1>6. CustomTypeOK'
  BY <1>1, <1>2, <1>5, LabelType DEF CustomInv, CustomTypeOK
<1>7. ~ NoneSaves'
  BY <1>1, <1>5, LabelType DEF CustomInv, NoneSaves
<1>8. made' \subseteq Ready(games') /\ gone' \cap Listed(games') = {}
  BY <1>3, <1>4, <1>5, ReadyIsListed DEF CustomInv, ListInv, CustomTypeOK
<1> QED BY <1>5, <1>6, <1>7, <1>8 DEF CustomInv, ListInv

LEMMA DeleteCustomGameStep ==
  ASSUME CustomInv, NEW id \in Seconds, DeleteCustomGame(id)
  PROVE  CustomInv'
<1>1. UI \in Threads
  BY DEF Threads
<1>2. /\ games' \in Lists
      /\ \A k \in Kinds : games'[k] = IF k[1] = id THEN 0 ELSE games[k]
  BY CustomGamesAssumption DEF CustomInv, CustomTypeOK, DeleteCustomGame, Lists
<1>3. \A other \in Seconds \ {id} : (other \in Ready(games') <=> other \in Ready(games))
                                    /\ (other \in Listed(games') <=> other \in Listed(games))
  <2> SUFFICES ASSUME NEW other \in Seconds \ {id}
               PROVE  (other \in Ready(games') <=> other \in Ready(games))
                      /\ (other \in Listed(games') <=> other \in Listed(games))
    OBVIOUS
  <2>1. games'[<<other, TRUE>>] = games[<<other, TRUE>>] /\ games'[<<other, FALSE>>] = games[<<other, FALSE>>]
    BY <1>2 DEF Kinds
  <2> QED BY <1>2, <2>1, SameGames DEF CustomInv, CustomTypeOK
<1>4. id \notin Listed(games')
  <2>1. games'[<<id, TRUE>>] = 0 /\ games'[<<id, FALSE>>] = 0
    BY <1>2 DEF Kinds
  <2>2. id \in Listed(games') <=> games'[<<id, TRUE>>] > 0 \/ games'[<<id, FALSE>>] > 0
    BY <1>2, ReadyIs
  <2> QED BY <2>1, <2>2
<1>5. doing' = [doing EXCEPT ![UI].at = "save"] /\ doing[UI].at = "idle" /\ opened /\ UNCHANGED <<opened, file, writer, now>>
      /\ made' = made \ {id} /\ gone' = gone \cup {id}
  BY DEF DeleteCustomGame, UIRests
<1>6. CustomTypeOK'
  BY <1>1, <1>2, <1>5, LabelType DEF CustomInv, CustomTypeOK
<1>7. ~ NoneSaves'
  BY <1>1, <1>5, LabelType DEF CustomInv, NoneSaves
<1>8. made' \subseteq Ready(games') /\ gone' \cap Listed(games') = {}
  BY <1>3, <1>4, <1>5, ReadyIsListed DEF CustomInv, ListInv, CustomTypeOK
<1> QED BY <1>5, <1>6, <1>7, <1>8 DEF CustomInv, ListInv

LEMMA SaveDetailsStep ==
  ASSUME CustomInv, NEW t \in Workers, NEW id \in Seconds, NEW exe \in BOOLEAN, SaveDetails(t, id, exe)
  PROVE  CustomInv'
<1> DEFINE to == [at |-> "update", id |-> id, exe |-> exe]
<1>1. /\ t \in Threads /\ to.at = "update"
      /\ to \in [at : {"idle", "update", "save", "write"}, id : Seconds \cup {0}, exe : BOOLEAN]
  BY DEF Threads
<1>2. /\ doing' = [doing EXCEPT ![t] = to] /\ doing[t].at = "idle" /\ opened
      /\ UNCHANGED <<opened, games, file, writer, now, made, gone>>
  BY DEF SaveDetails, UIRests
<1> HIDE DEF to
<1>3. CustomTypeOK'
  BY <1>1, <1>2, DoingType DEF CustomInv, CustomTypeOK
<1>4. NoneSaves' => NoneSaves
  BY <1>1, <1>2, DoingType DEF CustomInv, NoneSaves
<1> QED BY <1>2, <1>3, <1>4 DEF CustomInv, ListInv

LEMMA UpdateStep ==
  ASSUME CustomInv, NEW t \in Threads, Update(t)
  PROVE  CustomInv'
<1> DEFINE id == doing[t].id
<1> DEFINE exe == doing[t].exe
<1>1. doing[t].at = "update" /\ writer = Nobody /\ exe \in BOOLEAN /\ id \in Seconds \cup {0}
      /\ opened /\ UNCHANGED <<opened, file, writer, now, gone>>
  BY DEF CustomInv, CustomTypeOK, ListInv, Update
<1>2. PICK had \in BOOLEAN :
        /\ id \in Listed(games) => games[<<id, had>>] > 0 /\ (had = exe \/ games[<<id, exe>>] < MaxCopies)
        /\ games' = Changed(id, had, exe)
        /\ made' = IF exe /\ id \in Listed(games) THEN made \cup {id} ELSE made \ ({id} \ Ready(games'))
  BY DEF Update
<1>3. doing' = [doing EXCEPT ![t].at = "save"]
  BY DEF Update, Then
<1> HIDE DEF id, exe
<1>4. /\ games' \in Lists /\ Listed(games') = Listed(games)
      /\ made' \subseteq Ready(games') /\ made' \subseteq Seconds
  <2>1. CASE id \in Seconds
    <3>1. /\ games' \in Lists /\ Listed(games') = Listed(games)
          /\ \A other \in Seconds \ {id} : other \in Ready(games') <=> other \in Ready(games)
          /\ id \in Listed(games) /\ exe => id \in Ready(games')
      BY <1>1, <1>2, <2>1, ChangedKeeps DEF CustomInv, CustomTypeOK
    <3>2. made \subseteq Ready(games) /\ Ready(games) \subseteq Seconds
      BY <1>1, ReadyIsListed DEF CustomInv, ListInv
    <3> QED BY <1>2, <2>1, <3>1, <3>2
  <2>2. CASE id \notin Seconds
    <3>1. id \notin Listed(games)
      BY <2>2, ReadyIsListed
    <3>2. games' = games
      BY <1>2, <3>1 DEF Changed
    <3> QED BY <1>1, <1>2, <3>1, <3>2, ReadyIsListed DEF CustomInv, ListInv, CustomTypeOK
  <2> QED BY <2>1, <2>2
<1>5. CustomTypeOK'
  BY <1>1, <1>3, <1>4, LabelType DEF CustomInv, CustomTypeOK
<1>6. ~ NoneSaves'
  BY <1>3, LabelType DEF CustomInv, NoneSaves
<1> QED BY <1>1, <1>4, <1>5, <1>6 DEF CustomInv, ListInv

LEMMA UpdateFailsStep ==
  ASSUME CustomInv, NEW t \in Threads, UpdateFails(t)
  PROVE  CustomInv'
<1>1. CustomTypeOK'
  BY RestingType, DoingType DEF CustomInv, CustomTypeOK, UpdateFails
<1>2. NoneSaves' => NoneSaves
  BY RestingType, DoingType DEF CustomInv, NoneSaves, UpdateFails
<1>3. opened
  BY DEF CustomInv, ListInv, UpdateFails
<1> QED BY <1>1, <1>2, <1>3 DEF CustomInv, ListInv, UpdateFails

LEMMA OpenFileStep ==
  ASSUME CustomInv, NEW t \in Threads, OpenFile(t)
  PROVE  CustomInv'
<1>1. CustomTypeOK'
  <2>1. Nobody \notin Threads
    BY CustomGamesAssumption DEF Threads
  <2>2. /\ doing'[t].at = "write" /\ writer' = t
        /\ \A u \in Threads \ {t} : doing'[u].at # "write"
    BY <2>1, LabelType DEF CustomInv, CustomTypeOK, OpenFile
  <2> QED BY <2>2, LabelType DEF CustomInv, CustomTypeOK, OpenFile
<1>2. ~ NoneSaves'
  BY LabelType DEF CustomInv, NoneSaves, OpenFile
<1>3. opened
  BY DEF CustomInv, ListInv, OpenFile
<1> QED BY <1>1, <1>2, <1>3 DEF CustomInv, ListInv, OpenFile

LEMMA OpenFileFailsStep ==
  ASSUME CustomInv, NEW t \in Threads, OpenFileFails(t)
  PROVE  CustomInv'
<1>1. CustomTypeOK'
  BY RestingType, DoingType DEF CustomInv, CustomTypeOK, OpenFileFails
<1>2. opened
  BY DEF CustomInv, ListInv, OpenFileFails
<1> QED BY <1>1, <1>2 DEF CustomInv, ListInv, OpenFileFails

LEMMA WriteFileStep ==
  ASSUME CustomInv, NEW t \in Threads, WriteFile(t)
  PROVE  CustomInv'
<1>1. doing[t].at = "write"
  BY DEF CustomInv, CustomTypeOK, WriteFile
<1>2. CustomTypeOK'
  <2>1. Nobody \notin Threads
    BY CustomGamesAssumption DEF Threads
  <2> QED BY <1>1, <2>1, RestingType, DoingType DEF CustomInv, CustomTypeOK, WriteFile
<1>3. opened
  BY <1>1 DEF CustomInv, ListInv
<1> QED BY <1>2, <1>3 DEF CustomInv, ListInv, WriteFile
-----------------------------------------------------------------------------
LEMMA ListInit == CustomInit => CustomInv
<1> SUFFICES ASSUME CustomInit PROVE CustomInv
  OBVIOUS
<1>1. CustomTypeOK
  BY RestingType, EmptyList, CustomGamesAssumption DEF CustomInit, CustomTypeOK, Threads
<1>2. ListInv
  BY RestingType DEF CustomInit, ListInv
<1> QED BY <1>1, <1>2 DEF CustomInv

LEMMA ListStep ==
  ASSUME CustomInv, [CustomGamesNext]_customVars
  PROVE  CustomInv'
<1>1. CASE \E steam \in BOOLEAN : OpenProgram(steam)
  BY <1>1, OpenProgramStep
<1>2. CASE CloseProgram \/ AddCustomGame
  BY <1>2, CloseProgramStep, AddCustomGameStep
<1>3. CASE SecondPasses
  BY <1>3 DEF CustomInv, CustomTypeOK, ListInv, NoneSaves, SecondPasses
<1>4. ASSUME NEW id \in Seconds, DeleteCustomGame(id)
      PROVE  CustomInv'
  BY <1>4, DeleteCustomGameStep
<1>5. ASSUME NEW id \in Seconds, NEW t \in Workers, NEW exe \in BOOLEAN, SaveDetails(t, id, exe)
      PROVE  CustomInv'
  BY <1>5, SaveDetailsStep
<1>6. ASSUME NEW t \in Threads, Update(t) \/ UpdateFails(t) \/ OpenFile(t) \/ OpenFileFails(t) \/ WriteFile(t)
      PROVE  CustomInv'
  BY <1>6, UpdateStep, UpdateFailsStep, OpenFileStep, OpenFileFailsStep, WriteFileStep
<1>7. CASE UNCHANGED customVars
  BY <1>7 DEF customVars, CustomInv, CustomTypeOK, ListInv, NoneSaves
<1> QED BY <1>1, <1>2, <1>3, <1>4, <1>5, <1>6, <1>7 DEF CustomGamesNext

LEMMA ListAlways == CustomGamesSpec => []CustomInv
BY ListInit, ListStep, PTL DEF CustomGamesSpec

\* Every variable keeps its type; the file is written by the one thread that
\* holds g_gamesMutex.
THEOREM CustomTypesKept == CustomGamesSpec => []CustomTypeOK
<1>1. CustomInv => CustomTypeOK
  BY DEF CustomInv
<1> QED BY <1>1, ListAlways, PTL

\* However many threads save details, a game that was given an executable stays in
\* the list and in the file.
THEOREM GamesAreKept == CustomGamesSpec => []GamesKept
<1>1. CustomInv => GamesKept
  BY DEF CustomInv, ListInv, NoneSaves, GamesKept, Saved
<1> QED BY <1>1, ListAlways, PTL

\* However many threads are still to save details of a game that was deleted
\* meanwhile, it does not come back, nor with a restart.
THEOREM DeletedGamesStayDeleted == CustomGamesSpec => []DeletedStaysDeleted
<1>1. CustomInv => DeletedStaysDeleted
  BY DEF CustomInv, ListInv, NoneSaves, DeletedStaysDeleted, Saved
<1> QED BY <1>1, ListAlways, PTL
-----------------------------------------------------------------------------
(***************************************************************************)
(* The categories and their copy in settings.ini.                          *)
(***************************************************************************)

\* Where a save can be: a category it writes, or a section behind the last one.
SavingInv ==
  /\ ~ running => saving = NotSaving /\ categories = <<>>
  /\ saving.at = "idle" => saving = NotSaving
  /\ saving.at \in {"name", "games"} => saving.index \in 1..Len(categories)
  /\ saving.at = "clear" => saving.index = 0 \/ saving.index \in Len(categories) + 1 .. MaxCategories + 1

\* What a save has written, and what it has cleared.
WrittenInv ==
  /\ saving.at \in {"name", "games"} => \A i \in 1 .. saving.index - 1 : section[i] = categories[i]
  /\ saving.at = "games" => section[saving.index].name = categories[saving.index].name
  /\ saving.at \in {"clear", "count"} => \A i \in 1..Len(categories) : section[i] = categories[i]
  /\ saving.at = "clear" => \A i \in Len(categories) + 1 .. saving.index - 1 : section[i].name = NoName
  /\ saving.at = "count" => \A i \in Len(categories) + 1 .. count : section[i].name = NoName

\* A section beyond the file's count was left by a save that was cut short, or is
\* being written.
StaleInv ==
  \A i \in Sections :
    i > count /\ section[i].name # NoName =>
      i <= leftover \/ (saving # NotSaving /\ i <= Len(categories))

\* Between saves the list is what was loaded, or what the last save has written.
CopyInv ==
  running /\ saving = NotSaving =>
    \/ categories = LoadCategories
    \/ count = Len(categories) /\ \A i \in 1..Len(categories) : section[i] = categories[i]

CategoriesInv == CategoriesTypeOK /\ SavingInv /\ WrittenInv /\ StaleInv /\ CopyInv
-----------------------------------------------------------------------------
(* The list, and what a load makes of the file. *)

\* The categories in front of the first section that reads as empty.
Loads(n) ==
  /\ n \in 0..MaxCategories
  /\ \A i \in 1..n : ~ ReadsAsEmpty(section[i].name)
  /\ n < MaxCategories => ReadsAsEmpty(section[n + 1].name)

LEMMA SomethingLoads ==
  ASSUME CategoriesTypeOK
  PROVE  \E n \in 0..MaxCategories : Loads(n)
<1> DEFINE T == {n \in Nat : n = MaxCategories \/ (n < MaxCategories /\ ReadsAsEmpty(section[n + 1].name))}
<1>1. MaxCategories \in T
  BY CategoriesAssumption
<1>2. PICK n \in T : \A m \in T : ~ (<<m, n>> \in OpToRel(<, Nat))
  <2>1. T \subseteq Nat /\ T # {}
    BY <1>1
  <2> HIDE DEF T
  <2> QED BY <2>1, NatLessThanWellFounded, WFMin
<1>3. \A m \in T : ~ (m < n)
  <2>1. T \subseteq Nat
    OBVIOUS
  <2> HIDE DEF T
  <2> QED BY <1>2, <2>1 DEF OpToRel
<1>4. n \in 0..MaxCategories
  BY CategoriesAssumption
<1>5. ASSUME NEW i \in 1..n
      PROVE  ~ ReadsAsEmpty(section[i].name)
  <2>1. i - 1 \in Nat /\ i - 1 < n /\ (i - 1) + 1 = i /\ n <= MaxCategories
    BY <1>4
  <2>2. i - 1 \notin T
    BY <1>3, <2>1
  <2> QED BY <2>1, <2>2, CategoriesAssumption
<1>6. n < MaxCategories => ReadsAsEmpty(section[n + 1].name)
  OBVIOUS
<1> QED BY <1>4, <1>5, <1>6 DEF Loads

\* A list comes back with ids only.
LEMMA ReadType ==
  ASSUME NEW list \in SUBSET AppIds
  PROVE  ReadGames(list) \in SUBSET AppIds
<1> DEFINE start(id) == MapThenSumSet(LAMBDA other : Length[other],
                                      {other \in list : NameOrder[other] < NameOrder[id]})
           fits(id) == start(id) + Length[id] <= Buffer
           cut == {other \in list : ~ fits(other) /\ start(other) + 1 < Buffer}
           whole == {id \in list : fits(id)}
<1>1. ReadGames(list) = whole \cup UNION {Fragment[id] : id \in cut}
  BY DEF ReadGames
<1>2. whole \subseteq list /\ cut \subseteq list
  OBVIOUS
<1> HIDE DEF whole, cut
<1> QED BY <1>1, <1>2, CategoriesAssumption

LEMMA ReadIsCategory ==
  ASSUME NEW c, c.name \in Names, c.games \in SUBSET AppIds, ~ ReadsAsEmpty(c.name)
  PROVE  AsRead(c) \in Category
BY ReadType, CategoriesAssumption DEF AsRead, ReadsAsEmpty, Category

LEMMA LoadIs ==
  ASSUME CategoriesTypeOK
  PROVE  \E n \in 0..MaxCategories :
           /\ Loads(n) /\ LoadCategories = [i \in 1..n |-> AsRead(section[i])]
           /\ LoadCategories \in Seq(Category) /\ Len(LoadCategories) = n
<1> DEFINE Reads(n) == /\ \A i \in 1..n : ~ ReadsAsEmpty(section[i].name)
                       /\ n < MaxCategories => ReadsAsEmpty(section[n + 1].name)
           last == CHOOSE n \in 0..MaxCategories : Reads(n)
<1>1. \E n \in 0..MaxCategories : Reads(n)
  BY SomethingLoads DEF Loads
<1>2. last \in 0..MaxCategories /\ Reads(last)
  <2> HIDE DEF Reads
  <2> QED BY <1>1
<1>3. LoadCategories = [i \in 1..last |-> AsRead(section[i])]
  BY DEF LoadCategories
<1>4. Loads(last)
  BY <1>2 DEF Loads
<1> HIDE DEF last
<1>5. \A i \in 1..last : AsRead(section[i]) \in Category
  <2> SUFFICES ASSUME NEW i \in 1..last PROVE AsRead(section[i]) \in Category
    OBVIOUS
  <2>1. i \in Sections /\ ~ ReadsAsEmpty(section[i].name)
    BY <1>2, CategoriesAssumption DEF Sections
  <2>2. section[i].name \in Names /\ section[i].games \in SUBSET AppIds
    BY <2>1 DEF CategoriesTypeOK, ReadsAsEmpty
  <2> QED BY <2>1, <2>2, ReadIsCategory
<1>6. [i \in 1..last |-> AsRead(section[i])] \in Seq(Category) /\ Len([i \in 1..last |-> AsRead(section[i])]) = last
  <2>1. last \in Nat
    BY <1>2
  <2> DEFINE loaded == [i \in 1..last |-> AsRead(section[i])]
  <2>2. loaded \in [1..last -> Category]
    <3> HIDE DEF last
    <3> QED BY <1>5
  <2>3. loaded \in Seq(Category)
    <3> HIDE DEF loaded
    <3> QED BY <2>1, <2>2, SeqDef
  <2>4. Len(loaded) = last
    <3>1. DOMAIN loaded = 1..last
      OBVIOUS
    <3> HIDE DEF loaded
    <3> QED BY <2>1, <2>3, <3>1
  <2> QED BY <2>3, <2>4
<1> QED BY <1>2, <1>3, <1>4, <1>6

LEMMA StartStep ==
  ASSUME CategoriesInv, Start
  PROVE  CategoriesInv'
<1>1. /\ running' /\ categories' = LoadCategories /\ saving = NotSaving
      /\ UNCHANGED <<section, count, saving, leftover>>
  BY DEF Start, CategoriesInv, SavingInv
<1>2. LoadCategories \in Seq(Category) /\ Len(LoadCategories) <= MaxCategories
  BY LoadIs, CategoriesAssumption DEF CategoriesInv
<1>3. CategoriesTypeOK'
  BY <1>1, <1>2 DEF CategoriesInv, CategoriesTypeOK, Start
<1>4. LoadCategories' = LoadCategories
  BY <1>1 DEF LoadCategories
<1> QED BY <1>1, <1>3, <1>4 DEF CategoriesInv, SavingInv, WrittenInv, StaleInv, CopyInv, NotSaving

\* A nonempty set of sections has a last one.
LEMMA LastSection ==
  ASSUME NEW T \in SUBSET Sections, T # {}
  PROVE  \E i \in T : \A j \in T : j <= i
<1> DEFINE U == {MaxCategories - i : i \in T}
<1>1. U \subseteq Nat /\ U # {}
  <2>1. \A i \in T : MaxCategories - i \in Nat
    BY CategoriesAssumption DEF Sections
  <2> QED BY <2>1
<1>2. PICK u \in U : \A v \in U : ~ (<<v, u>> \in OpToRel(<, Nat))
  <2> HIDE DEF U
  <2> QED BY <1>1, NatLessThanWellFounded, WFMin
<1>3. \A v \in U : ~ (v < u)
  <2> HIDE DEF U
  <2> QED BY <1>1, <1>2 DEF OpToRel
<1>4. PICK i \in T : u = MaxCategories - i
  OBVIOUS
<1>5. ASSUME NEW j \in T
      PROVE  j <= i
  <2>1. ~ (MaxCategories - j < u)
    BY <1>3
  <2> QED BY <1>4, <2>1, CategoriesAssumption DEF Sections
<1> QED BY <1>5

LEMMA StopStep ==
  ASSUME CategoriesInv, Stop
  PROVE  CategoriesInv'
<1> DEFINE beyond == {i \in Sections : i > count /\ section[i].name # NoName}
<1>1. /\ ~ running' /\ categories' = <<>> /\ saving' = NotSaving /\ UNCHANGED <<section, count>>
      /\ leftover' = IF beyond = {} THEN leftover
                     ELSE CHOOSE i \in beyond : \A j \in beyond : j <= i
  BY DEF Stop
<1>2. beyond \subseteq Sections
  OBVIOUS
<1>3. leftover' \in 0..MaxCategories /\ \A i \in beyond : i <= leftover'
  <2> HIDE DEF beyond
  <2>1. CASE beyond = {}
    BY <1>1, <2>1 DEF CategoriesInv, CategoriesTypeOK
  <2>2. CASE beyond # {}
    <3>1. \E i \in beyond : \A j \in beyond : j <= i
      BY <1>2, <2>2, LastSection
    <3>2. leftover' = CHOOSE i \in beyond : \A j \in beyond : j <= i
      BY <1>1, <2>2
    <3>3. leftover' \in beyond /\ \A j \in beyond : j <= leftover'
      BY <3>1, <3>2
    <3> QED BY <1>2, <3>3, CategoriesAssumption DEF Sections
  <2> QED BY <2>1, <2>2
<1>4. CategoriesTypeOK'
  <2>1. <<>> \in Seq(Category) /\ Len(<<>>) = 0
    OBVIOUS
  <2>2. NotSaving \in [at : {"idle", "name", "games", "clear", "count"}, index : 0..MaxCategories + 1]
    BY CategoriesAssumption DEF NotSaving
  <2> HIDE DEF beyond
  <2>3. running' \in BOOLEAN
    BY DEF Stop
  <2> QED BY <1>1, <1>3, <2>1, <2>2, <2>3, CategoriesAssumption DEF CategoriesInv, CategoriesTypeOK
<1>5. StaleInv'
  BY <1>1, <1>3 DEF StaleInv
<1> QED BY <1>1, <1>4, <1>5 DEF CategoriesInv, SavingInv, WrittenInv, CopyInv, NotSaving
-----------------------------------------------------------------------------
(* Editing the list. *)

\* Whatever the list becomes, a save of it begins at its start.
LEMMA EditedStep ==
  ASSUME CategoriesInv, NEW list \in Seq(Category), Len(list) <= MaxCategories, Edited(list)
  PROVE  CategoriesInv'
<1>1. /\ running /\ saving = NotSaving /\ categories' = list /\ saving' = After(0, list)
      /\ UNCHANGED <<running, section, count, leftover>>
  BY DEF Edited
<1>2. Len(list) \in 0..MaxCategories
  BY CategoriesAssumption
<1>3. \/ Len(list) > 0 /\ saving'.at = "name" /\ saving'.index = 1
      \/ saving'.at = "clear" /\ saving'.index = 0
  BY <1>1, <1>2 DEF After
<1>4. saving' \in [at : {"idle", "name", "games", "clear", "count"}, index : 0..MaxCategories + 1]
  BY <1>1, <1>2, CategoriesAssumption DEF After
<1>5. CategoriesTypeOK'
  BY <1>1, <1>4 DEF CategoriesInv, CategoriesTypeOK
<1>6. saving' # NotSaving /\ SavingInv'
  BY <1>1, <1>2, <1>3 DEF CategoriesInv, SavingInv, NotSaving
<1>7. WrittenInv'
  <2>1. CASE saving'.at = "name"
    BY <1>3, <2>1 DEF WrittenInv
  <2>2. CASE saving'.at = "clear" /\ Len(list) = 0
    BY <1>1, <1>3, <2>2 DEF WrittenInv
  <2>3. Len(list) > 0 \/ Len(list) = 0
    BY <1>2
  <2>4. saving'.at = "clear" => Len(list) = 0
    BY <1>1, <1>2 DEF After
  <2> QED BY <1>3, <2>1, <2>2, <2>4
<1>8. StaleInv' /\ CopyInv'
  BY <1>1, <1>6 DEF CategoriesInv, StaleInv, CopyInv
<1> QED BY <1>5, <1>6, <1>7, <1>8 DEF CategoriesInv

LEMMA CreateStep ==
  ASSUME CategoriesInv, NEW name \in Names, CreateCategory(name)
  PROVE  CategoriesInv'
<1> DEFINE new == [name |-> name, games |-> {}]
<1>1. new \in Category
  BY DEF Category
<1> HIDE DEF new
<1>2. categories \in Seq(Category) /\ Len(categories) \in Nat /\ Len(categories) < MaxCategories
  BY DEF CategoriesInv, CategoriesTypeOK, CreateCategory
<1>3. Append(categories, new) \in Seq(Category) /\ Len(Append(categories, new)) = Len(categories) + 1
  BY <1>1, <1>2
<1>4. Len(categories) + 1 <= MaxCategories
  BY <1>2, CategoriesAssumption
<1>5. Edited(Append(categories, new))
  BY DEF CreateCategory, new
<1> QED BY <1>3, <1>4, <1>5, EditedStep

LEMMA ChangedGames ==
  ASSUME CategoriesTypeOK, NEW i \in DOMAIN categories, NEW some \in SUBSET AppIds
  PROVE  /\ [categories EXCEPT ![i].games = some] \in Seq(Category)
         /\ Len([categories EXCEPT ![i].games = some]) = Len(categories)
<1>1. categories \in Seq(Category) /\ i \in 1..Len(categories)
  BY DEF CategoriesTypeOK
<1> DEFINE new == [categories[i] EXCEPT !.games = some]
<1>2. new \in Category
  <2>1. categories[i] \in Category
    BY <1>1, ElementOfSeq
  <2> QED BY <2>1 DEF Category
<1>3. [categories EXCEPT ![i].games = some] = [categories EXCEPT ![i] = new]
  OBVIOUS
<1> HIDE DEF new
<1> QED BY <1>1, <1>2, <1>3, ExceptSeq

LEMMA GameStep ==
  ASSUME CategoriesInv, NEW i \in DOMAIN categories, NEW game \in Menu,
         AddGame(i, game) \/ RemoveGame(i, game)
  PROVE  CategoriesInv'
<1>1. /\ categories \in Seq(Category) /\ Len(categories) <= MaxCategories /\ i \in 1..Len(categories)
      /\ game \in AppIds
  BY CategoriesAssumption DEF CategoriesInv, CategoriesTypeOK
<1>2. categories[i].games \in SUBSET AppIds
  <2>1. categories[i] \in Category
    BY <1>1, ElementOfSeq
  <2> QED BY <2>1 DEF Category
<1>3. CASE AddGame(i, game)
  <2> DEFINE some == categories[i].games \cup {game}
  <2>1. Edited([categories EXCEPT ![i].games = some])
    BY <1>3 DEF AddGame
  <2>2. some \in SUBSET AppIds
    BY <1>1, <1>2
  <2> HIDE DEF some
  <2> QED BY <1>1, <2>1, <2>2, ChangedGames, EditedStep DEF CategoriesInv
<1>4. CASE RemoveGame(i, game)
  <2> DEFINE some == categories[i].games \ {game}
  <2>1. Edited([categories EXCEPT ![i].games = some])
    BY <1>4 DEF RemoveGame
  <2>2. some \in SUBSET AppIds
    BY <1>1, <1>2
  <2> HIDE DEF some
  <2> QED BY <1>1, <2>1, <2>2, ChangedGames, EditedStep DEF CategoriesInv
<1> QED BY <1>3, <1>4

LEMMA DeleteStep ==
  ASSUME CategoriesInv, NEW i \in DOMAIN categories, DeleteCategory(i)
  PROVE  CategoriesInv'
<1> DEFINE above == SubSeq(categories, 1, i - 1)
           below == SubSeq(categories, i + 1, Len(categories))
<1>1. /\ categories \in Seq(Category) /\ Len(categories) \in Nat /\ Len(categories) <= MaxCategories
      /\ i \in 1..Len(categories)
  BY DEF CategoriesInv, CategoriesTypeOK
<1>2. \A j \in 1..Len(categories) : categories[j] \in Category
  BY <1>1, ElementOfSeq
<1>3. above \in Seq(Category) /\ Len(above) = i - 1
  <2>1. \A j \in 1 .. i - 1 : categories[j] \in Category
    BY <1>1, <1>2
  <2> QED BY <1>1, <2>1, SubSeqProperties
<1>4. below \in Seq(Category) /\ Len(below) = Len(categories) - i
  <2>1. \A j \in i + 1 .. Len(categories) : categories[j] \in Category
    BY <1>1, <1>2
  <2>2. i + 1 \in Int /\ Len(categories) \in Int /\ (i + 1 <= Len(categories) \/ Len(categories) = i)
    BY <1>1
  <2> QED BY <1>1, <2>1, <2>2, SubSeqProperties
<1>5. Edited(above \o below)
  BY DEF DeleteCategory, RemoveAt
<1> HIDE DEF above, below
<1>6. above \o below \in Seq(Category) /\ Len(above \o below) = Len(categories) - 1
  BY <1>1, <1>3, <1>4, ConcatProperties
<1>7. Len(categories) - 1 <= MaxCategories
  BY <1>1, CategoriesAssumption
<1> QED BY <1>5, <1>6, <1>7, EditedStep

LEMMA MoveStep ==
  ASSUME CategoriesInv, NEW i \in DOMAIN categories, MoveCategory(i)
  PROVE  CategoriesInv'
<1> DEFINE first == [categories EXCEPT ![i] = categories[i - 1]]
           list == [first EXCEPT ![i - 1] = categories[i]]
<1>1. /\ categories \in Seq(Category) /\ Len(categories) \in Nat /\ Len(categories) <= MaxCategories
      /\ i \in 1..Len(categories) /\ i - 1 \in 1..Len(categories)
  BY DEF CategoriesInv, CategoriesTypeOK, MoveCategory
<1>2. categories[i] \in Category /\ categories[i - 1] \in Category
  BY <1>1, ElementOfSeq
<1>3. first \in Seq(Category) /\ Len(first) = Len(categories)
  BY <1>1, <1>2, ExceptSeq
<1>4. Edited(list)
  BY DEF MoveCategory
<1> HIDE DEF first
<1>5. list \in Seq(Category) /\ Len(list) = Len(categories)
  BY <1>1, <1>2, <1>3, ExceptSeq
<1> HIDE DEF list
<1> QED BY <1>1, <1>4, <1>5, EditedStep
-----------------------------------------------------------------------------
(* A save, one write at a time. *)

\* What a write leaves: the list, and where a save of it can be.
LEMMA SavingIs ==
  ASSUME CategoriesInv, saving.at # "idle"
  PROVE  /\ running /\ saving # NotSaving
         /\ categories \in Seq(Category) /\ Len(categories) \in 0..MaxCategories
         /\ \A i \in 1..Len(categories) : i \in Sections /\ categories[i] \in Category
         /\ saving.at \in {"name", "games", "clear", "count"} /\ saving.index \in 0 .. MaxCategories + 1
         /\ saving \in [at : {"idle", "name", "games", "clear", "count"}, index : 0..MaxCategories + 1]
         /\ \A i \in Sections : section[i] \in [name : Names \cup {NoName}, games : SUBSET AppIds]
         /\ count \in 0..MaxCategories /\ leftover \in 0..MaxCategories
<1>1. categories \in Seq(Category) /\ Len(categories) \in 0..MaxCategories
  BY CategoriesAssumption DEF CategoriesInv, CategoriesTypeOK
<1>2. \A i \in 1..Len(categories) : i \in Sections /\ categories[i] \in Category
  BY <1>1, ElementOfSeq, CategoriesAssumption DEF Sections
<1>3. running /\ saving # NotSaving
  BY DEF CategoriesInv, SavingInv, NotSaving
<1> QED BY <1>1, <1>2, <1>3 DEF CategoriesInv, CategoriesTypeOK

LEMMA WriteNameStep ==
  ASSUME CategoriesInv, WriteName
  PROVE  CategoriesInv'
<1> DEFINE s == saving.index
<1>1. /\ saving.at = "name" /\ s \in 1..Len(categories)
      /\ UNCHANGED <<running, categories, count, leftover>>
      /\ saving' = [saving EXCEPT !.at = "games"]
      /\ section' = [section EXCEPT ![s].name = categories[s].name]
  BY DEF WriteName, CategoriesInv, SavingInv
<1>2. /\ saving.at # "idle" /\ s \in Sections /\ categories[s] \in Category
      /\ section[s] \in [name : Names \cup {NoName}, games : SUBSET AppIds]
  BY <1>1, SavingIs
<1>3. saving'.at = "games" /\ saving'.index = s /\ saving' # NotSaving
      /\ saving' \in [at : {"idle", "name", "games", "clear", "count"}, index : 0..MaxCategories + 1]
  BY <1>1, <1>2, SavingIs DEF NotSaving
<1>4. /\ section' \in [Sections -> [name : Names \cup {NoName}, games : SUBSET AppIds]]
      /\ section'[s].name = categories[s].name
      /\ \A i \in Sections \ {s} : section'[i] = section[i]
  BY <1>1, <1>2 DEF CategoriesInv, CategoriesTypeOK, Category
<1> HIDE DEF s
<1>5. CategoriesTypeOK'
  BY <1>1, <1>3, <1>4 DEF CategoriesInv, CategoriesTypeOK
<1>6. SavingInv'
  BY <1>1, <1>2, <1>3, SavingIs DEF SavingInv
<1>7. WrittenInv'
  <2>1. \A i \in 1 .. s - 1 : i \in Sections \ {s} /\ section[i] = categories[i]
    BY <1>1, <1>2, SavingIs DEF CategoriesInv, WrittenInv, s
  <2> QED BY <1>1, <1>3, <1>4, <2>1 DEF WrittenInv
<1>8. StaleInv' /\ CopyInv'
  BY <1>1, <1>2, <1>3, <1>4, SavingIs DEF CategoriesInv, StaleInv, CopyInv
<1> QED BY <1>5, <1>6, <1>7, <1>8 DEF CategoriesInv

LEMMA WriteGamesStep ==
  ASSUME CategoriesInv, WriteGames
  PROVE  CategoriesInv'
<1> DEFINE s == saving.index
<1>1. /\ saving.at = "games" /\ s \in 1..Len(categories)
      /\ UNCHANGED <<running, categories, count, leftover>>
      /\ saving' = After(s, categories)
      /\ section' = [section EXCEPT ![s].games = categories[s].games]
      /\ section[s].name = categories[s].name
  BY DEF WriteGames, CategoriesInv, SavingInv, WrittenInv
<1>2. /\ saving.at # "idle" /\ s \in Sections /\ categories[s] \in Category
      /\ section[s] \in [name : Names \cup {NoName}, games : SUBSET AppIds]
  BY <1>1, SavingIs
<1>3. Len(categories) \in 0..MaxCategories /\ MaxCategories \in Nat
  BY <1>2, SavingIs, CategoriesAssumption
<1>4. /\ section' \in [Sections -> [name : Names \cup {NoName}, games : SUBSET AppIds]]
      /\ section'[s] = categories[s]
      /\ \A i \in Sections \ {s} : section'[i] = section[i]
  BY <1>1, <1>2 DEF CategoriesInv, CategoriesTypeOK, Category
<1> HIDE DEF s
<1>5. /\ s < Len(categories) => saving'.at = "name" /\ saving'.index = s + 1
      /\ s >= Len(categories) => saving'.at = "clear" /\ saving'.index = 0
      /\ saving' \in [at : {"idle", "name", "games", "clear", "count"}, index : 0..MaxCategories + 1]
  BY <1>1, <1>3 DEF After
<1>6. s < Len(categories) \/ s = Len(categories)
  BY <1>1, <1>3
<1>7. CategoriesTypeOK'
  BY <1>1, <1>4, <1>5 DEF CategoriesInv, CategoriesTypeOK
<1>8. SavingInv' /\ saving' # NotSaving
  BY <1>1, <1>2, <1>3, <1>5, <1>6, SavingIs DEF SavingInv, NotSaving
<1>9. \A i \in 1..s : section'[i] = categories[i]
  <2>1. \A i \in 1 .. s - 1 : section[i] = categories[i]
    BY <1>1 DEF CategoriesInv, WrittenInv, s
  <2>2. \A i \in 1..s : i \in Sections /\ (i = s \/ i \in 1 .. s - 1)
    BY <1>1, <1>2, SavingIs
  <2> QED BY <1>4, <2>1, <2>2
<1>10. WrittenInv'
  BY <1>1, <1>3, <1>5, <1>6, <1>9 DEF WrittenInv
<1>11. StaleInv' /\ CopyInv'
  BY <1>1, <1>2, <1>4, <1>8, SavingIs DEF CategoriesInv, StaleInv, CopyInv
<1> QED BY <1>7, <1>8, <1>10, <1>11 DEF CategoriesInv

LEMMA ClearSectionStep ==
  ASSUME CategoriesInv, ClearSection
  PROVE  CategoriesInv'
<1> DEFINE s == IF saving.index = 0 THEN FirstStale ELSE saving.index
<1>1. /\ saving.at = "clear" /\ UNCHANGED <<running, categories, count, leftover>>
      /\ IF s <= count
         THEN section' = [section EXCEPT ![s] = NoSection] /\ saving' = [saving EXCEPT !.index = s + 1]
         ELSE saving' = [saving EXCEPT !.at = "count"] /\ UNCHANGED section
  BY DEF ClearSection
<1>2. /\ Len(categories) \in 0..MaxCategories /\ MaxCategories \in Nat /\ count \in 0..MaxCategories
      /\ saving \in [at : {"idle", "name", "games", "clear", "count"}, index : 0..MaxCategories + 1]
      /\ running
  BY <1>1, SavingIs, CategoriesAssumption
<1>3. s \in Len(categories) + 1 .. MaxCategories + 1
  BY <1>1, <1>2 DEF CategoriesInv, SavingInv, FirstStale
<1>4. /\ \A i \in Len(categories) + 1 .. s - 1 : section[i].name = NoName
      /\ \A i \in 1..Len(categories) : section[i] = categories[i]
  BY <1>1, <1>2 DEF CategoriesInv, WrittenInv, FirstStale
<1> HIDE DEF s
<1>5. CASE s <= count
  <2>1. /\ s \in Sections /\ section' = [section EXCEPT ![s] = NoSection]
        /\ saving'.at = "clear" /\ saving'.index = s + 1 /\ saving' # NotSaving
        /\ saving' \in [at : {"idle", "name", "games", "clear", "count"}, index : 0..MaxCategories + 1]
    BY <1>1, <1>2, <1>3, <1>5 DEF Sections, NotSaving
  <2>2. /\ section' \in [Sections -> [name : Names \cup {NoName}, games : SUBSET AppIds]]
        /\ section'[s].name = NoName
        /\ \A i \in Sections \ {s} : section'[i] = section[i]
    BY <2>1 DEF CategoriesInv, CategoriesTypeOK, NoSection
  <2>3. CategoriesTypeOK'
    BY <1>1, <2>1, <2>2 DEF CategoriesInv, CategoriesTypeOK
  <2>4. SavingInv'
    BY <1>1, <1>2, <1>3, <1>5, <2>1 DEF SavingInv
  <2>5. WrittenInv'
    <3>1. \A i \in 1..Len(categories) : i \in Sections \ {s}
      BY <1>2, <1>3 DEF Sections
    <3>2. \A i \in Len(categories) + 1 .. s : i \in Sections /\ (i = s \/ i \in Len(categories) + 1 .. s - 1)
      BY <1>2, <1>3, <1>5 DEF Sections
    <3>3. \A i \in Len(categories) + 1 .. s : section'[i].name = NoName
      BY <1>4, <2>2, <3>2
    <3>4. (s + 1) - 1 = s
      BY <1>2, <1>3
    <3> QED BY <1>1, <1>4, <2>1, <2>2, <3>1, <3>3, <3>4 DEF WrittenInv
  <2>6. StaleInv' /\ CopyInv'
    BY <1>1, <1>2, <2>1, <2>2 DEF CategoriesInv, StaleInv, CopyInv
  <2> QED BY <2>3, <2>4, <2>5, <2>6 DEF CategoriesInv
<1>6. CASE ~ (s <= count)
  <2>1. /\ UNCHANGED section /\ saving'.at = "count" /\ saving' # NotSaving
        /\ saving' \in [at : {"idle", "name", "games", "clear", "count"}, index : 0..MaxCategories + 1]
    BY <1>1, <1>2, <1>6 DEF NotSaving
  <2>2. \A i \in Len(categories) + 1 .. count : section[i].name = NoName
    BY <1>2, <1>3, <1>4, <1>6
  <2>3. CategoriesTypeOK' /\ SavingInv'
    BY <1>1, <1>2, <2>1 DEF CategoriesInv, CategoriesTypeOK, SavingInv
  <2>4. WrittenInv'
    BY <1>1, <1>4, <2>1, <2>2 DEF WrittenInv
  <2>5. StaleInv' /\ CopyInv'
    BY <1>1, <1>2, <2>1 DEF CategoriesInv, StaleInv, CopyInv, SavingInv, NotSaving
  <2> QED BY <2>3, <2>4, <2>5 DEF CategoriesInv
<1> QED BY <1>5, <1>6

LEMMA WriteCountStep ==
  ASSUME CategoriesInv, WriteCount
  PROVE  CategoriesInv'
<1>1. /\ saving.at = "count" /\ UNCHANGED <<running, categories, section>>
      /\ count' = Len(categories) /\ saving' = NotSaving
      /\ leftover' = IF Len(categories) >= leftover THEN 0 ELSE leftover
  BY DEF WriteCount
<1>2. Len(categories) \in 0..MaxCategories /\ leftover \in 0..MaxCategories /\ count \in 0..MaxCategories /\ running
  BY <1>1, SavingIs
<1>3. CategoriesTypeOK'
  <2>1. NotSaving \in [at : {"idle", "name", "games", "clear", "count"}, index : 0..MaxCategories + 1]
    BY CategoriesAssumption DEF NotSaving
  <2> QED BY <1>1, <1>2, <2>1, CategoriesAssumption DEF CategoriesInv, CategoriesTypeOK
<1>4. SavingInv' /\ WrittenInv'
  BY <1>1, <1>2 DEF SavingInv, WrittenInv, NotSaving
<1>5. CopyInv'
  BY <1>1 DEF CategoriesInv, WrittenInv, CopyInv
<1>6. StaleInv'
  <2> SUFFICES ASSUME NEW i \in Sections, i > Len(categories), section[i].name # NoName
               PROVE  i <= leftover'
    BY <1>1 DEF StaleInv
  <2>1. i \in Nat /\ i > count
    BY <1>1, <1>2, CategoriesAssumption DEF CategoriesInv, WrittenInv, Sections
  <2>2. i <= leftover
    BY <1>2, <2>1 DEF CategoriesInv, StaleInv
  <2> QED BY <1>1, <1>2, <2>1, <2>2
<1> QED BY <1>3, <1>4, <1>5, <1>6 DEF CategoriesInv
-----------------------------------------------------------------------------
LEMMA CategoriesStart == CategoriesInit => CategoriesInv
<1> SUFFICES ASSUME CategoriesInit PROVE CategoriesInv
  OBVIOUS
<1>1. CategoriesTypeOK
  <2>1. categories \in Seq(Category) /\ Len(categories) <= MaxCategories
    BY EmptySeq, CategoriesAssumption DEF CategoriesInit
  <2>2. NotSaving \in [at : {"idle", "name", "games", "clear", "count"}, index : 0..MaxCategories + 1]
    BY CategoriesAssumption DEF NotSaving
  <2>3. section \in [Sections -> [name : Names \cup {NoName}, games : SUBSET AppIds]]
    BY DEF CategoriesInit, NoSection
  <2>4. running \in BOOLEAN
    BY DEF CategoriesInit
  <2>5. saving = NotSaving /\ count = 0 /\ leftover = 0
    BY DEF CategoriesInit
  <2>6. 0 \in 0..MaxCategories
    BY CategoriesAssumption
  <2> QED BY <2>1, <2>2, <2>3, <2>4, <2>5, <2>6 DEF CategoriesTypeOK
<1> QED BY <1>1 DEF CategoriesInv, CategoriesInit, SavingInv, WrittenInv, StaleInv, CopyInv, NotSaving, NoSection

LEMMA CategoriesStep ==
  ASSUME CategoriesInv, [CategoriesNext]_catVars
  PROVE  CategoriesInv'
<1>1. ASSUME NEW i \in DOMAIN categories,
             \/ \E game \in Menu : AddGame(i, game) \/ RemoveGame(i, game)
             \/ DeleteCategory(i) \/ MoveCategory(i)
      PROVE  CategoriesInv'
  BY <1>1, GameStep, DeleteStep, MoveStep
<1>2. CASE UNCHANGED catVars
  <2>1. LoadCategories' = LoadCategories
    BY <1>2 DEF catVars, LoadCategories
  <2> QED BY <1>2, <2>1
    DEF catVars, CategoriesInv, CategoriesTypeOK, SavingInv, WrittenInv, StaleInv, CopyInv
<1> QED BY <1>1, <1>2, StartStep, StopStep, CreateStep, WriteNameStep, WriteGamesStep, ClearSectionStep,
           WriteCountStep DEF CategoriesNext

LEMMA CategoriesAlways == CategoriesSpec => []CategoriesInv
BY CategoriesStart, CategoriesStep, PTL DEF CategoriesSpec

\* What a restart would load, between saves.
LEMMA LoadsAsShown ==
  ASSUME CategoriesInv
  PROVE  SavedAsShown
<1> DEFINE Read(n) == [i \in 1..n |-> AsRead(categories[i])]
<1> SUFFICES ASSUME running, saving = NotSaving, leftover = 0
             PROVE  \E n \in 0..Len(categories) :
                      /\ LoadCategories \in {SubSeq(categories, 1, n), Read(n)}
                      /\ n < Len(categories) => ReadsAsEmpty(categories[n + 1].name)
  BY DEF SavedAsShown
<1>1. categories \in Seq(Category) /\ Len(categories) \in 0..MaxCategories
  BY CategoriesAssumption DEF CategoriesInv, CategoriesTypeOK
<1>2. CASE categories = LoadCategories
  <2>1. SubSeq(categories, 1, Len(categories)) = categories
    BY <1>1, SubSeqFull
  <2>2. Len(categories) \in 0..Len(categories) /\ ~ (Len(categories) < Len(categories))
    BY <1>1
  <2> HIDE DEF Read
  <2> QED BY <1>2, <2>1, <2>2
<1>3. CASE count = Len(categories) /\ \A i \in 1..Len(categories) : section[i] = categories[i]
  <2>1. PICK n \in 0..MaxCategories : Loads(n) /\ LoadCategories = [i \in 1..n |-> AsRead(section[i])]
    BY LoadIs DEF CategoriesInv
  <2>2. n \in 0..Len(categories)
    <3>1. SUFFICES ASSUME n > Len(categories) PROVE FALSE
      BY <1>1, CategoriesAssumption
    <3> DEFINE i == Len(categories) + 1
    <3>2. i \in 1..n /\ i \in Sections /\ i > count /\ ~ (i <= 0)
      BY <1>1, <1>3, <3>1, CategoriesAssumption DEF Sections
    <3>3. section[i].name # NoName
      BY <2>1, <3>2 DEF Loads, ReadsAsEmpty
    <3> QED BY <3>2, <3>3 DEF CategoriesInv, StaleInv
  <2>3. LoadCategories = Read(n)
    <3>1. \A i \in 1..n : section[i] = categories[i]
      BY <1>1, <1>3, <2>2
    <3> QED BY <2>1, <3>1
  <2>4. n < Len(categories) => ReadsAsEmpty(categories[n + 1].name)
    <3> SUFFICES ASSUME n < Len(categories) PROVE ReadsAsEmpty(categories[n + 1].name)
      OBVIOUS
    <3>1. n < MaxCategories /\ n + 1 \in 1..Len(categories)
      BY <1>1, <2>2, CategoriesAssumption
    <3> QED BY <1>3, <2>1, <3>1 DEF Loads
  <2> HIDE DEF Read
  <2> QED BY <2>2, <2>3, <2>4
<1> QED BY <1>2, <1>3 DEF CategoriesInv, CopyInv

\* Every variable of the categories keeps its type, and a save never writes a section
\* that the file has no room for.
THEOREM CategoriesTypesKept == CategoriesSpec => []CategoriesTypeOK
<1>1. CategoriesInv => CategoriesTypeOK
  BY DEF CategoriesInv
<1> QED BY <1>1, CategoriesAlways, PTL

\* However categories were created, deleted, moved and filled, and wherever the program
\* ended: between saves a restart brings back the list the window shows, each category as
\* it is read back, up to the first name that reads as empty, unless a save that was cut
\* short has left a section beyond the count.
THEOREM CategoriesSavedAsShown == CategoriesSpec => []SavedAsShown
<1>1. CategoriesInv => SavedAsShown
  BY LoadsAsShown
<1> QED BY <1>1, CategoriesAlways, PTL
-----------------------------------------------------------------------------
(***************************************************************************)
(* The three together.                                                     *)
(***************************************************************************)

\* A step of one part leaves the others as they are.
LEMMA PartStep ==
  ASSUME [AllNext]_<<vars, catVars, customVars, part>>
  PROVE  [Next]_vars /\ [CategoriesNext]_catVars /\ [CustomGamesNext]_customVars
<1>1. CASE part = "launcher" /\ Next /\ UNCHANGED <<catVars, customVars>>
  BY <1>1
<1>2. CASE part = "categories" /\ CategoriesNext /\ UNCHANGED <<vars, customVars>>
  BY <1>2
<1>3. CASE part = "list" /\ CustomGamesNext /\ UNCHANGED <<vars, catVars>>
  BY <1>3
<1>4. CASE UNCHANGED <<vars, catVars, customVars, part>>
  BY <1>4
<1> QED BY <1>1, <1>2, <1>3, <1>4 DEF AllNext

\* The games as they are model-checked behave as each part does by itself, so that what
\* is proved of a part holds of the whole.
THEOREM PartsKept == AllSpec => Spec /\ CategoriesSpec /\ CustomGamesSpec
<1>1. AllInit => Init /\ CategoriesInit /\ CustomInit
  BY DEF AllInit
<1>2. [AllNext]_<<vars, catVars, customVars, part>> =>
        [Next]_vars /\ [CategoriesNext]_catVars /\ [CustomGamesNext]_customVars
  BY PartStep
<1> QED BY <1>1, <1>2, PTL DEF AllSpec, Spec, CategoriesSpec, CustomGamesSpec

\* Every variable of the three parts keeps its type.
THEOREM GamesTypesKept == AllSpec => []GamesTypeOK
<1>1. TypeOK /\ CategoriesTypeOK /\ CustomTypeOK => GamesTypeOK
  BY DEF GamesTypeOK
<1> QED BY <1>1, PartsKept, LauncherTypesKept, CategoriesTypesKept, CustomTypesKept, PTL
==============================================================================
