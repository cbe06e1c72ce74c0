---------------------------- MODULE CustomGames ----------------------------
(***************************************************************************)
(* The custom games of a station and their file custom_games.json          *)
(* (steam_games.cpp, window_proc.cpp).  The window's thread adds and       *)
(* deletes games; details are saved by a detached thread each, which may   *)
(* come after changes that were made later.  Every change is followed by a *)
(* save of the whole list, under g_gamesMutex; opening the file for a save *)
(* empties it.                                                             *)
(***************************************************************************)
EXTENDS Naturals

CONSTANTS
  Seconds,    \* bound: the values of time() at which games are added
  Workers,    \* bound: detached threads at a time
  MaxCopies,  \* bound: games added within one second
  UI, Nobody

ASSUME CustomGamesAssumption ==
  /\ Seconds \subseteq Nat /\ MaxCopies \in Nat \ {0}
  /\ UI \notin Workers /\ Nobody \notin Workers \cup {UI}

VARIABLES
  opened,  \* does the program run
  games,   \* the custom games in g_games, in any order
  file,    \* custom_games.json, Cut when it is empty or breaks off
  doing,   \* what the window's thread and the detached threads are at
  writer,  \* who writes the file, and thereby holds g_gamesMutex
  now,     \* time()
  made,    \* history: games the user gave an executable; those that were given up
           \* for lost (with a cut file, a save that did not come about, or a start
           \* without Steam) are taken out
  gone     \* history: games the user deleted, but for deletions that were not saved

customVars == <<opened, games, file, doing, writer, now, made, gone>>

Threads == Workers \cup {UI}

\* A game's appid is the second it was added in, so that games of one second are
\* not told apart; it has an executable, or has none yet.
Kinds == Seconds \X BOOLEAN
Lists == [Kinds -> 0..MaxCopies]
NoGames == [k \in Kinds |-> 0]
Cut == <<>>

Ready(list) == {id \in Seconds : list # Cut /\ list[<<id, TRUE>>] > 0}
Listed(list) == {id \in Seconds : list # Cut /\ \E exe \in BOOLEAN : list[<<id, exe>>] > 0}
Resting == [at |-> "idle", id |-> 0, exe |-> FALSE]

CustomTypeOK ==
  /\ opened \in BOOLEAN
  /\ games \in Lists /\ file \in Lists \cup {Cut}
  /\ doing \in [Threads -> [at : {"idle", "update", "save", "write"}, id : Seconds \cup {0}, exe : BOOLEAN]]
  /\ writer \in Threads \cup {Nobody}
  /\ \A t \in Threads : doing[t].at = "write" <=> writer = t
  /\ now \in Seconds /\ made \subseteq Seconds /\ gone \subseteq Seconds

CustomInit ==
  /\ opened = FALSE /\ games = NoGames /\ file = NoGames
  /\ doing = [t \in Threads |-> Resting] /\ writer = Nobody
  /\ now \in Seconds /\ (\A s \in Seconds : now <= s)
  /\ made = {} /\ gone = {}
-----------------------------------------------------------------------------
(* The program starts and ends. *)

\* LoadCustomGames leaves out the games without an executable.
LoadCustomGames ==
  IF file = Cut THEN NoGames ELSE [k \in Kinds |-> IF k[2] THEN file[k] ELSE 0]

\* LoadSteamGames returns before it when Steam's path is not found.
OpenProgram(steam) ==
  /\ ~ opened
  /\ opened' = TRUE
  /\ games' = IF steam THEN LoadCustomGames ELSE NoGames
  /\ made' = IF steam THEN made ELSE {}
  /\ UNCHANGED <<file, doing, writer, now, gone>>

\* Closing the window waits for no detached thread; nor does a crash.
CloseProgram ==
  /\ opened
  /\ opened' = FALSE /\ games' = NoGames
  /\ doing' = [t \in Threads |-> Resting] /\ writer' = Nobody
  /\ IF \E t \in Threads : doing[t].at \in {"save", "write"}
     THEN made' = made \cap Ready(file) /\ gone' = gone \ Listed(file)
     ELSE UNCHANGED <<made, gone>>
  /\ UNCHANGED <<file, now>>

SecondPasses ==
  /\ now + 1 \in Seconds
  /\ now' = now + 1
  /\ UNCHANGED <<opened, games, file, doing, writer, made, gone>>
-----------------------------------------------------------------------------
(* The window's thread.  It takes g_gamesMutex, so that no save is under way. *)

UIRests == opened /\ doing[UI].at = "idle" /\ writer = Nobody

\* ID_BUTTON_ADD_CUSTOM_GAME
AddCustomGame ==
  /\ UIRests /\ games[<<now, FALSE>>] < MaxCopies
  /\ games' = [games EXCEPT ![<<now, FALSE>>] = @ + 1]
  /\ doing' = [doing EXCEPT ![UI].at = "save"]
  /\ gone' = gone \ {now}
  /\ UNCHANGED <<opened, file, writer, now, made>>

\* ID_BUTTON_DELETE_CUSTOM_GAME: every game with that appid.
DeleteCustomGame(id) ==
  /\ UIRests /\ id \in Listed(games)
  /\ games' = [k \in Kinds |-> IF k[1] = id THEN 0 ELSE games[k]]
  /\ doing' = [doing EXCEPT ![UI].at = "save"]
  /\ made' = made \ {id} /\ gone' = gone \cup {id}
  /\ UNCHANGED <<opened, file, writer, now>>

\* ID_BUTTON_SAVE_CACHE: a detached thread takes what the window shows.
SaveDetails(t, id, exe) ==
  /\ UIRests /\ id \in Listed(games)
  /\ t \in Workers /\ doing[t].at = "idle"
  /\ doing' = [doing EXCEPT ![t] = [at |-> "update", id |-> id, exe |-> exe]]
  /\ UNCHANGED <<opened, games, file, writer, now, made, gone>>
-----------------------------------------------------------------------------
(* A detached thread. *)

\* The list with one of the games id, of those that have an executable or not,
\* given one or deprived of it.
ChangedAnew(id, had, exe) ==
  IF had = exe THEN games
  ELSE IF id \notin Listed(games) THEN [games EXCEPT ![<<id, exe>>] = 1]
  ELSE [games EXCEPT ![<<id, had>>] = @ - 1, ![<<id, exe>>] = @ + 1]

Changed(id, had, exe) ==
  IF id \notin Listed(games) \/ had = exe THEN games
  ELSE [games EXCEPT ![<<id, had>>] = @ - 1, ![<<id, exe>>] = @ + 1]

\* What follows the change of a game.
ThenNothing == "idle"

Then == "save"

\* The game's metadata are in the cache; the game itself may be gone by now.
Update(t) ==
  /\ t \in Workers /\ doing[t].at = "update" /\ writer = Nobody
  /\ LET id == doing[t].id
         exe == doing[t].exe
     IN  \E had \in BOOLEAN :
           /\ id \in Listed(games) => games[<<id, had>>] > 0 /\ (had = exe \/ games[<<id, exe>>] < MaxCopies)
           /\ games' = Changed(id, had, exe)
           /\ made' = IF exe /\ id \in Listed(games) THEN made \cup {id} ELSE made \ ({id} \ Ready(games'))
  /\ doing' = [doing EXCEPT ![t].at = Then]
  /\ UNCHANGED <<opened, file, writer, now, gone>>

\* The metadata cannot be saved: the game stays as it is.
UpdateFails(t) ==
  /\ t \in Workers /\ doing[t].at = "update"
  /\ doing' = [doing EXCEPT ![t] = Resting]
  /\ UNCHANGED <<opened, games, file, writer, now, made, gone>>
-----------------------------------------------------------------------------
(* SaveCustomGames, on any thread. *)

\* The list is taken down and the file opened, which empties it.
OpenFile(t) ==
  /\ doing[t].at = "save" /\ writer = Nobody
  /\ writer' = t /\ file' = Cut
  /\ doing' = [doing EXCEPT ![t].at = "write"]
  /\ UNCHANGED <<opened, games, now, made, gone>>

\* The file cannot be opened: what was to be saved is in memory only.
OpenFileFails(t) ==
  /\ doing[t].at = "save" /\ writer = Nobody
  /\ doing' = [doing EXCEPT ![t] = Resting]
  /\ made' = made \cap Ready(file) /\ gone' = gone \ Listed(file)
  /\ UNCHANGED <<opened, games, file, writer, now>>

WriteFileLocked(t) ==
  /\ writer = t /\ doing[t].at = "write"
  /\ file' = games
  /\ doing' = [doing EXCEPT ![t] = Resting]
  /\ UNCHANGED <<opened, games, writer, now, made, gone>>

WriteFile(t) ==
  /\ writer = t
  /\ file' = games /\ writer' = Nobody
  /\ doing' = [doing EXCEPT ![t] = Resting]
  /\ UNCHANGED <<opened, games, now, made, gone>>

CustomGamesNext ==
  \/ \E steam \in BOOLEAN : OpenProgram(steam)
  \/ CloseProgram \/ SecondPasses \/ AddCustomGame
  \/ \E id \in Seconds : DeleteCustomGame(id) \/ \E t \in Workers, exe \in BOOLEAN : SaveDetails(t, id, exe)
  \/ \E t \in Threads : Update(t) \/ UpdateFails(t) \/ OpenFile(t) \/ OpenFileFails(t) \/ WriteFile(t)

CustomGamesSpec == CustomInit /\ [][CustomGamesNext]_customVars
-----------------------------------------------------------------------------
(* Properties. *)

Saved == opened /\ \A t \in Threads : doing[t].at \notin {"save", "write"}

\* A game the user has given an executable is in the list and in the file from the
\* end of that save on, over restarts and whatever the threads save meanwhile,
\* unless the program ended within a save (the file is emptied first), the file
\* could not be opened, or Steam was not found at a start.
GamesKept == Saved => made \subseteq Ready(games) \cap Ready(file)

\* A deleted game does not come back, by a detached thread that was still to save
\* its details or by a restart.
DeletedStaysDeleted ==
  Saved => gone \cap (Listed(games) \cup Listed(file)) = {}
=============================================================================
