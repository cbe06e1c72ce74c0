------------------------------- MODULE Venue -------------------------------
(***************************************************************************)
(* The front desk and the stations: the master controller's list of        *)
(* stations (server.cpp, station.cpp, util.cpp), the commands and groups   *)
(* of its window (ui.cpp), the station's end of the connection             *)
(* (network.cpp, StationLink has its threads) and, of the session, whether *)
(* time is left (Station has the rest).                                    *)
(*                                                                         *)
(* Threads: the window's (ui), one handler per connection (HandleClient),  *)
(* and on each station the receive thread and the window's, which both     *)
(* start and end sessions and report it later.  No lock guards g_stations; *)
(* g_logMutex guards the log, and HandleClient holds it while it adds its  *)
(* row.  What a thread does between two blocking calls is one step.        *)
(*                                                                         *)
(* A connection carries two streams; recv returns one message or several   *)
(* run together, and both ends look at the beginning of what they got.     *)
(***************************************************************************)
EXTENDS Naturals, Sequences, FiniteSets, SequencesExt, FiniteSetsExt

CONSTANTS
  Stations,    \* the stations' names
  Groups,      \* group numbers; GROUP_NONE is 0
  Conns,       \* connections; one is used again when both ends are done with it
  MaxLeft,     \* bound: time units a session may have left
  Evenings,    \* what may happen in one behaviour (see Evening)
  Numbered,    \* stations whose name contains their address
  NoConn, NoName

GroupNone == 0

Unknown == 99

Commands == {"start", "stop", "plus", "set"}

\* The buttons staff press, whether they change groups, the stations where
\* sessions also start and run out, the groups saved before, and which of these
\* happen, once each: a station drops out, the server is stopped, the master
\* ends, a save of the groups goes wrong.  Bounds: lines is how many connections
\* there may be at a time, queue how many messages under way in one direction.
Evening == [commands : SUBSET Commands, regroup : BOOLEAN, time : SUBSET Stations,
            saved : [Stations -> Groups \cup {GroupNone, Unknown}],
            faults : SUBSET {"drop", "stop", "end", "save"}, lines : Nat, queue : Nat]

ASSUME VenueAssumption ==
  /\ Groups \subseteq Nat \ {GroupNone} /\ IsFiniteSet(Groups) /\ Groups # {}
  /\ Unknown \notin Groups
  /\ Stations # {}
  /\ MaxLeft \in Nat \ {0}
  /\ Evenings \subseteq Evening
  /\ Numbered \subseteq Stations
  /\ NoConn \notin Conns /\ NoName \notin Stations

VARIABLES
  server,      \* "listening", "off", "dead" (thread ended, still marked running), "down"
  rows,        \* g_stations
  groups,      \* g_stationGroups: name -> group, Unknown if it has none
  file,        \* station_groups.txt, as LoadStationGroups reads it
  ui,          \* the window's thread and the command it is sending
  conn,        \* connection -> its two ends, its streams and its handler
  sock,        \* station -> g_clientSocket, while connected
  left,        \* station -> time left of its session, 0 if none runs
  unsent,      \* station -> thread -> the report it has still to send
  evening,     \* the evening this is
  faults,      \* what may still go wrong
  wish,        \* history: station -> the group staff last gave it
  forgotten,   \* history: stations whose group the master may have lost
  misled       \* history: connections whose last report came in behind another,
               \* was crossed, or is still to come

desk == <<server, rows, groups, file, ui>>
stations == <<sock, left, unsent>>
history == <<wish, forgotten, misled>>
vars == <<desk, conn, stations, evening, faults, history>>

\* A station's threads: its window's, which counts down, and the receive thread.
Threads == {"window", "receive"}

\* A crossed report is sent after the station's other thread has begun or ended
\* a session: a "late" SESSION_STARTED or TIME_LEFT, a "stale" SESSION_STOPPED.
Reports == {"name", "started", "time", "stopped", "late", "stale"}

Crossed(report) ==
  CASE report \in {"started", "time"} -> "late"
    [] report = "stopped" -> "stale"
    [] OTHER -> report

Silent == [t \in Threads |-> "none"]

Orders == {"start", "add", "stop"}

Row == [conn : Conns \cup {NoConn}, name : Stations \cup {NoName}, active : BOOLEAN,
        group : Groups \cup {GroupNone}]

Known == [Stations -> Groups \cup {GroupNone, Unknown}]

TypeOK ==
  /\ server \in {"listening", "off", "dead", "down"}
  /\ rows \in Seq(Row)
  /\ groups \in Known /\ file \in Known
  /\ ui \in [at : {"idle", "send", "nap", "log", "save"}, cmd : Commands \cup {"none"},
             groups : SUBSET Groups, singles : SUBSET Nat, i : Nat,
             chosen : SUBSET Stations, shifted : BOOLEAN]
  /\ conn \in [Conns -> [of : Stations, ends : SUBSET {"station", "master"},
                         up : Seq(Reports), down : Seq(Orders),
                         at : {"none", "greet", "list", "recv", "gone", "stuck"}]]
  /\ sock \in [Stations -> Conns \cup {NoConn}]
  /\ left \in [Stations -> 0 .. MaxLeft]
  /\ unsent \in [Stations -> [Threads -> (Reports \ {"name"}) \cup {"none"}]]
  /\ evening \in Evenings /\ faults \subseteq evening.faults
  /\ wish \in [Stations -> Groups \cup {GroupNone}]
  /\ forgotten \subseteq Stations
  /\ misled \subseteq Conns

Idle == [at |-> "idle", cmd |-> "none", groups |-> {}, singles |-> {}, i |-> 1,
         chosen |-> {}, shifted |-> FALSE]

\* A connection nobody uses.
Fresh == [of |-> CHOOSE s \in Stations : TRUE, ends |-> {}, up |-> <<>>, down |-> <<>>, at |-> "none"]

\* Connection k with some ends open and its handler at a place.
With(k, ends, at) ==
  IF ends = {} /\ at = "none" THEN Fresh
  ELSE [k EXCEPT !.ends = ends, !.at = at,
                 !.up = IF "master" \in ends THEN @ ELSE <<>>,
                 !.down = IF "station" \in ends THEN @ ELSE <<>>]

Init ==
  /\ server = "listening" /\ rows = <<>> /\ ui = Idle
  /\ evening \in Evenings
  /\ groups = evening.saved /\ file = groups
  /\ conn = [c \in Conns |-> Fresh]
  /\ sock = [s \in Stations |-> NoConn] /\ left = [s \in Stations |-> 0]
  /\ unsent = [s \in Stations |-> Silent]
  /\ faults = evening.faults
  /\ wish = [s \in Stations |-> IF groups[s] = Unknown THEN GroupNone ELSE groups[s]]
  /\ forgotten = {} /\ misled = {}
-----------------------------------------------------------------------------
(* The list of stations. *)

\* FindStationIndexBySock, as a set.
RowOf(c) == {i \in DOMAIN rows : rows[i].conn = c}

\* HandleClient holds g_logMutex while it adds its row; LogMessage waits for it.
LogFree == \A c \in Conns : conn[c].at \notin {"list", "stuck"}

\* SaveStationGroups writes the rows there are; of two with one name
\* LoadStationGroups keeps the later.
Saved(list) ==
  [s \in Stations |->
     LET named == {i \in DOMAIN list : list[i].name = s}
     IN  IF named = {} THEN Unknown ELSE list[Max(named)].group]

\* The file is emptied and then written row by row.
CutShort(list) == {Saved(SubSeq(list, 1, n)) : n \in 0 .. Len(list)}

\* A save of the rows.  It goes wrong when the file cannot be opened or written,
\* or when another thread writes it at the same time.
Saves(list) ==
  \/ file' = Saved(list) /\ UNCHANGED <<faults, forgotten>>
  \/ /\ "save" \in faults
     /\ file' \in {file} \cup CutShort(list)
     /\ faults' = faults \ {"save"} /\ forgotten' = Stations

\* RemoveStationRow: the row found is erased.
Without(c) == IF RowOf(c) = {} THEN rows ELSE RemoveAt(rows, Min(RowOf(c)))

\* An element was erased while the window's thread was counting on its place.
Shifts == ui' = [ui EXCEPT !.shifted = ui.at # "idle"]
-----------------------------------------------------------------------------
(* The stations' end of the connection. *)

\* What station s sends, while it is connected.
Sending(s, report) ==
  IF sock[s] = NoConn THEN conn
  ELSE [conn EXCEPT ![sock[s]].up = IF "master" \in conn[sock[s]].ends THEN Append(@, report) ELSE @]

Room(s) == sock[s] # NoConn => Len(conn[sock[s]].up) < evening.queue

\* ConnectToMaster: the listen queue takes the connection, the server's thread
\* accepts it later.  The name is sent at once, the session is not mentioned.
ConnectToMaster(s, c) ==
  /\ sock[s] = NoConn /\ server = "listening" /\ conn[c] = Fresh
  /\ Cardinality({d \in Conns : conn[d] # Fresh}) < evening.lines
  /\ conn' = [conn EXCEPT ![c] = [of |-> s, ends |-> {"station", "master"},
                                  up |-> <<"name">>, down |-> <<>>, at |-> "none"]]
  /\ sock' = [sock EXCEPT ![s] = c]
  /\ misled' = IF left[s] > 0 THEN misled \cup {c} ELSE misled \ {c}
  /\ UNCHANGED <<desk, left, unsent, evening, faults, wish, forgotten>>

Hangs(s) ==
  /\ conn' = [conn EXCEPT ![sock[s]] = With(@, @.ends \ {"station"}, @.at)]
  /\ sock' = [sock EXCEPT ![s] = NoConn]

\* The receive thread reads that the master closed, or a report cannot be sent.
LinkLost(s) ==
  /\ sock[s] # NoConn /\ "master" \notin conn[sock[s]].ends
  /\ Hangs(s)
  /\ UNCHANGED <<desk, left, unsent, evening, faults, history>>

\* The network fails, or the station's program or computer restarts and its
\* threads are gone.  A session goes on: its end is saved.
StationRestarts(s) ==
  /\ sock[s] # NoConn /\ "drop" \in faults
  /\ Hangs(s)
  /\ unsent' \in {unsent, [unsent EXCEPT ![s] = Silent]}
  /\ faults' = faults \ {"drop"}
  /\ UNCHANGED <<desk, left, evening, history>>

\* Thread t of station s sets the time left and is to report it: g_SessionRunning
\* is set, then the thread is held up by the window, by a game being ended or by
\* the network before it sends.
Sets(s, t, time, report) ==
  /\ unsent[s][t] = "none"
  /\ left' = [left EXCEPT ![s] = time]
  /\ unsent' = [unsent EXCEPT ![s] =
       [u \in Threads |-> IF u = t THEN report
                          ELSE IF (left[s] > 0) # (time > 0) THEN Crossed(unsent[s][u])
                          ELSE unsent[s][u]]]

\* ParseCommand looks at the beginning of what recv returned.  A session that the
\* countdown ends after StopSession has looked is reported ended by both.
ParseCommand(s) ==
  LET c == sock[s]
      first == Head(conn[c].down)
  IN  /\ c # NoConn /\ conn[c].down # <<>>
      /\ \E taken \in 1 .. Len(conn[c].down) :
           conn' = [conn EXCEPT ![c].down = SubSeq(@, taken + 1, Len(@))]
      /\ \/ first = "start" /\ Sets(s, "receive", 1, "started")
         \/ first = "add" /\ left[s] > 0 /\ Sets(s, "receive", Min({left[s] + 1, MaxLeft}), "time")
         \/ first = "stop" /\ (left[s] > 0 \/ s \in evening.time) /\ Sets(s, "receive", 0, "stopped")
         \/ first # "start" /\ left[s] = 0 /\ Sets(s, "receive", 0, "none")
      /\ UNCHANGED <<desk, sock, evening, faults, history>>

\* A session started at the station itself.
StartSession(s) ==
  /\ s \in evening.time /\ left[s] = 0
  /\ Sets(s, "window", MaxLeft, "started")
  /\ UNCHANGED <<desk, conn, sock, evening, faults, history>>

\* The countdown.
Tick(s) ==
  /\ s \in evening.time /\ left[s] > 0
  /\ \E time \in {left[s], left[s] - 1} :
       Sets(s, "window", time, IF time = 0 THEN "stopped" ELSE "time")
  /\ UNCHANGED <<desk, conn, sock, evening, faults, history>>

\* SendToMaster
SendToMaster(s, t) ==
  /\ unsent[s][t] # "none" /\ Room(s)
  /\ conn' = Sending(s, unsent[s][t])
  /\ unsent' = [unsent EXCEPT ![s][t] = "none"]
  /\ UNCHANGED <<desk, sock, left, evening, faults, history>>
-----------------------------------------------------------------------------
(* The master's threads for connections. *)

Accept(c) ==
  /\ server = "listening" /\ conn[c].ends # {} /\ "master" \in conn[c].ends
  /\ conn[c].at = "none"
  /\ conn' = [conn EXCEPT ![c].at = "greet"]
  /\ UNCHANGED <<desk, stations, evening, faults, history>>

\* accept() fails when the station has hung up by then, and the thread ends.
AcceptFails(c) ==
  /\ server = "listening" /\ conn[c].ends = {"master"} /\ conn[c].at = "none"
  /\ server' = "dead"
  /\ conn' = [d \in Conns |-> IF conn[d].at = "none" THEN With(conn[d], conn[d].ends \ {"master"}, "none")
                              ELSE conn[d]]
  /\ UNCHANGED <<rows, groups, file, ui, stations, evening, faults, history>>

\* Connection c is one of station s.
Uses(c, s) == conn[c] # Fresh /\ conn[c].of = s

\* HandleClient's first part, under the log's mutex.  A saved name that contains
\* the address is taken at once, and logged, with the mutex already held.
Greet(c) ==
  LET s == conn[c].of
      saved == s \in Numbered /\ groups[s] # Unknown
  IN  /\ conn[c].at = "greet" /\ LogFree
      /\ rows' = Append(rows, [conn |-> c, active |-> FALSE,
                               name |-> IF saved THEN s ELSE NoName,
                               group |-> IF saved THEN groups[s] ELSE GroupNone])
      /\ \E at \in IF saved THEN {"list", "stuck"} ELSE {"list"} :
           conn' = [conn EXCEPT ![c].at = at]
      /\ forgotten' = IF \E d \in Conns \ {c} : Uses(d, s) THEN forgotten \cup {s} ELSE forgotten
      /\ UNCHANGED <<server, groups, file, ui, stations, evening, faults, wish, misled>>

\* AddStationRow sends messages to the list view, which the window's thread
\* answers when it is back in its loop.
AddStationRow(c) ==
  /\ conn[c].at = "list" /\ ui.at = "idle"
  /\ conn' = [conn EXCEPT ![c].at = "recv"]
  /\ UNCHANGED <<desk, stations, evening, faults, history>>

ReportedOnce(r, s, segment) ==
  CASE segment = <<"name">> ->
         [r EXCEPT !.name = s, !.group = IF groups[s] = Unknown THEN @ ELSE groups[s]]
    [] Head(segment) = "name" /\ Len(segment) > 1 -> [r EXCEPT !.name = NoName]
    [] OTHER -> [r EXCEPT !.active = TRUE]

\* The row of a connection after a segment: its beginning decides, a second
\* message spoils a name and a stop.
Reported(r, s, segment) ==
  LET alone == Len(segment) = 1
      first == Head(segment)
  IN  CASE first = "name" /\ alone ->
             [r EXCEPT !.name = s, !.group = IF groups[s] = Unknown THEN @ ELSE groups[s]]
        [] first = "name" /\ ~ alone -> [r EXCEPT !.name = NoName]
        [] first \in {"started", "time", "late"} -> [r EXCEPT !.active = TRUE]
        [] first \in {"stopped", "stale"} /\ alone -> [r EXCEPT !.active = FALSE]
        [] OTHER -> r

Receive(c) ==
  /\ conn[c].at = "recv" /\ conn[c].up # <<>> /\ "master" \in conn[c].ends
  /\ \E taken \in 1 .. Len(conn[c].up) :
       LET segment == SubSeq(conn[c].up, 1, taken)
           new == [i \in DOMAIN rows |->
                     IF i \in RowOf(c) THEN Reported(rows[i], conn[c].of, segment) ELSE rows[i]]
       IN  /\ conn' = [conn EXCEPT ![c].up = SubSeq(@, taken + 1, Len(@))]
           /\ rows' = new
           /\ IF \E i \in RowOf(c) : new[i].name # rows[i].name
              THEN Saves(new) ELSE UNCHANGED <<file, faults, forgotten>>
           /\ misled' = IF segment = <<"name">> THEN misled
                        ELSE IF taken > 1 \/ Head(segment) \in {"late", "stale"} THEN misled \cup {c}
                        ELSE misled \ {c}
  /\ UNCHANGED <<server, groups, ui, stations, evening, wish>>

\* g_stationGroups with the group of each of these rows.
RememberedNot(at) == groups

Remembered(at) ==
  [s \in Stations |-> IF \E i \in at : rows[i].name = s
                      THEN rows[CHOOSE i \in at : rows[i].name = s].group ELSE groups[s]]

\* The row is removed.
Leaves(c) ==
  /\ rows' = Without(c)
  /\ IF RowOf(c) # {} THEN Shifts ELSE UNCHANGED ui
  /\ conn' = [conn EXCEPT ![c] = With(@, @.ends \ {"master"}, "none")]
  /\ misled' = misled \ {c}

\* recv fails or returns nothing: a row with a name is remembered and saved, and
\* then the log is waited for.
ClientGone(c) ==
  LET named == {i \in RowOf(c) : rows[i].name # NoName}
  IN  /\ conn[c].at = "recv" /\ LogFree
      /\ conn[c].ends # {"station", "master"}
      /\ groups' = Remembered(named)
      /\ \/ /\ named # {}
            /\ Saves(rows)
            /\ conn' = [conn EXCEPT ![c].at = "gone"]
            /\ UNCHANGED <<rows, ui, misled>>
         \/ named = {} /\ Leaves(c) /\ UNCHANGED <<file, faults, forgotten>>
      /\ UNCHANGED <<server, stations, evening, wish>>

RemoveStationRow(c) ==
  /\ conn[c].at = "gone" /\ LogFree
  /\ Leaves(c)
  /\ UNCHANGED <<server, groups, file, stations, evening, faults, wish, forgotten>>
-----------------------------------------------------------------------------
(* The window: commands. *)

\* SendCommandToSelectedStation: the groups of the rows selected, and the rows
\* without a group by their places.
BeginCommand(cmd, selected) ==
  LET grouped == {rows[i].group : i \in selected} \ {GroupNone}
  IN  /\ ui.at = "idle" /\ cmd \in evening.commands
      /\ ui' = [at |-> "send", cmd |-> cmd, groups |-> grouped,
                singles |-> {i \in selected : rows[i].group = GroupNone}, i |-> 1,
                chosen |-> {conn[rows[i].conn].of : i \in {j \in DOMAIN rows :
                              rows[j].conn # NoConn /\ (j \in selected \/ rows[j].group \in grouped)}},
                shifted |-> FALSE]
      /\ UNCHANGED <<server, rows, groups, file, conn, stations, evening, faults, history>>

MembersOfAny == {i \in DOMAIN rows : i >= ui.i /\ rows[i].conn # NoConn}

\* The places in the group being served, from place i on.
Members ==
  {i \in DOMAIN rows : i >= ui.i /\ rows[i].conn # NoConn /\ rows[i].group = Min(ui.groups)}

\* The place the command goes to next.
Target == IF ui.groups # {} THEN Min(Members) ELSE Min(ui.singles)

\* A row is at place i, and is still connected.
Live(i) == i \in DOMAIN rows /\ rows[i].conn # NoConn

PastNot(i) == [ui EXCEPT !.at = "send", !.i = i]

\* The command's progress after place i.
Past(i) == IF ui.groups # {} THEN [ui EXCEPT !.at = "send", !.i = i + 1]
                             ELSE [ui EXCEPT !.at = "send", !.singles = @ \ {i}]

\* A group is done, a place has no connection, or the command is over.
NextGroup ==
  /\ ui.at = "send"
  /\ \/ ui.groups # {} /\ Members = {} /\ ui' = [ui EXCEPT !.groups = @ \ {Min(@)}, !.i = 1]
     \/ ui.groups = {} /\ ui.singles # {} /\ ~ Live(Target) /\ ui' = Past(Target)
     \/ ui.groups = {} /\ ui.singles = {} /\ ui' = Idle
  /\ UNCHANGED <<server, rows, groups, file, conn, stations, evening, faults, history>>

HasTarget ==
  \/ ui.groups # {} /\ Members # {}
  \/ ui.groups = {} /\ ui.singles # {} /\ Live(Target)

\* send() succeeds whether or not the station's end is still open.
Sent(c, order) ==
  [conn EXCEPT ![c].down = IF "station" \in conn[c].ends THEN Append(@, order) ELSE @]

FirstOrderVerbatim(r) == ui.cmd

\* interpretAddOrStart goes by what the master believes; "set" stops a running
\* session and pauses before the start.
FirstOrder(r) ==
  CASE ui.cmd = "stop" \/ (ui.cmd = "set" /\ r.active) -> "stop"
    [] ui.cmd = "plus" /\ r.active -> "add"
    [] OTHER -> "start"

Send ==
  /\ ui.at = "send" /\ HasTarget
  /\ LET r == rows[Target]
     IN  /\ Len(conn[r.conn].down) < evening.queue
         /\ conn' = Sent(r.conn, FirstOrder(r))
         /\ ui' = [ui EXCEPT !.i = Target,
                             !.at = IF ui.cmd = "set" /\ r.active THEN "nap" ELSE "log"]
  /\ UNCHANGED <<server, rows, groups, file, stations, evening, faults, history>>

\* After the pause the start goes to whatever is at the place then: of a row
\* without a connection the send fails, and changes nothing more; beyond the end
\* of the list the place holds what is left of a row that has moved.
SendAfterNap ==
  /\ ui.at = "nap"
  /\ \/ /\ Live(ui.i) /\ Len(conn[rows[ui.i].conn].down) < evening.queue
        /\ conn' = Sent(rows[ui.i].conn, "start")
     \/ ~ Live(ui.i) /\ UNCHANGED conn
     \/ /\ ui.i \notin DOMAIN rows
        /\ \E i \in DOMAIN rows :
             /\ Live(i) /\ Len(conn[rows[i].conn].down) < evening.queue
             /\ conn' = Sent(rows[i].conn, "start")
  /\ ui' = [ui EXCEPT !.at = "log"]
  /\ UNCHANGED <<server, rows, groups, file, stations, evening, faults, history>>

LogSent ==
  /\ ui.at = "log" /\ LogFree
  /\ ui' = Past(ui.i)
  /\ UNCHANGED <<server, rows, groups, file, conn, stations, evening, faults, history>>

\* The send at place i fails: the socket is closed here, and the row stays.
FailsAt(i) ==
  LET c == rows[i].conn
  IN  /\ LogFree /\ "station" \notin conn[c].ends
      /\ rows' = [rows EXCEPT ![i].conn = NoConn, ![i].active = FALSE]
      /\ conn' = [conn EXCEPT ![c].ends = {}]
      /\ ui' = Past(i)
      /\ forgotten' = forgotten \cup {conn[c].of}

\* The first send of a command, or the one after the pause.
SendFails ==
  /\ \/ ui.at = "send" /\ HasTarget /\ FailsAt(Target)
     \/ ui.at = "nap" /\ Live(ui.i) /\ FailsAt(ui.i)
  /\ UNCHANGED <<server, groups, file, stations, evening, faults, wish, misled>>
-----------------------------------------------------------------------------
(* The window: groups, the server, the end. *)

\* The rows selected are put in group g, and are to be saved.  The group of a
\* station is sure when all its rows get it, those without a connection too, and
\* none is being removed, whose group has been remembered already.
Regroup(selected, g) ==
  LET touched == {conn[rows[i].conn].of : i \in {j \in selected : rows[j].conn # NoConn}}
      dead == {rows[i].name : i \in {j \in selected : rows[j].conn = NoConn}} \ {NoName}
      sure == {s \in touched :
                 /\ \A c \in Conns : Uses(c, s) =>
                      /\ "name" \notin ToSet(conn[c].up) /\ conn[c].at # "gone"
                      /\ \E i \in selected : rows[i].conn = c /\ rows[i].name = s
                 /\ \A i \in DOMAIN rows : rows[i].name = s => i \in selected}
  IN  /\ ui.at = "idle" /\ evening.regroup
      /\ rows' = [i \in DOMAIN rows |-> IF i \in selected THEN [rows[i] EXCEPT !.group = g] ELSE rows[i]]
      /\ ui' = [ui EXCEPT !.at = "save"]
      /\ wish' = [s \in Stations |-> IF s \in sure THEN g ELSE wish[s]]
      /\ forgotten' = (forgotten \cup touched \cup dead) \ sure
      /\ UNCHANGED <<server, groups, file, conn, stations, evening, faults, misled>>

\* A colour button, or the one that removes the group.
SetSelectedStationsGroup(selected, g) ==
  /\ selected # {}
  /\ Regroup(selected, g)

\* FindFirstUnusedGroupId
FirstUnusedGroup ==
  LET free == {g \in Groups : \A i \in DOMAIN rows : rows[i].group # g}
  IN  IF free = {} THEN Min(Groups) ELSE Min(free)

\* A bubble dropped on another: both, and all that are selected with it, take
\* the other's group, or its own, or a new one.
DropOn(dragged, other, selected) ==
  LET g == IF rows[other].group # GroupNone THEN rows[other].group
           ELSE IF rows[dragged].group # GroupNone THEN rows[dragged].group
           ELSE FirstUnusedGroup
  IN  /\ dragged # other
      /\ Regroup(selected \cup {dragged, other}, g)

SaveStationGroups ==
  /\ ui.at = "save" /\ LogFree
  /\ Saves(rows)
  /\ ui' = Idle
  /\ UNCHANGED <<server, rows, groups, conn, stations, evening, wish, misled>>

StartServer ==
  /\ server = "off" /\ ui.at = "idle"
  /\ server' = "listening"
  /\ UNCHANGED <<rows, groups, file, ui, conn, stations, evening, faults, history>>

\* The connections StopServer closes: those in the list, and what waits to be
\* accepted is refused.
ClosedUnlisted == {c \in Conns : conn[c].at = "none"}

Closed == {c \in Conns : RowOf(c) # {} \/ conn[c].at = "none"}

\* The list is cleared; the threads of its connections will find no row.
StopServer ==
  /\ server \in {"listening", "dead"} /\ ui.at = "idle" /\ LogFree /\ "stop" \in faults
  /\ server' = "off"
  /\ rows' = <<>>
  /\ conn' = [c \in Conns |-> IF c \in Closed
                              THEN With(conn[c], conn[c].ends \ {"master"}, conn[c].at) ELSE conn[c]]
  /\ faults' = faults \ {"stop"}
  /\ forgotten' = forgotten \cup {conn[c].of : c \in {d \in Conns : RowOf(d) # {}}}
  /\ UNCHANGED <<groups, file, ui, stations, evening, wish, misled>>

\* A handler that may be saving: it has a name to read, or its station has gone.
Saving(c) ==
  conn[c].at = "recv" /\ (conn[c].up # <<>> \/ conn[c].ends # {"station", "master"})

\* The program ends: it or its computer dies, or its window is closed, which
\* saves the rows (WM_DESTROY); a save under way may be cut short.
MasterEnds ==
  LET away == Numbered \cup {s \in Stations : \A i \in DOMAIN rows : rows[i].name # s}
  IN  /\ server # "down" /\ "end" \in faults
      /\ server' = "down"
      /\ \/ /\ ui.at # "save"
            /\ file' \in {file} \cup (IF ui.at = "idle" /\ LogFree THEN {Saved(rows)} ELSE {})
            /\ forgotten' = forgotten \cup away
         \/ /\ ui.at \in {"idle", "save"} \/ \E c \in Conns : Saving(c)
            /\ file' \in {file} \cup CutShort(rows)
            /\ forgotten' = Stations
      /\ rows' = <<>> /\ ui' = Idle
      /\ conn' = [c \in Conns |-> With(conn[c], conn[c].ends \ {"master"}, "none")]
      /\ faults' = faults \ {"end"}
      /\ misled' = {}
      /\ UNCHANGED <<groups, stations, evening, wish>>

\* LoadStationGroups, and the server is started with the window.
MasterStarts ==
  /\ server = "down"
  /\ server' = "listening"
  /\ groups' = file
  /\ UNCHANGED <<rows, file, ui, conn, stations, evening, faults, history>>
-----------------------------------------------------------------------------
UiStep == NextGroup \/ Send \/ SendAfterNap \/ LogSent \/ SendFails \/ SaveStationGroups

Next ==
  \/ \E s \in Stations :
       \/ \E c \in Conns : ConnectToMaster(s, c)
       \/ LinkLost(s) \/ StationRestarts(s) \/ ParseCommand(s) \/ StartSession(s) \/ Tick(s)
       \/ \E t \in Threads : SendToMaster(s, t)
  \/ \E c \in Conns :
       \/ Accept(c) \/ AcceptFails(c) \/ Greet(c) \/ AddStationRow(c)
       \/ Receive(c) \/ ClientGone(c) \/ RemoveStationRow(c)
  \/ \E selected \in (SUBSET DOMAIN rows) \ {{}} :
       \/ \E cmd \in Commands : BeginCommand(cmd, selected)
       \/ \E g \in Groups \cup {GroupNone} : SetSelectedStationsGroup(selected, g)
       \/ \E dragged \in selected, other \in DOMAIN rows : DropOn(dragged, other, selected)
  \/ UiStep
  \/ StartServer \/ StopServer \/ MasterEnds \/ MasterStarts

Spec == Init /\ [][Next]_vars

\* Threads go on when they can; the window answers a thread's message before
\* the next click; the reconnect timer fires again and again.
LiveSpec ==
  /\ Spec
  /\ WF_vars(UiStep)
  /\ \A s \in Stations :
       /\ WF_vars(\E c \in Conns : ConnectToMaster(s, c))
       /\ WF_vars(LinkLost(s)) /\ SF_vars(ParseCommand(s))
       /\ \A t \in Threads : SF_vars(SendToMaster(s, t))
  /\ \A c \in Conns :
       /\ WF_vars(Accept(c)) /\ WF_vars(Greet(c)) /\ SF_vars(AddStationRow(c))
       /\ WF_vars(Receive(c)) /\ WF_vars(ClientGone(c) \/ RemoveStationRow(c))
-----------------------------------------------------------------------------
(* Properties. *)

\* An order goes to a station that was selected when staff pressed the button,
\* or is in a selected one's group, whatever rows come while the command is
\* being sent - unless one was removed in the meantime: places are counted on
\* from before the pause and the waits for the log.
OnlyChosen ==
  [][\A c \in Conns : Len(conn'[c].down) > Len(conn[c].down) =>
       \/ conn[c].of \in ui.chosen
       \/ \E i \in RowOf(c) : ui.groups # {} /\ rows[i].group = Min(ui.groups)
       \/ ui.shifted]_vars

\* When nothing is under way and no thread of the station has a report to send,
\* the master shows a session where one runs and only there, unless the station's
\* last report came in one segment behind another, the connection is new, or the
\* last report was crossed: one thread of the station began or ended a session
\* while the other had its report still to send, as when SESSION_STARTED waits
\* for the window, whose countdown ends the session and says so first.
ShownAsItIs ==
  \A i \in DOMAIN rows :
    LET c == rows[i].conn
    IN  /\ c \in Conns \ misled /\ sock[conn[c].of] = c
        /\ conn[c].up = <<>> /\ unsent[conn[c].of] = Silent
        => (rows[i].active <=> left[conn[c].of] > 0)

\* A station that comes back is in the group staff last gave it, through
\* reconnections and restarts of the master, unless its row went without its
\* thread noticing, as when a send to it fails, before the pause or after; it was
\* put in the group while a row of it was being removed; it was away when the
\* program ended; a save of the groups failed, ran into another or was cut short
\* by the program's end, whichever thread was saving; or a row of it whose send
\* failed is still in the list with another group.
GroupsReturn ==
  \A i \in DOMAIN rows, s \in Stations \ forgotten :
    rows[i].name = s /\ rows[i].conn = sock[s] /\ sock[s] # NoConn => rows[i].group = wish[s]

\* The window waits for the log's mutex, whose holder waits for the window.
Standoff == \E c \in Conns :
  \/ conn[c].at = "list" /\ ui.at # "idle"
  \/ conn[c].at = "stuck"

\* Every command, whoever comes and goes, is sent to the end, and the window
\* is free again, unless the two threads wait for each other.
CommandsEnd == ui.at # "idle" ~> ui.at = "idle" \/ Standoff

\* While the master listens every station comes to be listed with the connection
\* it has, also after a drop, a stop or a restart, unless the master's threads
\* are stuck or its server thread has ended.
ComesBack ==
  \A s \in Stations :
    server = "listening" ~>
      \/ sock[s] # NoConn /\ RowOf(sock[s]) # {}
      \/ server # "listening" \/ Standoff
=============================================================================
