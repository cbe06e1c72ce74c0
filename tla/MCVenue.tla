------------------------------ MODULE MCVenue ------------------------------
(* Values for the constants of Venue, for TLC. *)
EXTENDS Venue, TLC

CONSTANTS s1, s2, c1, c2, c3

Unsaved == [s \in Stations |-> Unknown]

OneSaved == [Unsaved EXCEPT ![s1] = 1]

\* Sessions are started, prolonged and ended, with the groups as they are.
Sessions(commands, time, saved, broken, lines, queue) ==
  [commands |-> commands, regroup |-> FALSE, time |-> time, saved |-> saved,
   faults |-> broken, lines |-> lines, queue |-> queue]

\* Stations are put in groups while they, and the master, come and go.
Grouping(commands, broken) ==
  [commands |-> commands, regroup |-> TRUE, time |-> {}, saved |-> OneSaved,
   faults |-> broken, lines |-> 2, queue |-> 2]

\* One hazard at a time: the pause of "set" while a station drops out, the
\* countdown against the buttons, and groups against drops, stops and ends.
BusyEvenings ==
  {Sessions({"set"}, {}, Unsaved, {"drop"}, 2, 1),
   Sessions({"set"}, {s1}, OneSaved, {}, 1, 2),
   Sessions({"plus"}, {s1}, OneSaved, {}, 1, 2),
   Sessions({"stop"}, {s1}, Unsaved, {"drop"}, 1, 1),
   Grouping({"stop"}, {"drop"}),
   Grouping({}, {"end", "stop"}),
   Grouping({}, {"end", "drop"}),
   Grouping({}, {"end", "save"})}

\* The same for one station, where a behaviour is followed to its end.
QuietEvenings ==
  {Sessions({"set"}, {}, OneSaved, {"drop"}, 2, 1),
   Sessions({"set"}, {}, OneSaved, {"stop"}, 2, 1),
   Sessions({"set"}, {}, OneSaved, {"end"}, 2, 1),
   Sessions({"plus"}, {}, Unsaved, {"drop"}, 2, 1),
   Sessions({"stop"}, {s1}, Unsaved, {}, 1, 1)}

Interchangeable == Permutations(Conns)
=============================================================================
