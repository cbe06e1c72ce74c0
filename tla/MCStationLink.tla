--------------------------- MODULE MCStationLink ---------------------------
(* Values for the constants of StationLink, for TLC. *)
EXTENDS StationLink

\* Quick attempts with three losses, slow ones with one, and slow ones under a
\* session's reports with none: there it is enough that the master is away first.
SomeHabits ==
  {[slow |-> FALSE, talk |-> FALSE, losses |-> 3], [slow |-> FALSE, talk |-> TRUE, losses |-> 3],
   [slow |-> TRUE, talk |-> FALSE, losses |-> 1], [slow |-> TRUE, talk |-> TRUE, losses |-> 0]}
=============================================================================
