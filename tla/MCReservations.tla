--------------------------- MODULE MCReservations ---------------------------
(* Values for the constants of Reservations, for TLC. *)
EXTENDS Reservations, TLC

CONSTANTS p1, p2, x, y

Number2 == (1 :> 1) @@ (2 :> 2)

Schedule(date, start, end, count) ==
  [date |-> date, start |-> start, end |-> end, count |-> count]

\* Two overlapping sessions on one date, and one on the next.
TwoDays == {Schedule(1, 0, 2, 1), Schedule(1, 1, 3, 1), Schedule(2, 0, 2, 1)}

\* The same time on two dates.
EitherDay == {Schedule(1, 0, 2, 1), Schedule(2, 0, 2, 1)}

Config(buffer, active) == [buffer |-> buffer, active |-> active, open |-> 0, hold |-> 1]

OneStation == {Config(0, {1})}

Interchangeable ==
  Permutations({p1, p2}) \cup Permutations({x, y})
=============================================================================
