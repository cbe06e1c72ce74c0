------------------------------ MODULE MCSlots ------------------------------
(* Values for the constants of Slots, for TLC. *)
EXTENDS Slots, TLC

CONSTANTS s1, s2

Number2 == (s1 :> 1) @@ (s2 :> 2)

\* Every opening time, grid, lead and buffer a day of DayEnd units has room for.
SmallDays ==
  [open : {0, 1}, close : {6}, step : {2, 3}, lead : {1}, buffer : {0, 1},
   today : BOOLEAN]
=============================================================================
