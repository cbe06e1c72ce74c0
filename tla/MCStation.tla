----------------------------- MODULE MCStation -----------------------------
(* Values for the constants of Station, for TLC. *)
EXTENDS Station

CONSTANTS g, h

\* Two categories; the second has no games.
OneMenu == << <<g, h>>, <<>> >>

TwoMenus == << <<g, h>>, <<h>> >>

NoMenu == <<>>
=============================================================================
