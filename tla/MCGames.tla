------------------------------ MODULE MCGames ------------------------------
(***************************************************************************)
(* The three parts of a station's games, for TLC: launching them           *)
(* (Launcher), their categories (Categories) and the list of custom games  *)
(* (CustomGames).  They share no state, so that each is explored with the  *)
(* others at rest: part says which.                                        *)
(***************************************************************************)
EXTENDS Launcher, Categories, CustomGames

\* Blanks in quotes come back as blanks, and blanks not at all.
ReadNames == [name \in Names |-> CASE name = "'  '" -> "  " [] name = "  " -> NoName [] OTHER -> name]

\* Ids of one and two characters: "62" behind "7" does not fit, and is cut to "6".
Lengths == [id \in AppIds |-> IF id = "62" THEN 3 ELSE 2]

Orders == [id \in AppIds |-> CASE id = "7" -> 1 [] id = "62" -> 2 [] OTHER -> 3]

Fragments == [id \in AppIds |-> IF id = "62" THEN {"6"} ELSE {}]

VARIABLE part

AllInit ==
  /\ part \in {"launcher", "categories", "list"}
  /\ Init /\ CategoriesInit /\ CustomInit

AllNext ==
  /\ UNCHANGED part
  /\ \/ part = "launcher" /\ Next /\ UNCHANGED <<catVars, customVars>>
     \/ part = "categories" /\ CategoriesNext /\ UNCHANGED <<vars, customVars>>
     \/ part = "list" /\ CustomGamesNext /\ UNCHANGED <<vars, catVars>>

AllSpec == AllInit /\ [][AllNext]_<<vars, catVars, customVars, part>>

\* The values of every variable, of the three parts.
GamesTypeOK == TypeOK /\ CategoriesTypeOK /\ CustomTypeOK
=============================================================================
