----------------------------- MODULE Categories -----------------------------
(***************************************************************************)
(* The categories of the game menu and their copy in settings.ini          *)
(* (config.cpp, and the buttons in window_proc.cpp).  The file holds a     *)
(* section per category and the number of sections; a save writes them one *)
(* key at a time, and a load reads sections until one has no name.  The    *)
(* program may end between any two of those writes.  A save keeps          *)
(* g_categoriesMutex from its first write to its last, so that nobody      *)
(* reads the list meanwhile.                                               *)
(***************************************************************************)
EXTENDS Naturals, Sequences, SequencesExt, FiniteSetsExt

CONSTANTS
  Names,          \* what a category may be called
  ReadName,       \* what GetPrivateProfileString makes of a name: without blanks and
                  \* quotes around it, cut to 255 characters; NoName if nothing is left
  Menu,           \* the games on the menu
  AppIds,         \* their ids, and what may be left of one that is cut
  Length,         \* how long an id is, with the comma behind it
  NameOrder,      \* where a save puts an id: by its game's name, unknown ones last
  Fragment,       \* what is left of an id that is cut, if anything
  Buffer,         \* how much of a list of ids is read (4096)
  MaxCategories,  \* bound: categories at a time
  NoName

ASSUME CategoriesAssumption ==
  /\ NoName \notin Names /\ ReadName \in [Names -> Names \cup {NoName}]
  /\ Menu \subseteq AppIds /\ Fragment \in [AppIds -> SUBSET AppIds]
  /\ Length \in [AppIds -> Nat \ {0}] /\ NameOrder \in [AppIds -> Nat] /\ Buffer \in Nat
  /\ MaxCategories \in Nat \ {0}

VARIABLES
  running,     \* does the program run
  categories,  \* g_categories
  section,     \* settings.ini: the sections [Category_0], [Category_1], ...
  count,       \* settings.ini: [CategoriesInfo] Count
  saving,      \* the next write of a save, and its section
  leftover     \* history: the last section beyond Count that a save which the
               \* program's end cut short has left, or 0

catVars == <<running, categories, section, count, saving, leftover>>

Sections == 1..MaxCategories
Category == [name : Names, games : SUBSET AppIds]
NoSection == [name |-> NoName, games |-> {}]
NotSaving == [at |-> "idle", index |-> 0]

CategoriesTypeOK ==
  /\ running \in BOOLEAN
  /\ categories \in Seq(Category) /\ Len(categories) <= MaxCategories
  /\ section \in [Sections -> [name : Names \cup {NoName}, games : SUBSET AppIds]]
  /\ count \in 0..MaxCategories
  /\ saving \in [at : {"idle", "name", "games", "clear", "count"}, index : 0..MaxCategories + 1]
  /\ leftover \in 0..MaxCategories

\* A fresh installation.
CategoriesInit ==
  /\ running = FALSE /\ categories = <<>>
  /\ section = [i \in Sections |-> NoSection] /\ count = 0
  /\ saving = NotSaving /\ leftover = 0
-----------------------------------------------------------------------------
(* Loading. *)

\* A name that comes back empty.
ReadsAsEmpty(name) == name = NoName \/ ReadName[name] = NoName

\* The ids a list comes back with: those that fit into the reader's buffer, in the
\* order of the file, and what is left of the one that reaches over its end.
ReadGames(list) ==
  LET start(id) == MapThenSumSet(LAMBDA other : Length[other],
                                 {other \in list : NameOrder[other] < NameOrder[id]})
      fits(id) == start(id) + Length[id] <= Buffer
  IN  {id \in list : fits(id)} \cup
      UNION {Fragment[id] : id \in {other \in list : ~ fits(other) /\ start(other) + 1 < Buffer}}

\* A category as it is read back.
AsRead(category) == [name |-> ReadName[category.name], games |-> ReadGames(category.games)]

\* LoadCategories: the sections before the first one without a name.
LoadCategories ==
  LET last == CHOOSE n \in 0..MaxCategories :
                /\ \A i \in 1..n : ~ ReadsAsEmpty(section[i].name)
                /\ n < MaxCategories => ReadsAsEmpty(section[n + 1].name)
  IN  [i \in 1..last |-> AsRead(section[i])]

Start ==
  /\ ~ running
  /\ running' = TRUE /\ categories' = LoadCategories
  /\ UNCHANGED <<section, count, saving, leftover>>

\* The program ends, by its user or by itself.
Stop ==
  /\ running
  /\ running' = FALSE /\ categories' = <<>> /\ saving' = NotSaving
  /\ leftover' = LET beyond == {i \in Sections : i > count /\ section[i].name # NoName}
                 IN  IF beyond = {} THEN leftover
                     ELSE CHOOSE i \in beyond : \A j \in beyond : j <= i
  /\ UNCHANGED <<section, count>>
-----------------------------------------------------------------------------
(* Editing: every change is saved before the window's thread goes on. *)

FirstStaleLate == Len(categories) + 2

\* The first section that no category of the list has.
FirstStale == Len(categories) + 1

\* Where a save of list goes on behind section i: with the next category, or with
\* the sections of categories that are no more, or with their number.
After(i, list) ==
  IF i < Len(list) THEN [at |-> "name", index |-> i + 1] ELSE [at |-> "clear", index |-> 0]

Edited(list) ==
  /\ running /\ saving = NotSaving
  /\ categories' = list
  /\ saving' = After(0, list)
  /\ UNCHANGED <<running, section, count, leftover>>

\* ID_BUTTON_CREATE_CATEGORY
CreateCategory(name) ==
  /\ Len(categories) < MaxCategories
  /\ \A i \in DOMAIN categories : categories[i].name # name
  /\ Edited(Append(categories, [name |-> name, games |-> {}]))

\* ID_BUTTON_ADD_GAME_TO_CAT
AddGame(i, game) ==
  /\ game \notin categories[i].games
  /\ Edited([categories EXCEPT ![i].games = @ \cup {game}])

\* ID_BUTTON_REMOVE_GAME_FROM_CAT
RemoveGame(i, game) ==
  /\ game \in categories[i].games
  /\ Edited([categories EXCEPT ![i].games = @ \ {game}])

\* ID_BUTTON_DELETE_CATEGORY
DeleteCategory(i) == Edited(RemoveAt(categories, i))

\* ID_BUTTON_MOVE_CAT_UP, ID_BUTTON_MOVE_CAT_DOWN: the category above i comes below.
MoveCategory(i) ==
  /\ i > 1
  /\ Edited([categories EXCEPT ![i] = categories[i - 1], ![i - 1] = categories[i]])
-----------------------------------------------------------------------------
(* SaveCategories, one WritePrivateProfileString at a time. *)

WriteName ==
  /\ saving.at = "name"
  /\ section' = [section EXCEPT ![saving.index].name = categories[saving.index].name]
  /\ saving' = [saving EXCEPT !.at = "games"]
  /\ UNCHANGED <<running, categories, count, leftover>>

WriteGames ==
  /\ saving.at = "games"
  /\ section' = [section EXCEPT ![saving.index].games = categories[saving.index].games]
  /\ saving' = After(saving.index, categories)
  /\ UNCHANGED <<running, categories, count, leftover>>

\* The next section to clear, up to the number the file says.
ClearSection ==
  /\ saving.at = "clear"
  /\ LET i == IF saving.index = 0 THEN FirstStale ELSE saving.index
     IN  IF i <= count
         THEN /\ section' = [section EXCEPT ![i] = NoSection]
              /\ saving' = [saving EXCEPT !.index = i + 1]
         ELSE /\ saving' = [saving EXCEPT !.at = "count"]
              /\ UNCHANGED section
  /\ UNCHANGED <<running, categories, count, leftover>>

\* A list that reaches over what was left takes it into the count.
WriteCount ==
  /\ saving.at = "count"
  /\ count' = Len(categories)
  /\ saving' = NotSaving
  /\ leftover' = IF Len(categories) >= leftover THEN 0 ELSE leftover
  /\ UNCHANGED <<running, categories, section>>

CategoriesNext ==
  \/ Start \/ Stop
  \/ \E name \in Names : CreateCategory(name)
  \/ \E i \in DOMAIN categories :
       \/ \E game \in Menu : AddGame(i, game) \/ RemoveGame(i, game)
       \/ DeleteCategory(i) \/ MoveCategory(i)
  \/ WriteName \/ WriteGames \/ ClearSection \/ WriteCount

CategoriesSpec == CategoriesInit /\ [][CategoriesNext]_catVars
-----------------------------------------------------------------------------
(* Properties. *)

\* A restart brings back the categories in their order and with their games, whatever
\* was deleted, moved or interrupted before: as the window shows them if they were
\* just loaded, else as they are read back from what was saved, which leaves out blanks
\* and quotes around a name and what the buffers do not hold (the next save makes that
\* loss permanent).  They come up to the first one whose name reads as empty, and unless
\* the program once ended within a save that made the list longer, whose section beyond
\* Count no later save clears.
SavedAsShown ==
  running /\ saving = NotSaving /\ leftover = 0 =>
    \E n \in 0..Len(categories) :
      /\ LoadCategories \in {SubSeq(categories, 1, n), [i \in 1..n |-> AsRead(categories[i])]}
      /\ n < Len(categories) => ReadsAsEmpty(categories[n + 1].name)
=============================================================================
