----------------------------- MODULE VenueProofs -----------------------------
(***************************************************************************)
(* Theorems about Venue, for any number of stations, groups, connections   *)
(* and messages under way, and for every evening.                          *)
(***************************************************************************)
EXTENDS Venue, SequenceTheorems, WellFoundedInduction, TLAPS

-----------------------------------------------------------------------------
(* Numbers and sequences. *)

\* The least member of a set of naturals.
LEMMA Least ==
  ASSUME NEW T \in SUBSET Nat, T # {}
  PROVE  \E n \in T : \A m \in T : n <= m
<1>1. PICK n \in T : \A m \in T : ~ (<<m, n>> \in OpToRel(<, Nat))
  BY NatLessThanWellFounded, WFMin
<1>2. \A m \in T : ~ (m < n)
  BY <1>1 DEF OpToRel
<1> QED BY <1>2

LEMMA LeastIs ==
  ASSUME NEW T \in SUBSET Nat, T # {}
  PROVE  Min(T) \in T /\ \A m \in T : Min(T) <= m
BY Least DEF Min

\* The greatest member of a set of places of a sequence.
LEMMA GreatestIs ==
  ASSUME NEW last \in Nat, NEW T \in SUBSET (1 .. last), T # {}
  PROVE  Max(T) \in T
<1> DEFINE U == {last - n : n \in T}
<1>1. \A n \in T : last - n \in Nat
  OBVIOUS
<1>2. U \in SUBSET Nat /\ U # {}
  BY <1>1
<1>3. PICK u \in U : \A v \in U : u <= v
  <2> HIDE DEF U
  <2> QED BY <1>2, Least
<1>4. PICK n \in T : u = last - n
  BY <1>3
<1>5. ASSUME NEW m \in T
      PROVE  n >= m
  <2>1. last - n <= last - m
    BY <1>3, <1>4
  <2>2. last \in Int /\ n \in Int /\ m \in Int
    OBVIOUS
  <2> HIDE DEF U
  <2> QED BY <2>1, <2>2
<1> QED BY <1>5 DEF Max

\* What is left of a sequence after its first messages.
LEMMA RestIs ==
  ASSUME NEW S, NEW q \in Seq(S), NEW taken \in 1 .. Len(q)
  PROVE  LET rest == SubSeq(q, taken + 1, Len(q))
         IN  /\ rest \in Seq(S) /\ Len(rest) = Len(q) - taken
             /\ \A k \in 1 .. Len(rest) : rest[k] = q[k + taken]
<1> DEFINE m == taken + 1
           n == Len(q)
<1>1. m \in Int /\ n \in Int /\ Len(q) \in Nat /\ taken \in Nat
  BY LenProperties
<1>2. \A i \in m .. n : q[i] \in S
  BY <1>1, ElementOfSeq
<1>3. /\ SubSeq(q, m, n) \in Seq(S) /\ Len(SubSeq(q, m, n)) = IF m <= n THEN n - m + 1 ELSE 0
      /\ \A i \in 1 .. n - m + 1 : SubSeq(q, m, n)[i] = q[m + i - 1]
  <2> HIDE DEF m, n
  <2> QED BY <1>1, <1>2, SubSeqProperties
<1>4. Len(SubSeq(q, m, n)) = n - taken
  <2>1. CASE taken = n
    <3>1. ~ (m <= n) /\ n - taken = 0
      BY <1>1, <2>1
    <3> HIDE DEF m, n
    <3> QED BY <1>3, <3>1
  <2>2. CASE taken # n
    <3>1. m <= n /\ n - m + 1 = n - taken
      BY <1>1, <2>2
    <3> HIDE DEF m, n
    <3> QED BY <1>3, <3>1
  <2> QED BY <2>1, <2>2
<1>5. \A i \in 1 .. n - taken : m + i - 1 = i + taken /\ i \in 1 .. n - m + 1
  BY <1>1
<1>6. \A i \in 1 .. n - taken : SubSeq(q, m, n)[i] = q[i + taken]
  <2> HIDE DEF m, n
  <2> QED BY <1>3, <1>5
<1> QED BY <1>3, <1>4, <1>6

LEMMA SegmentIs ==
  ASSUME NEW S, NEW q \in Seq(S), NEW taken \in 1 .. Len(q)
  PROVE  LET segment == SubSeq(q, 1, taken)
         IN  /\ segment \in Seq(S) /\ Len(segment) = taken
             /\ \A k \in 1 .. taken : segment[k] = q[k]
             /\ Head(segment) = q[1]
<1>1. Len(q) \in Nat /\ taken \in Nat /\ taken \in Int /\ 1 \in 1 .. Len(q) /\ taken \in 1 .. Len(q)
  BY LenProperties
<1>2. \A i \in 1 .. taken : q[i] \in S
  BY <1>1, ElementOfSeq
<1>3. /\ SubSeq(q, 1, taken) \in Seq(S) /\ Len(SubSeq(q, 1, taken)) = IF 1 <= taken THEN taken - 1 + 1 ELSE 0
      /\ \A i \in 1 .. taken - 1 + 1 : SubSeq(q, 1, taken)[i] = q[1 + i - 1]
  BY <1>1, <1>2, SubSeqProperties
<1>4. Head(SubSeq(q, 1, taken)) = q[1]
  BY <1>1, HeadTailOfSubSeq
<1> DEFINE segment == SubSeq(q, 1, taken)
<1>5. segment \in Seq(S) /\ Len(segment) = taken /\ \A k \in 1 .. taken : segment[k] = q[1 + k - 1]
  BY <1>1, <1>3
<1>6. Head(segment) = q[1]
  BY <1>4
<1> HIDE DEF segment
<1>7. \A k \in 1 .. taken : segment[k] = q[k]
  <2>1. \A k \in 1 .. taken : 1 + k - 1 = k
    BY <1>1
  <2> QED BY <1>5, <2>1
<1> QED BY <1>5, <1>6, <1>7 DEF segment

\* A sequence without the element at one place.
LEMMA RemoveAtIs ==
  ASSUME NEW S, NEW q \in Seq(S), NEW i \in 1 .. Len(q)
  PROVE  /\ RemoveAt(q, i) \in Seq(S)
         /\ Len(RemoveAt(q, i)) = Len(q) - 1
         /\ \A k \in 1 .. Len(q) - 1 : RemoveAt(q, i)[k] = IF k < i THEN q[k] ELSE q[k + 1]
<1> DEFINE front == SubSeq(q, 1, i - 1)
           back == SubSeq(q, i + 1, Len(q))
<1>1. Len(q) \in Nat /\ i \in Nat /\ i - 1 \in Int /\ 1 \in Int
  BY LenProperties
<1>2. front \in Seq(S) /\ Len(front) = i - 1 /\ \A k \in 1 .. i - 1 : front[k] = q[k]
  <2>1. \A k \in 1 .. i - 1 : q[k] \in S
    BY <1>1, ElementOfSeq
  <2>2. /\ SubSeq(q, 1, i - 1) \in Seq(S)
        /\ Len(SubSeq(q, 1, i - 1)) = IF 1 <= i - 1 THEN i - 1 - 1 + 1 ELSE 0
        /\ \A k \in 1 .. i - 1 - 1 + 1 : SubSeq(q, 1, i - 1)[k] = q[1 + k - 1]
    <3> DEFINE n == i - 1
    <3>1. n \in Int /\ \A k \in 1 .. n : q[k] \in S
      BY <1>1, <2>1
    <3> HIDE DEF n
    <3>2. /\ SubSeq(q, 1, n) \in Seq(S) /\ Len(SubSeq(q, 1, n)) = IF 1 <= n THEN n - 1 + 1 ELSE 0
          /\ \A k \in 1 .. n - 1 + 1 : SubSeq(q, 1, n)[k] = q[1 + k - 1]
      BY <1>1, <3>1, SubSeqProperties
    <3> QED BY <3>2 DEF n
  <2> QED BY <1>1, <2>2
<1>3. back \in Seq(S) /\ Len(back) = Len(q) - i /\ \A k \in 1 .. Len(back) : back[k] = q[k + i]
  BY RestIs
<1>4. RemoveAt(q, i) = front \o back
  BY DEF RemoveAt
<1> HIDE DEF front, back
<1>5. /\ front \o back \in Seq(S) /\ Len(front \o back) = Len(front) + Len(back)
      /\ \A k \in 1 .. Len(front) + Len(back) :
           (front \o back)[k] = IF k <= Len(front) THEN front[k] ELSE back[k - Len(front)]
  BY <1>2, <1>3, ConcatProperties
<1>6. Len(front) + Len(back) = Len(q) - 1
  BY <1>1, <1>2, <1>3
<1>7. ASSUME NEW k \in 1 .. Len(q) - 1
      PROVE  (front \o back)[k] = IF k < i THEN q[k] ELSE q[k + 1]
  <2>1. CASE k < i
    BY <1>1, <1>2, <1>5, <1>6, <2>1
  <2>2. CASE ~ k < i
    <3>1. k - Len(front) \in 1 .. Len(back) /\ (k - Len(front)) + i = k + 1
      BY <1>1, <1>2, <1>3, <2>2
    <3> QED BY <1>1, <1>2, <1>3, <1>5, <1>6, <2>2, <3>1
  <2> QED BY <2>1, <2>2
<1> QED BY <1>4, <1>5, <1>6, <1>7
-----------------------------------------------------------------------------
(* The types of the state's parts. *)

Ends == SUBSET {"station", "master"}

Handlers == {"none", "greet", "list", "recv", "gone", "stuck"}

Line == [of : Stations, ends : Ends, up : Seq(Reports), down : Seq(Orders), at : Handlers]

Window == [at : {"idle", "send", "nap", "log", "save"}, cmd : Commands \cup {"none"},
           groups : SUBSET Groups, singles : SUBSET Nat, i : Nat,
           chosen : SUBSET Stations, shifted : BOOLEAN]

Unsent == [Stations -> [Threads -> (Reports \ {"name"}) \cup {"none"}]]

LEMMA TypesAre ==
  ASSUME TypeOK
  PROVE  /\ rows \in Seq(Row) /\ groups \in Known /\ file \in Known
         /\ ui \in Window /\ conn \in [Conns -> Line]
         /\ sock \in [Stations -> Conns \cup {NoConn}] /\ left \in [Stations -> 0 .. MaxLeft]
         /\ unsent \in Unsent
         /\ evening \in Evenings /\ faults \subseteq evening.faults
         /\ wish \in [Stations -> Groups \cup {GroupNone}]
         /\ forgotten \subseteq Stations /\ misled \subseteq Conns
BY DEF TypeOK, Line, Ends, Handlers, Window, Unsent

\* A state with all its parts typed.
LEMMA TypesBack ==
  ASSUME server' \in {"listening", "off", "dead", "down"},
         rows' \in Seq(Row), groups' \in Known, file' \in Known,
         ui' \in Window, conn' \in [Conns -> Line],
         sock' \in [Stations -> Conns \cup {NoConn}], left' \in [Stations -> 0 .. MaxLeft],
         unsent' \in Unsent,
         evening' \in Evenings, faults' \subseteq evening'.faults,
         wish' \in [Stations -> Groups \cup {GroupNone}],
         forgotten' \subseteq Stations, misled' \subseteq Conns
  PROVE  TypeOK'
BY DEF TypeOK, Line, Ends, Handlers, Window, Unsent

LEMMA RowsAre ==
  ASSUME NEW list \in Seq(Row)
  PROVE  /\ DOMAIN list = 1 .. Len(list) /\ Len(list) \in Nat
         /\ \A i \in DOMAIN list :
              /\ i \in Nat /\ list[i] \in Row
              /\ list[i].conn \in Conns \cup {NoConn} /\ list[i].name \in Stations \cup {NoName}
              /\ list[i].active \in BOOLEAN /\ list[i].group \in Groups \cup {GroupNone}
<1>1. DOMAIN list = 1 .. Len(list) /\ Len(list) \in Nat /\ \A i \in 1 .. Len(list) : list[i] \in Row
  BY LenProperties, ElementOfSeq
<1> QED BY <1>1 DEF Row

LEMMA FreshIs ==
  /\ Fresh \in Line /\ Fresh.ends = {} /\ Fresh.at = "none" /\ Fresh.up = <<>> /\ Fresh.down = <<>>
<1>1. (CHOOSE s \in Stations : TRUE) \in Stations
  BY VenueAssumption
<1>2. <<>> \in Seq(Reports) /\ <<>> \in Seq(Orders)
  BY EmptySeq
<1> QED BY <1>1, <1>2 DEF Fresh, Line, Ends, Handlers

LEMMA WithIs ==
  ASSUME NEW k \in Line, NEW ends \in Ends,
         NEW at \in Handlers
  PROVE  /\ With(k, ends, at) \in Line
         /\ With(k, ends, at).ends = ends /\ With(k, ends, at).at = at
         /\ With(k, ends, at).up = IF "master" \in ends THEN k.up ELSE <<>>
         /\ With(k, ends, at).down = IF "station" \in ends THEN k.down ELSE <<>>
         /\ ~ (ends = {} /\ at = "none") => With(k, ends, at).of = k.of
         /\ ends = {} /\ at = "none" => With(k, ends, at) = Fresh
<1>1. <<>> \in Seq(Reports) /\ <<>> \in Seq(Orders)
  BY EmptySeq
<1>2. CASE ends = {} /\ at = "none"
  BY <1>2, FreshIs DEF With
<1>3. CASE ~ (ends = {} /\ at = "none")
  <2> DEFINE up == IF "master" \in ends THEN k.up ELSE <<>>
             down == IF "station" \in ends THEN k.down ELSE <<>>
             r == [k EXCEPT !.ends = ends, !.at = at, !.up = up, !.down = down]
  <2>1. With(k, ends, at) = r
    BY <1>3 DEF With
  <2>2. k.of \in Stations /\ up \in Seq(Reports) /\ down \in Seq(Orders)
    BY <1>1 DEF Line
  <2>3. (ends = {} /\ at = "none") = FALSE
    BY <1>3
  <2> HIDE DEF up, down
  <2>4. r.of = k.of /\ r.ends = ends /\ r.at = at /\ r.up = up /\ r.down = down
    BY DEF Line
  <2>5. r \in Line
    BY <2>2 DEF Line
  <2> HIDE DEF r
  <2> QED BY <1>3, <2>1, <2>4, <2>5 DEF up, down
<1> QED BY <1>2, <1>3

LEMMA EndsAre ==
  /\ {} \in Ends /\ {"station", "master"} \in Ends
  /\ \A ends \in Ends : ends \ {"station"} \in Ends /\ ends \ {"master"} \in Ends
BY DEF Ends

LEMMA HandlersAre ==
  /\ "none" \in Handlers /\ "greet" \in Handlers /\ "list" \in Handlers /\ "recv" \in Handlers
  /\ "gone" \in Handlers /\ "stuck" \in Handlers
BY DEF Handlers

\* What is saved of a station is the group of a row with its name.
LEMMA SavedIs ==
  ASSUME NEW list \in Seq(Row)
  PROVE  /\ Saved(list) \in Known
         /\ \A s \in Stations :
              /\ (\A i \in DOMAIN list : list[i].name # s) => Saved(list)[s] = Unknown
              /\ (\E i \in DOMAIN list : list[i].name = s) =>
                   \E i \in DOMAIN list : list[i].name = s /\ Saved(list)[s] = list[i].group
<1> DEFINE named(s) == {i \in DOMAIN list : list[i].name = s}
<1>1. Saved(list) = [s \in Stations |-> IF named(s) = {} THEN Unknown ELSE list[Max(named(s))].group]
  BY DEF Saved
<1>2. ASSUME NEW s \in Stations, named(s) # {}
      PROVE  Max(named(s)) \in named(s)
  <2> DEFINE T == named(s)
  <2>1. T \in SUBSET (1 .. Len(list)) /\ T # {} /\ Len(list) \in Nat
    BY <1>2, RowsAre
  <2> HIDE DEF T
  <2>2. Max(T) \in T
    BY <2>1, GreatestIs
  <2> QED BY <2>2 DEF T
<1>3. ASSUME NEW s \in Stations
      PROVE  (IF named(s) = {} THEN Unknown ELSE list[Max(named(s))].group) \in Groups \cup {GroupNone, Unknown}
  <2>1. CASE named(s) = {}
    BY <2>1
  <2>2. CASE named(s) # {}
    <3>1. Max(named(s)) \in DOMAIN list
      BY <1>2, <2>2
    <3>2. list[Max(named(s))].group \in Groups \cup {GroupNone}
      BY <3>1, RowsAre
    <3> QED BY <2>2, <3>2
  <2> QED BY <2>1, <2>2
<1>4. Saved(list) \in Known
  <2> HIDE DEF named
  <2> QED BY <1>1, <1>3 DEF Known
<1>5. ASSUME NEW s \in Stations, named(s) = {}
      PROVE  Saved(list)[s] = Unknown
  <2> HIDE DEF named
  <2> QED BY <1>1, <1>5
<1>6. ASSUME NEW s \in Stations, named(s) # {}
      PROVE  \E i \in named(s) : Saved(list)[s] = list[i].group
  <2>1. Max(named(s)) \in named(s)
    BY <1>2, <1>6
  <2> HIDE DEF named
  <2> QED BY <1>1, <1>6, <2>1
<1> QED BY <1>4, <1>5, <1>6

\* A file cut short is one too.
LEMMA CutIs ==
  ASSUME NEW list \in Seq(Row)
  PROVE  CutShort(list) \subseteq Known
<1>1. ASSUME NEW n \in 0 .. Len(list)
      PROVE  Saved(SubSeq(list, 1, n)) \in Known
  <2>1. CASE n = 0
    <3>1. SubSeq(list, 1, n) = <<>>
      BY <2>1
    <3> QED BY <3>1, EmptySeq, SavedIs
  <2>2. CASE n # 0
    <3>1. n \in 1 .. Len(list)
      BY <2>2, LenProperties
    <3> QED BY <3>1, SegmentIs, SavedIs
  <2> QED BY <2>1, <2>2
<1> QED BY <1>1 DEF CutShort

\* A save writes the rows, or staff can be sure of no group.
LEMMA SavesIs ==
  ASSUME TypeOK, NEW list \in Seq(Row), Saves(list)
  PROVE  /\ file' \in Known /\ faults' \subseteq evening.faults /\ forgotten' \subseteq Stations
         /\ (file' = Saved(list) /\ forgotten' = forgotten) \/ forgotten' = Stations
BY TypesAre, SavedIs, CutIs DEF Saves

\* What is remembered of a station is the group of one of these rows with its name.
LEMMA RememberedIs ==
  ASSUME TypeOK, NEW at \in SUBSET DOMAIN rows
  PROVE  /\ Remembered(at) \in Known
         /\ \A s \in Stations :
              /\ (\A i \in at : rows[i].name # s) => Remembered(at)[s] = groups[s]
              /\ (\E i \in at : rows[i].name = s) =>
                   \E i \in at : rows[i].name = s /\ Remembered(at)[s] = rows[i].group
<1> DEFINE one(s) == CHOOSE i \in at : rows[i].name = s
<1>1. Remembered(at) = [s \in Stations |-> IF \E i \in at : rows[i].name = s
                                           THEN rows[one(s)].group ELSE groups[s]]
  BY DEF Remembered
<1>2. \A s \in Stations : (\E i \in at : rows[i].name = s) => one(s) \in at /\ rows[one(s)].name = s
  OBVIOUS
<1> HIDE DEF one
<1>3. \A s \in Stations : (IF \E i \in at : rows[i].name = s THEN rows[one(s)].group ELSE groups[s])
                            \in Groups \cup {GroupNone, Unknown}
  <2>1. \A i \in at : rows[i].group \in Groups \cup {GroupNone}
    BY TypesAre, RowsAre
  <2>2. \A s \in Stations : groups[s] \in Groups \cup {GroupNone, Unknown}
    BY TypesAre DEF Known
  <2> QED BY <1>2, <2>1, <2>2
<1>4. Remembered(at) \in Known
  BY <1>1, <1>3 DEF Known
<1> QED BY <1>1, <1>2, <1>4

\* The list without the row of a connection: the others, in their order.
LEMMA WithoutIs ==
  ASSUME TypeOK, NEW c, RowOf(c) # {}
  PROVE  /\ Min(RowOf(c)) \in RowOf(c)
         /\ Without(c) \in Seq(Row) /\ Len(Without(c)) = Len(rows) - 1
         /\ \A k \in DOMAIN Without(c) :
              /\ k \in DOMAIN rows /\ k + 1 \in DOMAIN rows
              /\ Without(c)[k] = IF k < Min(RowOf(c)) THEN rows[k] ELSE rows[k + 1]
<1> DEFINE T == RowOf(c)
<1>1. rows \in Seq(Row) /\ DOMAIN rows = 1 .. Len(rows) /\ Len(rows) \in Nat
  BY TypesAre, RowsAre
<1>2. T \in SUBSET Nat /\ T # {} /\ T \subseteq 1 .. Len(rows)
  BY <1>1 DEF RowOf
<1>3. Min(T) \in T
  <2> HIDE DEF T
  <2> QED BY <1>2, LeastIs
<1>4. Min(T) \in 1 .. Len(rows)
  BY <1>2, <1>3
<1>5. Without(c) = RemoveAt(rows, Min(T))
  BY <1>2 DEF Without
<1> HIDE DEF T
<1>6. /\ RemoveAt(rows, Min(T)) \in Seq(Row) /\ Len(RemoveAt(rows, Min(T))) = Len(rows) - 1
      /\ \A k \in 1 .. Len(rows) - 1 : RemoveAt(rows, Min(T))[k] = IF k < Min(T) THEN rows[k] ELSE rows[k + 1]
  BY <1>1, <1>4, RemoveAtIs
<1>7. DOMAIN Without(c) = 1 .. Len(rows) - 1
  BY <1>5, <1>6, LenProperties
<1>8. \A k \in 1 .. Len(rows) - 1 : k \in 1 .. Len(rows) /\ k + 1 \in 1 .. Len(rows)
  BY <1>1
<1>9. T = RowOf(c)
  BY DEF T
<1> QED BY <1>1, <1>3, <1>5, <1>6, <1>7, <1>8, <1>9
-----------------------------------------------------------------------------
(* What the steps do to a connection, and that they keep the types. *)

LEMMA LinesAre ==
  ASSUME TypeOK, NEW c \in Conns
  PROVE  /\ conn[c] \in Line /\ conn[c].of \in Stations /\ conn[c].ends \in Ends
         /\ conn[c].up \in Seq(Reports) /\ conn[c].down \in Seq(Orders)
         /\ conn[c].at \in Handlers
BY TypesAre DEF Line

\* One connection becomes k, the others stay.
LEMMA OneLine ==
  ASSUME TypeOK, NEW c \in Conns, NEW k \in Line, conn' = [conn EXCEPT ![c] = k]
  PROVE  /\ conn' \in [Conns -> Line] /\ conn'[c] = k
         /\ \A d \in Conns \ {c} : conn'[d] = conn[d]
BY TypesAre

\* Ends are closed, or the handler goes on.
LEMMA OneWith ==
  ASSUME TypeOK, NEW c \in Conns, NEW ends \in Ends,
         NEW at \in Handlers,
         conn' = [conn EXCEPT ![c] = With(@, ends, at)]
  PROVE  /\ conn' \in [Conns -> Line] /\ conn'[c] = With(conn[c], ends, at)
         /\ \A d \in Conns \ {c} : conn'[d] = conn[d]
<1>1. With(conn[c], ends, at) \in Line
  BY LinesAre, WithIs
<1>2. conn' = [conn EXCEPT ![c] = With(conn[c], ends, at)]
  OBVIOUS
<1> QED BY <1>1, <1>2, OneLine

\* A report is added to what is under way to the master.
LEMMA MoreUp ==
  ASSUME NEW k \in Line, NEW report \in Reports
  PROVE  LET new == [k EXCEPT !.up = IF "master" \in k.ends THEN Append(@, report) ELSE @]
         IN  /\ new \in Line /\ new.of = k.of /\ new.ends = k.ends /\ new.at = k.at /\ new.down = k.down
             /\ new.up = IF "master" \in k.ends THEN Append(k.up, report) ELSE k.up
<1> DEFINE up == IF "master" \in k.ends THEN Append(k.up, report) ELSE k.up
<1>1. up \in Seq(Reports)
  <2>1. k.up \in Seq(Reports)
    BY DEF Line
  <2>2. Append(k.up, report) \in Seq(Reports)
    BY <2>1, AppendProperties
  <2> QED BY <2>1, <2>2
<1> HIDE DEF up
<1>2. LET new == [k EXCEPT !.up = up]
      IN  /\ new \in Line /\ new.of = k.of /\ new.ends = k.ends /\ new.at = k.at /\ new.down = k.down
          /\ new.up = up
  BY <1>1 DEF Line
<1> QED BY <1>2 DEF up

LEMMA SendingIs ==
  ASSUME TypeOK, NEW s \in Stations, NEW report \in Reports
  PROVE  /\ Sending(s, report) \in [Conns -> Line]
         /\ \A d \in Conns : d # sock[s] => Sending(s, report)[d] = conn[d]
         /\ sock[s] # NoConn =>
              LET new == Sending(s, report)[sock[s]]
                  old == conn[sock[s]]
              IN  /\ new.of = old.of /\ new.ends = old.ends /\ new.at = old.at /\ new.down = old.down
                  /\ new.up = IF "master" \in old.ends THEN Append(old.up, report) ELSE old.up
<1>1. CASE sock[s] = NoConn
  BY <1>1, TypesAre, VenueAssumption DEF Sending
<1>2. CASE sock[s] # NoConn
  <2> DEFINE c == sock[s]
             k == [conn[c] EXCEPT !.up = IF "master" \in conn[c].ends THEN Append(@, report) ELSE @]
  <2>1. c \in Conns /\ conn[c] \in Line /\ conn \in [Conns -> Line]
    BY <1>2, TypesAre
  <2>2. /\ k \in Line /\ k.of = conn[c].of /\ k.ends = conn[c].ends /\ k.at = conn[c].at
        /\ k.down = conn[c].down
        /\ k.up = IF "master" \in conn[c].ends THEN Append(conn[c].up, report) ELSE conn[c].up
    BY <2>1, MoreUp
  <2>3. Sending(s, report) = [conn EXCEPT ![c] = k]
    BY <1>2 DEF Sending
  <2> HIDE DEF k, c
  <2>4. /\ [conn EXCEPT ![c] = k] \in [Conns -> Line] /\ [conn EXCEPT ![c] = k][c] = k
        /\ \A d \in Conns : d # c => [conn EXCEPT ![c] = k][d] = conn[d]
    BY <2>1, <2>2
  <2> QED BY <2>2, <2>3, <2>4 DEF c
<1> QED BY <1>1, <1>2

\* With room, fewer orders: what a station's thread takes.
LEMMA LessDown ==
  ASSUME NEW k \in Line, NEW down \in Seq(Orders)
  PROVE  LET new == [k EXCEPT !.down = down]
         IN  /\ new \in Line /\ new.of = k.of /\ new.ends = k.ends /\ new.at = k.at /\ new.up = k.up
             /\ new.down = down
BY DEF Line

LEMMA LessUp ==
  ASSUME NEW k \in Line, NEW up \in Seq(Reports)
  PROVE  LET new == [k EXCEPT !.up = up]
         IN  /\ new \in Line /\ new.of = k.of /\ new.ends = k.ends /\ new.at = k.at /\ new.down = k.down
             /\ new.up = up
BY DEF Line

LEMMA ConnectTypes ==
  ASSUME TypeOK, NEW s \in Stations, NEW c \in Conns, ConnectToMaster(s, c)
  PROVE  /\ TypeOK'
         /\ conn'[c] = [of |-> s, ends |-> {"station", "master"}, up |-> <<"name">>, down |-> <<>>, at |-> "none"]
         /\ \A d \in Conns \ {c} : conn'[d] = conn[d]
<1> DEFINE k == [of |-> s, ends |-> {"station", "master"}, up |-> <<"name">>, down |-> <<>>, at |-> "none"]
<1>1. k \in Line
  <2>1. <<"name">> \in Seq(Reports) /\ <<>> \in Seq(Orders)
    BY EmptySeq DEF Reports
  <2> QED BY <2>1, EndsAre, HandlersAre DEF Line
<1>2. conn' = [conn EXCEPT ![c] = k]
  BY DEF ConnectToMaster
<1> HIDE DEF k
<1>3. conn' \in [Conns -> Line] /\ conn'[c] = k /\ \A d \in Conns \ {c} : conn'[d] = conn[d]
  BY <1>1, <1>2, OneLine
<1>4. /\ sock' = [sock EXCEPT ![s] = c] /\ misled' = IF left[s] > 0 THEN misled \cup {c} ELSE misled \ {c}
      /\ UNCHANGED <<server, rows, groups, file, ui, left, unsent, evening, faults, wish, forgotten>>
  BY DEF ConnectToMaster, desk
<1>5. sock' \in [Stations -> Conns \cup {NoConn}] /\ misled' \subseteq Conns
  BY <1>4, TypesAre
<1>6. TypeOK'
  BY <1>3, <1>4, <1>5, TypesAre, TypesBack DEF TypeOK
<1> QED BY <1>3, <1>6 DEF k

\* What happens to a connection when its station hangs up.
LEMMA HangsTypes ==
  ASSUME TypeOK, NEW s \in Stations, LinkLost(s) \/ StationRestarts(s)
  PROVE  /\ TypeOK' /\ sock[s] \in Conns
         /\ conn'[sock[s]] = With(conn[sock[s]], conn[sock[s]].ends \ {"station"}, conn[sock[s]].at)
         /\ \A d \in Conns \ {sock[s]} : conn'[d] = conn[d]
         /\ sock' = [sock EXCEPT ![s] = NoConn]
         /\ unsent' \in {unsent, [unsent EXCEPT ![s] = Silent]}
         /\ UNCHANGED <<server, rows, groups, file, ui, left, evening, wish, forgotten, misled>>
<1>1. /\ sock[s] # NoConn /\ Hangs(s) /\ faults' \subseteq faults
      /\ unsent' \in {unsent, [unsent EXCEPT ![s] = Silent]}
      /\ UNCHANGED <<server, rows, groups, file, ui, left, evening, wish, forgotten, misled>>
  BY DEF LinkLost, StationRestarts, desk, history
<1>2. sock[s] \in Conns
  BY <1>1, TypesAre
<1>3. /\ conn' \in [Conns -> Line]
      /\ conn'[sock[s]] = With(conn[sock[s]], conn[sock[s]].ends \ {"station"}, conn[sock[s]].at)
      /\ \A d \in Conns \ {sock[s]} : conn'[d] = conn[d]
  <2>1. conn' = [conn EXCEPT ![sock[s]] = With(@, conn[sock[s]].ends \ {"station"}, conn[sock[s]].at)]
    BY <1>1 DEF Hangs
  <2>2. conn[sock[s]].ends \ {"station"} \in Ends
    BY <1>2, LinesAre, EndsAre
  <2> QED BY <1>2, <2>1, <2>2, LinesAre, OneWith
<1>4. sock' = [sock EXCEPT ![s] = NoConn] /\ sock' \in [Stations -> Conns \cup {NoConn}]
  BY <1>1, TypesAre DEF Hangs
<1>5. unsent' \in Unsent
  <2>1. Silent \in [Threads -> (Reports \ {"name"}) \cup {"none"}]
    BY DEF Silent
  <2> QED BY <1>1, <2>1, TypesAre DEF Unsent
<1>6. TypeOK'
  BY <1>1, <1>3, <1>4, <1>5, TypesAre, TypesBack DEF TypeOK
<1> QED BY <1>1, <1>2, <1>3, <1>4, <1>6

\* What of the connections a step leaves alone that only takes or sends orders.
SameLines ==
  \A d \in Conns : conn'[d].of = conn[d].of /\ conn'[d].ends = conn[d].ends
                   /\ conn'[d].at = conn[d].at /\ conn'[d].up = conn[d].up

\* What a thread is to report, and the time that is left.
Told(report, time) ==
  \/ report = "none"
  \/ report \in {"started", "time"} /\ time > 0
  \/ report = "stopped" /\ time = 0

LEMMA CrossedIs ==
  ASSUME NEW report \in (Reports \ {"name"}) \cup {"none"}
  PROVE  Crossed(report) \in {"late", "stale", "none"} /\ (Crossed(report) = "none" <=> report = "none")
BY DEF Crossed, Reports

LEMMA SetsIs ==
  ASSUME TypeOK, NEW s \in Stations, NEW t \in Threads, NEW time \in 0 .. MaxLeft,
         NEW report \in {"started", "time", "stopped", "none"}, Sets(s, t, time, report)
  PROVE  /\ left' \in [Stations -> 0 .. MaxLeft] /\ left'[s] = time
         /\ \A r \in Stations \ {s} : left'[r] = left[r] /\ unsent'[r] = unsent[r]
         /\ unsent' \in Unsent /\ unsent'[s][t] = report
         /\ \A u \in Threads \ {t} :
              unsent'[s][u] = IF (left[s] > 0) # (time > 0) THEN Crossed(unsent[s][u]) ELSE unsent[s][u]
<1> DEFINE new(u) == IF u = t THEN report
                     ELSE IF (left[s] > 0) # (time > 0) THEN Crossed(unsent[s][u]) ELSE unsent[s][u]
<1>1. left' = [left EXCEPT ![s] = time] /\ unsent' = [unsent EXCEPT ![s] = [u \in Threads |-> new(u)]]
  BY DEF Sets
<1>2. left \in [Stations -> 0 .. MaxLeft] /\ unsent \in Unsent
  BY TypesAre
<1>3. \A u \in Threads : unsent[s][u] \in (Reports \ {"name"}) \cup {"none"}
  BY <1>2 DEF Unsent
<1>4. \A u \in Threads : new(u) \in (Reports \ {"name"}) \cup {"none"}
  <2>1. \A u \in Threads : Crossed(unsent[s][u]) \in (Reports \ {"name"}) \cup {"none"}
    <3>1. {"late", "stale", "none"} \subseteq (Reports \ {"name"}) \cup {"none"}
      BY DEF Reports
    <3> QED BY <1>3, <3>1, CrossedIs
  <2>2. report \in (Reports \ {"name"}) \cup {"none"}
    BY DEF Reports
  <2> QED BY <1>3, <2>1, <2>2
<1>5. new(t) = report
  OBVIOUS
<1>6. \A u \in Threads \ {t} :
        new(u) = IF (left[s] > 0) # (time > 0) THEN Crossed(unsent[s][u]) ELSE unsent[s][u]
  OBVIOUS
<1> HIDE DEF new
<1>7. [u \in Threads |-> new(u)] \in [Threads -> (Reports \ {"name"}) \cup {"none"}]
  BY <1>4
<1>8. unsent' \in Unsent
  BY <1>1, <1>2, <1>7 DEF Unsent
<1>9. unsent'[s] = [u \in Threads |-> new(u)] /\ \A r \in Stations \ {s} : unsent'[r] = unsent[r]
  BY <1>1, <1>2 DEF Unsent
<1>10. left' \in [Stations -> 0 .. MaxLeft] /\ left'[s] = time /\ \A r \in Stations \ {s} : left'[r] = left[r]
  BY <1>1, <1>2
<1> QED BY <1>5, <1>6, <1>8, <1>9, <1>10

\* A command, a session started, or the countdown: one thread sets the time left
\* and is to report it.
LEMMA SomeSets ==
  ASSUME TypeOK, NEW s \in Stations, ParseCommand(s) \/ StartSession(s) \/ Tick(s)
  PROVE  \E t \in Threads, time \in 0 .. MaxLeft, report \in {"started", "time", "stopped", "none"} :
           Sets(s, t, time, report) /\ Told(report, time) /\ (report = "none" => time = left[s])
<1>1. left[s] \in 0 .. MaxLeft /\ MaxLeft \in Nat \ {0}
  BY TypesAre, VenueAssumption
<1>2. "window" \in Threads /\ "receive" \in Threads
  BY DEF Threads
<1>3. CASE StartSession(s)
  <2>1. Sets(s, "window", MaxLeft, "started") /\ MaxLeft \in 0 .. MaxLeft /\ Told("started", MaxLeft)
    BY <1>1, <1>3 DEF StartSession, Told
  <2> QED BY <1>2, <2>1
<1>4. CASE Tick(s)
  <2>1. PICK time \in {left[s], left[s] - 1} :
          Sets(s, "window", time, IF time = 0 THEN "stopped" ELSE "time") /\ left[s] > 0
    BY <1>4 DEF Tick
  <2>2. time \in 0 .. MaxLeft
    BY <1>1, <2>1
  <2>3. CASE time = 0
    BY <1>2, <2>1, <2>2, <2>3 DEF Told
  <2>4. CASE time # 0
    <3>1. Told("time", time) /\ Sets(s, "window", time, "time")
      BY <2>1, <2>2, <2>4 DEF Told
    <3> QED BY <1>2, <2>2, <3>1
  <2> QED BY <2>3, <2>4
<1>5. CASE ParseCommand(s)
  <2> DEFINE first == Head(conn[sock[s]].down)
  <2>1. \/ first = "start" /\ Sets(s, "receive", 1, "started")
        \/ first = "add" /\ left[s] > 0 /\ Sets(s, "receive", Min({left[s] + 1, MaxLeft}), "time")
        \/ first = "stop" /\ (left[s] > 0 \/ s \in evening.time) /\ Sets(s, "receive", 0, "stopped")
        \/ first # "start" /\ left[s] = 0 /\ Sets(s, "receive", 0, "none")
    BY <1>5 DEF ParseCommand
  <2> HIDE DEF first
  <2>2. CASE Sets(s, "receive", 1, "started")
    BY <1>1, <1>2, <2>2 DEF Told
  <2>3. CASE left[s] > 0 /\ Sets(s, "receive", Min({left[s] + 1, MaxLeft}), "time")
    <3> DEFINE T == {left[s] + 1, MaxLeft}
    <3>1. T \in SUBSET Nat /\ T # {} /\ MaxLeft \in T /\ \A n \in T : n > 0 /\ n \in Nat
      BY <1>1
    <3>2. Sets(s, "receive", Min(T), "time")
      BY <2>3
    <3> HIDE DEF T
    <3>3. Min(T) \in T /\ Min(T) <= MaxLeft
      BY <3>1, LeastIs
    <3> DEFINE m == Min(T)
    <3>4. m \in Nat /\ m > 0 /\ m <= MaxLeft
      BY <3>1, <3>3
    <3> HIDE DEF m
    <3>5. m \in 0 .. MaxLeft /\ Told("time", m)
      BY <1>1, <3>4 DEF Told
    <3>6. Sets(s, "receive", m, "time")
      BY <3>2 DEF m
    <3> QED BY <1>2, <3>5, <3>6
  <2>4. CASE Sets(s, "receive", 0, "stopped")
    BY <1>1, <1>2, <2>4 DEF Told
  <2>5. CASE left[s] = 0 /\ Sets(s, "receive", 0, "none")
    BY <1>1, <1>2, <2>5 DEF Told
  <2> QED BY <2>1, <2>2, <2>3, <2>4, <2>5
<1> QED BY <1>3, <1>4, <1>5

LEMMA ReportTypes ==
  ASSUME TypeOK, NEW s \in Stations, ParseCommand(s) \/ StartSession(s) \/ Tick(s)
  PROVE  /\ TypeOK' /\ SameLines
         /\ \A d \in Conns : Len(conn'[d].down) <= Len(conn[d].down)
         /\ UNCHANGED <<server, rows, groups, file, ui, sock, evening, faults, wish, forgotten, misled>>
<1>1. PICK t \in Threads, time \in 0 .. MaxLeft, report \in {"started", "time", "stopped", "none"} :
        Sets(s, t, time, report)
  BY SomeSets
<1>2. left' \in [Stations -> 0 .. MaxLeft] /\ unsent' \in Unsent
  BY <1>1, SetsIs
<1>3. UNCHANGED <<server, rows, groups, file, ui, sock, evening, faults, wish, forgotten, misled>>
  BY DEF ParseCommand, StartSession, Tick, desk, history
<1>4. \A d \in Conns : Len(conn[d].down) \in Nat
  BY LinesAre, LenProperties
<1>5. conn' \in [Conns -> Line] /\ SameLines /\ \A d \in Conns : Len(conn'[d].down) <= Len(conn[d].down)
  <2>1. CASE conn' = conn
    BY <1>4, <2>1, TypesAre DEF SameLines
  <2>2. CASE ParseCommand(s)
    <3> DEFINE c == sock[s]
    <3>1. c \in Conns
      BY <2>2, TypesAre DEF ParseCommand
    <3>2. PICK taken \in 1 .. Len(conn[c].down) :
            conn' = [conn EXCEPT ![c].down = SubSeq(@, taken + 1, Len(@))]
      BY <2>2 DEF ParseCommand
    <3> DEFINE rest == SubSeq(conn[c].down, taken + 1, Len(conn[c].down))
               k == [conn[c] EXCEPT !.down = rest]
    <3>3. rest \in Seq(Orders) /\ Len(rest) = Len(conn[c].down) - taken /\ taken \in Nat
      <4>1. conn[c].down \in Seq(Orders) /\ Len(conn[c].down) \in Nat
        BY <1>4, <3>1, LinesAre
      <4> QED BY <3>2, <4>1, RestIs
    <3>4. conn' = [conn EXCEPT ![c] = k]
      BY <3>2
    <3> HIDE DEF rest
    <3>5. /\ k \in Line /\ k.of = conn[c].of /\ k.ends = conn[c].ends /\ k.at = conn[c].at
          /\ k.up = conn[c].up /\ k.down = rest
      <4>1. conn[c] \in Line
        BY <3>1, LinesAre
      <4> QED BY <3>3, <4>1, LessDown
    <3> HIDE DEF k, c
    <3>6. conn' \in [Conns -> Line] /\ conn'[c] = k /\ \A d \in Conns \ {c} : conn'[d] = conn[d]
      BY <3>1, <3>4, <3>5, OneLine
    <3> QED BY <1>4, <3>1, <3>3, <3>5, <3>6 DEF SameLines
  <2> QED BY <2>1, <2>2 DEF StartSession, Tick
<1>6. TypeOK'
  BY <1>2, <1>3, <1>5, TypesAre, TypesBack DEF TypeOK
<1> QED BY <1>3, <1>5, <1>6

\* A report is sent, or goes nowhere.
LEMMA SayTypes ==
  ASSUME TypeOK, NEW s \in Stations, NEW t \in Threads, SendToMaster(s, t)
  PROVE  /\ TypeOK' /\ unsent[s][t] \in Reports \ {"name"}
         /\ \A d \in Conns : d # sock[s] => conn'[d] = conn[d]
         /\ \A d \in Conns : conn'[d].of = conn[d].of /\ conn'[d].ends = conn[d].ends
                             /\ conn'[d].at = conn[d].at /\ conn'[d].down = conn[d].down
         /\ sock[s] # NoConn =>
              conn'[sock[s]].up = IF "master" \in conn[sock[s]].ends
                                  THEN Append(conn[sock[s]].up, unsent[s][t]) ELSE conn[sock[s]].up
         /\ \A r \in Stations \ {s} : unsent'[r] = unsent[r]
         /\ unsent'[s][t] = "none" /\ \A u \in Threads \ {t} : unsent'[s][u] = unsent[s][u]
         /\ UNCHANGED <<server, rows, groups, file, ui, sock, left, evening, faults, wish, forgotten, misled>>
<1>1. /\ unsent[s][t] # "none" /\ conn' = Sending(s, unsent[s][t])
      /\ unsent' = [unsent EXCEPT ![s][t] = "none"]
      /\ UNCHANGED <<server, rows, groups, file, ui, sock, left, evening, faults, wish, forgotten, misled>>
  BY DEF SendToMaster, desk, history
<1>2. unsent \in Unsent
  BY TypesAre
<1>3. unsent[s][t] \in Reports \ {"name"} /\ unsent[s] \in [Threads -> (Reports \ {"name"}) \cup {"none"}]
  BY <1>1, <1>2 DEF Unsent
<1> DEFINE report == unsent[s][t]
           mid == Sending(s, report)
<1>4. /\ mid \in [Conns -> Line] /\ \A d \in Conns : d # sock[s] => mid[d] = conn[d]
      /\ sock[s] # NoConn =>
           /\ mid[sock[s]].of = conn[sock[s]].of /\ mid[sock[s]].ends = conn[sock[s]].ends
           /\ mid[sock[s]].at = conn[sock[s]].at /\ mid[sock[s]].down = conn[sock[s]].down
           /\ mid[sock[s]].up = IF "master" \in conn[sock[s]].ends
                                THEN Append(conn[sock[s]].up, report) ELSE conn[sock[s]].up
  <2>1. report \in Reports
    BY <1>3
  <2> HIDE DEF report
  <2> QED BY <2>1, SendingIs
<1>5. conn' = mid
  BY <1>1
<1> HIDE DEF mid
<1>6. [unsent[s] EXCEPT ![t] = "none"] \in [Threads -> (Reports \ {"name"}) \cup {"none"}]
  BY <1>3
<1>7. /\ unsent' \in Unsent /\ \A r \in Stations \ {s} : unsent'[r] = unsent[r]
      /\ unsent'[s] = [unsent[s] EXCEPT ![t] = "none"]
  <2> DEFINE fewer == [unsent[s] EXCEPT ![t] = "none"]
  <2>1. unsent' = [unsent EXCEPT ![s] = fewer]
    BY <1>1
  <2>2. fewer \in [Threads -> (Reports \ {"name"}) \cup {"none"}]
    BY <1>6
  <2> HIDE DEF fewer
  <2>3. unsent' \in Unsent /\ unsent'[s] = fewer /\ \A r \in Stations \ {s} : unsent'[r] = unsent[r]
    BY <1>2, <2>1, <2>2 DEF Unsent
  <2> QED BY <2>3 DEF fewer
<1>8. unsent'[s][t] = "none" /\ \A u \in Threads \ {t} : unsent'[s][u] = unsent[s][u]
  BY <1>3, <1>7
<1>9. TypeOK'
  BY <1>1, <1>4, <1>5, <1>7, TypesAre, TypesBack DEF TypeOK
<1>10. \A d \in Conns : conn'[d].of = conn[d].of /\ conn'[d].ends = conn[d].ends
                        /\ conn'[d].at = conn[d].at /\ conn'[d].down = conn[d].down
  BY <1>4, <1>5, VenueAssumption
<1> QED BY <1>1, <1>3, <1>4, <1>5, <1>7, <1>8, <1>9, <1>10

LEMMA FunIsSeq ==
  ASSUME NEW S, NEW n \in Nat, NEW f \in [1 .. n -> S]
  PROVE  f \in Seq(S) /\ Len(f) = n
OBVIOUS

\* The handler of a connection goes on.
LEMMA AtIs ==
  ASSUME TypeOK, NEW c \in Conns, NEW at \in Handlers,
         conn' = [conn EXCEPT ![c].at = at]
  PROVE  /\ conn' \in [Conns -> Line]
         /\ conn'[c].at = at /\ conn'[c].of = conn[c].of /\ conn'[c].ends = conn[c].ends
         /\ conn'[c].up = conn[c].up /\ conn'[c].down = conn[c].down
         /\ \A d \in Conns \ {c} : conn'[d] = conn[d]
<1> DEFINE k == [conn[c] EXCEPT !.at = at]
<1>1. /\ k \in Line /\ k.at = at /\ k.of = conn[c].of /\ k.ends = conn[c].ends
      /\ k.up = conn[c].up /\ k.down = conn[c].down
  <2>1. conn[c] \in Line
    BY LinesAre
  <2> QED BY <2>1 DEF Line
<1>2. conn' = [conn EXCEPT ![c] = k]
  OBVIOUS
<1> HIDE DEF k
<1> QED BY <1>1, <1>2, OneLine

LEMMA AcceptTypes ==
  ASSUME TypeOK, NEW c \in Conns, Accept(c)
  PROVE  TypeOK'
<1>1. conn' \in [Conns -> Line] /\ UNCHANGED <<desk, stations, evening, faults, history>>
  BY AtIs, HandlersAre DEF Accept
<1> QED BY <1>1, TypesAre, TypesBack DEF TypeOK, desk, stations, history

LEMMA AddTypes ==
  ASSUME TypeOK, NEW c \in Conns, AddStationRow(c)
  PROVE  TypeOK'
<1>1. conn' \in [Conns -> Line] /\ UNCHANGED <<desk, stations, evening, faults, history>>
  BY AtIs, HandlersAre DEF AddStationRow
<1> QED BY <1>1, TypesAre, TypesBack DEF TypeOK, desk, stations, history

\* The master's end of some connections is closed.
LEMMA ClosingIs ==
  ASSUME TypeOK, NEW closed \in SUBSET Conns,
         conn' = [d \in Conns |-> IF d \in closed THEN With(conn[d], conn[d].ends \ {"master"}, conn[d].at)
                                  ELSE conn[d]]
  PROVE  conn' \in [Conns -> Line]
<1>1. \A d \in Conns : With(conn[d], conn[d].ends \ {"master"}, conn[d].at) \in Line /\ conn[d] \in Line
  <2>1. \A d \in Conns : conn[d].ends \ {"master"} \in Ends
    BY LinesAre, EndsAre
  <2> QED BY <2>1, LinesAre, WithIs
<1> QED BY <1>1

LEMMA AcceptFailsTypes ==
  ASSUME TypeOK, NEW c \in Conns, AcceptFails(c)
  PROVE  /\ TypeOK'
         /\ \A d \in Conns : conn[d].at = "none" =>
              conn'[d] = With(conn[d], conn[d].ends \ {"master"}, "none")
         /\ \A d \in Conns : conn[d].at # "none" => conn'[d] = conn[d]
<1> DEFINE closed == {d \in Conns : conn[d].at = "none"}
<1>1. /\ conn' = [d \in Conns |-> IF d \in closed THEN With(conn[d], conn[d].ends \ {"master"}, conn[d].at)
                                  ELSE conn[d]]
      /\ UNCHANGED <<rows, groups, file, ui, stations, evening, faults, history>> /\ server' = "dead"
  <2>1. /\ conn' = [d \in Conns |-> IF conn[d].at = "none" THEN With(conn[d], conn[d].ends \ {"master"}, "none")
                                    ELSE conn[d]]
        /\ UNCHANGED <<rows, groups, file, ui, stations, evening, faults, history>> /\ server' = "dead"
    BY DEF AcceptFails
  <2>2. \A d \in Conns :
          (IF conn[d].at = "none" THEN With(conn[d], conn[d].ends \ {"master"}, "none") ELSE conn[d])
            = IF d \in closed THEN With(conn[d], conn[d].ends \ {"master"}, conn[d].at) ELSE conn[d]
    OBVIOUS
  <2> QED BY <2>1, <2>2
<1>2. conn' \in [Conns -> Line]
  <2>1. closed \in SUBSET Conns
    OBVIOUS
  <2> HIDE DEF closed
  <2> QED BY <1>1, <2>1, ClosingIs
<1>3. TypeOK'
  BY <1>1, <1>2, TypesAre, TypesBack DEF TypeOK, stations, history
<1> QED BY <1>1, <1>3

\* The new row, and the handler that waits for the window or for itself.
LEMMA GreetTypes ==
  ASSUME TypeOK, NEW c \in Conns, Greet(c)
  PROVE  LET s == conn[c].of
             saved == s \in Numbered /\ groups[s] # Unknown
             row == [conn |-> c, active |-> FALSE, name |-> IF saved THEN s ELSE NoName,
                     group |-> IF saved THEN groups[s] ELSE GroupNone]
         IN  /\ TypeOK' /\ conn[c].at = "greet" /\ row \in Row
             /\ conn'[c].at \in {"list", "stuck"}
             /\ conn'[c].of = s /\ conn'[c].ends = conn[c].ends
             /\ conn'[c].up = conn[c].up /\ conn'[c].down = conn[c].down
             /\ \A d \in Conns \ {c} : conn'[d] = conn[d]
             /\ Len(rows') = Len(rows) + 1 /\ rows'[Len(rows) + 1] = row
             /\ \A i \in DOMAIN rows : rows'[i] = rows[i]
             /\ forgotten' = IF \E d \in Conns \ {c} : Uses(d, s) THEN forgotten \cup {s} ELSE forgotten
             /\ UNCHANGED <<server, groups, file, ui, sock, left, unsent, evening, faults, wish, misled>>
<1> DEFINE s == conn[c].of
           saved == s \in Numbered /\ groups[s] # Unknown
           row == [conn |-> c, active |-> FALSE, name |-> IF saved THEN s ELSE NoName,
                   group |-> IF saved THEN groups[s] ELSE GroupNone]
<1>1. /\ conn[c].at = "greet" /\ rows' = Append(rows, row)
      /\ forgotten' = IF \E d \in Conns \ {c} : Uses(d, s) THEN forgotten \cup {s} ELSE forgotten
      /\ UNCHANGED <<server, groups, file, ui, sock, left, unsent, evening, faults, wish, misled>>
  BY DEF Greet, stations
<1>2. PICK at \in {"list", "stuck"} : conn' = [conn EXCEPT ![c].at = at]
  BY DEF Greet
<1>3. /\ conn' \in [Conns -> Line]
      /\ conn'[c].at = at /\ conn'[c].of = conn[c].of /\ conn'[c].ends = conn[c].ends
      /\ conn'[c].up = conn[c].up /\ conn'[c].down = conn[c].down
      /\ \A d \in Conns \ {c} : conn'[d] = conn[d]
  BY <1>2, AtIs, HandlersAre
<1>4. s \in Stations
  BY LinesAre
<1>5. row \in Row
  <2>1. (IF saved THEN s ELSE NoName) \in Stations \cup {NoName}
    BY <1>4
  <2>2. (IF saved THEN groups[s] ELSE GroupNone) \in Groups \cup {GroupNone}
    <3>1. groups[s] \in Groups \cup {GroupNone, Unknown}
      BY <1>4, TypesAre DEF Known
    <3> QED BY <3>1
  <2> QED BY <2>1, <2>2 DEF Row
<1> HIDE DEF row
<1>6. /\ rows' \in Seq(Row) /\ Len(rows') = Len(rows) + 1 /\ rows'[Len(rows) + 1] = row
      /\ \A i \in DOMAIN rows : rows'[i] = rows[i]
  <2>1. rows \in Seq(Row) /\ DOMAIN rows = 1 .. Len(rows)
    BY TypesAre, RowsAre
  <2> QED BY <1>1, <1>5, <2>1, AppendProperties
<1>7. forgotten' \subseteq Stations
  BY <1>1, <1>4, TypesAre
<1>8. TypeOK'
  BY <1>1, <1>3, <1>6, <1>7, TypesAre, TypesBack DEF TypeOK
<1> QED BY <1>1, <1>2, <1>3, <1>5, <1>6, <1>8 DEF row

LEMMA ReportedIs ==
  ASSUME TypeOK, NEW r \in Row, NEW s \in Stations, NEW segment \in Seq(Reports)
  PROVE  /\ Reported(r, s, segment) \in Row /\ Reported(r, s, segment).conn = r.conn
         /\ Head(segment) # "name" =>
              Reported(r, s, segment).name = r.name /\ Reported(r, s, segment).group = r.group
         /\ Head(segment) = "name" /\ Len(segment) # 1 =>
              Reported(r, s, segment).name = NoName /\ Reported(r, s, segment).group = r.group
         /\ Head(segment) = "name" /\ Len(segment) = 1 =>
              /\ Reported(r, s, segment).name = s
              /\ Reported(r, s, segment).group = IF groups[s] = Unknown THEN r.group ELSE groups[s]
<1> DEFINE group == IF groups[s] = Unknown THEN r.group ELSE groups[s]
<1>1. group \in Groups \cup {GroupNone}
  <2>1. groups[s] \in Groups \cup {GroupNone, Unknown}
    BY TypesAre DEF Known
  <2> QED BY <2>1 DEF Row
<1>2. CASE Head(segment) = "name" /\ Len(segment) = 1
  <2>1. Reported(r, s, segment) = [r EXCEPT !.name = s, !.group = group]
    <3>1. Reported(r, s, segment) = [r EXCEPT !.name = s, !.group = IF groups[s] = Unknown THEN @ ELSE groups[s]]
      BY <1>2 DEF Reported
    <3> QED BY <3>1 DEF Row
  <2> HIDE DEF group
  <2>2. LET n == [r EXCEPT !.name = s, !.group = group]
        IN  n \in Row /\ n.conn = r.conn /\ n.name = s /\ n.group = group
    BY <1>1 DEF Row
  <2> QED BY <1>2, <2>1, <2>2 DEF group
<1>3. CASE Head(segment) = "name" /\ Len(segment) # 1
  <2>1. Reported(r, s, segment) = [r EXCEPT !.name = NoName]
    BY <1>3 DEF Reported
  <2>2. LET n == [r EXCEPT !.name = NoName]
        IN  n \in Row /\ n.conn = r.conn /\ n.name = NoName /\ n.group = r.group
    BY DEF Row
  <2> QED BY <1>3, <2>1, <2>2
<1>4. CASE Head(segment) # "name"
  <2>1. \/ Reported(r, s, segment) = [r EXCEPT !.active = TRUE]
        \/ Reported(r, s, segment) = [r EXCEPT !.active = FALSE]
        \/ Reported(r, s, segment) = r
    BY <1>4 DEF Reported
  <2>2. LET n == [r EXCEPT !.active = TRUE]
        IN  n \in Row /\ n.conn = r.conn /\ n.name = r.name /\ n.group = r.group
    BY DEF Row
  <2>3. LET n == [r EXCEPT !.active = FALSE]
        IN  n \in Row /\ n.conn = r.conn /\ n.name = r.name /\ n.group = r.group
    BY DEF Row
  <2> QED BY <1>4, <2>1, <2>2, <2>3
<1> QED BY <1>2, <1>3, <1>4

\* The same of the session shown.
LEMMA ReportedActive ==
  ASSUME NEW r \in Row, NEW s \in Stations, NEW segment \in Seq(Reports)
  PROVE  /\ Head(segment) = "name" => (Reported(r, s, segment).active <=> r.active)
         /\ Head(segment) \in {"started", "time", "late"} => Reported(r, s, segment).active
         /\ Head(segment) = "stopped" /\ Len(segment) = 1 => ~ Reported(r, s, segment).active
<1>1. CASE Head(segment) = "name" /\ Len(segment) = 1
  <2>1. Reported(r, s, segment) = [r EXCEPT !.name = s, !.group = IF groups[s] = Unknown THEN @ ELSE groups[s]]
    BY <1>1 DEF Reported
  <2> QED BY <1>1, <2>1 DEF Row
<1>2. CASE Head(segment) = "name" /\ Len(segment) # 1
  <2>1. Reported(r, s, segment) = [r EXCEPT !.name = NoName]
    BY <1>2 DEF Reported
  <2> QED BY <1>2, <2>1 DEF Row
<1>3. CASE Head(segment) \in {"started", "time", "late"}
  <2>1. Reported(r, s, segment) = [r EXCEPT !.active = TRUE]
    BY <1>3 DEF Reported
  <2> QED BY <1>3, <2>1 DEF Row
<1>4. CASE Head(segment) = "stopped" /\ Len(segment) = 1
  <2>1. Reported(r, s, segment) = [r EXCEPT !.active = FALSE]
    BY <1>4 DEF Reported
  <2> QED BY <1>4, <2>1 DEF Row
<1> QED BY <1>1, <1>2, <1>3, <1>4

\* One or several reports are taken, and the row follows.
LEMMA ReceiveTypes ==
  ASSUME TypeOK, NEW c \in Conns, Receive(c)
  PROVE  /\ TypeOK' /\ conn[c].at = "recv" /\ "master" \in conn[c].ends
         /\ \A d \in Conns \ {c} : conn'[d] = conn[d]
         /\ conn'[c].of = conn[c].of /\ conn'[c].ends = conn[c].ends /\ conn'[c].at = conn[c].at
         /\ conn'[c].down = conn[c].down
         /\ rows' \in Seq(Row) /\ DOMAIN rows' = DOMAIN rows
         /\ \A i \in DOMAIN rows \ RowOf(c) : rows'[i] = rows[i]
         /\ \E taken \in 1 .. Len(conn[c].up) :
              LET segment == SubSeq(conn[c].up, 1, taken)
              IN  /\ conn'[c].up = SubSeq(conn[c].up, taken + 1, Len(conn[c].up))
                  /\ \A i \in RowOf(c) : rows'[i] = Reported(rows[i], conn[c].of, segment)
                  /\ misled' = IF segment = <<"name">> THEN misled
                               ELSE IF taken > 1 \/ Head(segment) \in {"late", "stale"} THEN misled \cup {c}
                               ELSE misled \ {c}
         /\ \/ file' = Saved(rows') /\ forgotten' = forgotten
            \/ forgotten' = Stations
            \/ /\ \A i \in RowOf(c) : rows'[i].name = rows[i].name
               /\ file' = file /\ forgotten' = forgotten
         /\ UNCHANGED <<server, groups, ui, sock, left, unsent, evening, wish>>
<1>1. PICK taken \in 1 .. Len(conn[c].up) :
        LET segment == SubSeq(conn[c].up, 1, taken)
            new == [i \in DOMAIN rows |->
                      IF i \in RowOf(c) THEN Reported(rows[i], conn[c].of, segment) ELSE rows[i]]
        IN  /\ conn' = [conn EXCEPT ![c].up = SubSeq(@, taken + 1, Len(@))]
            /\ rows' = new
            /\ IF \E i \in RowOf(c) : new[i].name # rows[i].name
               THEN Saves(new) ELSE UNCHANGED <<file, faults, forgotten>>
            /\ misled' = IF segment = <<"name">> THEN misled
                         ELSE IF taken > 1 \/ Head(segment) \in {"late", "stale"} THEN misled \cup {c}
                         ELSE misled \ {c}
  BY DEF Receive
<1>2. /\ conn[c].at = "recv" /\ "master" \in conn[c].ends
      /\ UNCHANGED <<server, groups, ui, sock, left, unsent, evening, wish>>
  BY DEF Receive, stations
<1> DEFINE segment == SubSeq(conn[c].up, 1, taken)
           rest == SubSeq(conn[c].up, taken + 1, Len(conn[c].up))
           now(i) == IF i \in RowOf(c) THEN Reported(rows[i], conn[c].of, segment) ELSE rows[i]
           k == [conn[c] EXCEPT !.up = rest]
<1>3. /\ k \in Line /\ k.of = conn[c].of /\ k.ends = conn[c].ends /\ k.at = conn[c].at
      /\ k.down = conn[c].down /\ k.up = rest
  <2>1. conn[c] \in Line /\ conn[c].up \in Seq(Reports)
    BY LinesAre
  <2>2. rest \in Seq(Reports)
    BY <2>1, RestIs
  <2> HIDE DEF rest
  <2> QED BY <2>1, <2>2, LessUp
<1>4. conn' = [conn EXCEPT ![c] = k]
  BY <1>1
<1>5. rows' = [i \in DOMAIN rows |-> now(i)]
  BY <1>1
<1>6. \A i \in DOMAIN rows : now(i) \in Row
  <2>1. \A i \in DOMAIN rows : rows[i] \in Row
    BY TypesAre, RowsAre
  <2>2. conn[c].of \in Stations /\ segment \in Seq(Reports)
    BY LinesAre, SegmentIs
  <2> HIDE DEF segment
  <2>3. \A r \in Row : Reported(r, conn[c].of, segment) \in Row
    BY <2>2, ReportedIs
  <2> QED BY <2>1, <2>3
<1>7. \A i \in RowOf(c) : now(i) = Reported(rows[i], conn[c].of, segment)
  OBVIOUS
<1>8. \A i \in DOMAIN rows \ RowOf(c) : now(i) = rows[i]
  OBVIOUS
<1> DEFINE new == [i \in DOMAIN rows |-> now(i)]
<1>9. /\ IF \E i \in RowOf(c) : new[i].name # rows[i].name
         THEN Saves(new) ELSE UNCHANGED <<file, faults, forgotten>>
      /\ rows' = new
      /\ misled' = IF segment = <<"name">> THEN misled
                   ELSE IF taken > 1 \/ Head(segment) \in {"late", "stale"} THEN misled \cup {c}
                   ELSE misled \ {c}
  BY <1>1
<1> HIDE DEF now, k, new
<1>10. rows' \in Seq(Row) /\ DOMAIN rows' = DOMAIN rows
  <2>1. DOMAIN rows = 1 .. Len(rows) /\ Len(rows) \in Nat
    BY TypesAre, RowsAre
  <2>2. rows' \in [1 .. Len(rows) -> Row]
    BY <1>5, <1>6, <2>1
  <2> QED BY <2>1, <2>2, FunIsSeq, <1>5
<1>11. conn' \in [Conns -> Line] /\ conn'[c] = k /\ \A d \in Conns \ {c} : conn'[d] = conn[d]
  BY <1>3, <1>4, OneLine
<1>12. \A i \in DOMAIN rows : rows'[i] = now(i)
  BY <1>5
<1>13. RowOf(c) \subseteq DOMAIN rows
  BY DEF RowOf
<1>14. /\ file' \in Known /\ faults' \subseteq evening.faults /\ forgotten' \subseteq Stations
       /\ \/ file' = Saved(rows') /\ forgotten' = forgotten
          \/ forgotten' = Stations
          \/ /\ \A i \in RowOf(c) : rows'[i].name = rows[i].name
             /\ file' = file /\ forgotten' = forgotten
       /\ misled' \subseteq Conns
  <2>1. new \in Seq(Row) /\ rows' = new
    BY <1>9, <1>10
  <2>2. misled' \subseteq Conns
    BY <1>9, TypesAre
  <2>3. CASE Saves(new)
    <3>1. /\ file' \in Known /\ faults' \subseteq evening.faults /\ forgotten' \subseteq Stations
          /\ (file' = Saved(new) /\ forgotten' = forgotten) \/ forgotten' = Stations
      BY <2>1, <2>3, SavesIs
    <3> QED BY <2>1, <2>2, <3>1
  <2>4. CASE ~ Saves(new)
    <3>1. /\ UNCHANGED <<file, faults, forgotten>>
          /\ \A i \in RowOf(c) : new[i].name = rows[i].name
      BY <1>9, <2>4
    <3> QED BY <2>1, <2>2, <3>1, TypesAre
  <2> QED BY <2>3, <2>4
<1>15. TypeOK'
  BY <1>2, <1>10, <1>11, <1>14, TypesAre, TypesBack DEF TypeOK
<1>16. \A i \in DOMAIN rows \ RowOf(c) : rows'[i] = rows[i]
  BY <1>8, <1>12
<1>17. \A i \in RowOf(c) : rows'[i] = Reported(rows[i], conn[c].of, segment)
  BY <1>7, <1>12, <1>13
<1> HIDE DEF rest, segment
<1>18. /\ conn'[c].up = rest
       /\ \A i \in RowOf(c) : rows'[i] = Reported(rows[i], conn[c].of, segment)
       /\ misled' = IF segment = <<"name">> THEN misled
                    ELSE IF taken > 1 \/ Head(segment) \in {"late", "stale"} THEN misled \cup {c}
                    ELSE misled \ {c}
  BY <1>3, <1>9, <1>11, <1>17
<1>19. /\ conn'[c].of = conn[c].of /\ conn'[c].ends = conn[c].ends /\ conn'[c].at = conn[c].at
       /\ conn'[c].down = conn[c].down
  BY <1>3, <1>11
<1> QED BY <1>2, <1>10, <1>11, <1>14, <1>15, <1>16, <1>18, <1>19 DEF rest, segment

\* What a connection's end does, first when its row has a name: the row's group is
\* remembered, and all are saved.
Remembers(c) ==
  LET named == {i \in RowOf(c) : rows[i].name # NoName}
  IN  /\ conn[c].at = "recv" /\ conn'[c].at = "gone"
      /\ conn'[c].of = conn[c].of /\ conn'[c].ends = conn[c].ends
      /\ conn'[c].up = conn[c].up /\ conn'[c].down = conn[c].down
      /\ \A d \in Conns \ {c} : conn'[d] = conn[d]
      /\ groups' = Remembered(named)
      /\ (file' = Saved(rows) /\ forgotten' = forgotten) \/ forgotten' = Stations
      /\ UNCHANGED <<server, rows, ui, sock, left, unsent, evening, wish, misled>>

\* Then the row goes.
Removes(c) ==
  /\ conn[c].at \in {"recv", "gone"}
  /\ conn[c].at = "recv" => \A i \in RowOf(c) : rows[i].name = NoName
  /\ \A d \in Conns \ {c} : conn'[d] = conn[d]
  /\ conn'[c] = With(conn[c], conn[c].ends \ {"master"}, "none")
  /\ rows' = Without(c)
  /\ RowOf(c) # {} => ui' = [ui EXCEPT !.shifted = ui.at # "idle"]
  /\ RowOf(c) = {} => ui' = ui
  /\ misled' = misled \ {c}
  /\ UNCHANGED <<server, groups, file, sock, left, unsent, evening, faults, wish, forgotten>>

LEMMA LeavesIs ==
  ASSUME TypeOK, NEW c \in Conns, Leaves(c)
  PROVE  /\ conn' \in [Conns -> Line] /\ rows' \in Seq(Row) /\ ui' \in Window /\ misled' \subseteq Conns
         /\ \A d \in Conns \ {c} : conn'[d] = conn[d]
         /\ conn'[c] = With(conn[c], conn[c].ends \ {"master"}, "none")
         /\ rows' = Without(c)
         /\ RowOf(c) # {} => ui' = [ui EXCEPT !.shifted = ui.at # "idle"]
         /\ RowOf(c) = {} => ui' = ui
         /\ misled' = misled \ {c}
<1>1. /\ rows' = Without(c) /\ misled' = misled \ {c}
      /\ conn' = [conn EXCEPT ![c] = With(@, @.ends \ {"master"}, "none")]
      /\ RowOf(c) # {} => ui' = [ui EXCEPT !.shifted = ui.at # "idle"]
      /\ RowOf(c) = {} => ui' = ui
  BY DEF Leaves, Shifts
<1>2. /\ conn' \in [Conns -> Line]
      /\ conn'[c] = With(conn[c], conn[c].ends \ {"master"}, "none")
      /\ \A d \in Conns \ {c} : conn'[d] = conn[d]
  <2>1. conn' = [conn EXCEPT ![c] = With(@, conn[c].ends \ {"master"}, "none")]
    BY <1>1
  <2>2. conn[c].ends \ {"master"} \in Ends
    BY LinesAre, EndsAre
  <2> QED BY <2>1, <2>2, OneWith, HandlersAre
<1>3. rows' \in Seq(Row)
  <2>1. CASE RowOf(c) = {}
    BY <1>1, <2>1, TypesAre DEF Without
  <2>2. CASE RowOf(c) # {}
    BY <1>1, <2>2, WithoutIs
  <2> QED BY <2>1, <2>2
<1>4. ui' \in Window
  BY <1>1, TypesAre DEF Window
<1>5. misled' \subseteq Conns
  BY <1>1, TypesAre
<1> QED BY <1>1, <1>2, <1>3, <1>4, <1>5

LEMMA GoneTypes ==
  ASSUME TypeOK, NEW c \in Conns, ClientGone(c) \/ RemoveStationRow(c)
  PROVE  TypeOK' /\ (Remembers(c) \/ Removes(c))
<1> DEFINE named == {i \in RowOf(c) : rows[i].name # NoName}
<1>1. named \in SUBSET DOMAIN rows
  BY DEF RowOf
<1>2. CASE RemoveStationRow(c)
  <2>1. /\ conn[c].at = "gone" /\ Leaves(c)
        /\ UNCHANGED <<server, groups, file, sock, left, unsent, evening, faults, wish, forgotten>>
    BY <1>2 DEF RemoveStationRow, stations
  <2>2. TypeOK'
    BY <2>1, LeavesIs, TypesAre, TypesBack DEF TypeOK
  <2> QED BY <2>1, <2>2, LeavesIs DEF Removes
<1>3. CASE ClientGone(c)
  <2>1. /\ conn[c].at = "recv" /\ groups' = Remembered(named)
        /\ \/ Saves(rows) /\ conn' = [conn EXCEPT ![c].at = "gone"] /\ UNCHANGED <<rows, ui, misled>>
           \/ named = {} /\ Leaves(c) /\ UNCHANGED <<file, faults, forgotten>>
        /\ UNCHANGED <<server, sock, left, unsent, evening, wish>>
    BY <1>3 DEF ClientGone, stations
  <2>2. Remembered(named) \in Known
    <3> HIDE DEF named
    <3> QED BY <1>1, RememberedIs
  <2>3. CASE Saves(rows) /\ conn' = [conn EXCEPT ![c].at = "gone"] /\ UNCHANGED <<rows, ui, misled>>
    <3>1. /\ file' \in Known /\ faults' \subseteq evening.faults /\ forgotten' \subseteq Stations
          /\ (file' = Saved(rows) /\ forgotten' = forgotten) \/ forgotten' = Stations
      BY <2>3, SavesIs, TypesAre
    <3>2. /\ conn' \in [Conns -> Line]
          /\ conn'[c].at = "gone" /\ conn'[c].of = conn[c].of /\ conn'[c].ends = conn[c].ends
          /\ conn'[c].up = conn[c].up /\ conn'[c].down = conn[c].down
          /\ \A d \in Conns \ {c} : conn'[d] = conn[d]
      BY <2>3, AtIs, HandlersAre
    <3>3. TypeOK'
      <4> HIDE DEF named
      <4> QED BY <2>1, <2>2, <2>3, <3>1, <3>2, TypesAre, TypesBack DEF TypeOK
    <3>4. Remembers(c)
      BY <2>1, <2>3, <3>1, <3>2 DEF Remembers
    <3> QED BY <3>3, <3>4
  <2>4. CASE named = {} /\ Leaves(c) /\ UNCHANGED <<file, faults, forgotten>>
    <3>1. groups' = groups
      <4>1. \A s \in Stations : Remembered(named)[s] = groups[s]
        <5>1. \A s \in Stations : \A i \in named : rows[i].name # s
          BY <2>4
        <5> HIDE DEF named
        <5> QED BY <1>1, <5>1, RememberedIs
      <4> HIDE DEF named
      <4>2. groups \in Known
        BY TypesAre
      <4> QED BY <2>1, <2>2, <4>1, <4>2 DEF Known
    <3>2. TypeOK'
      <4> HIDE DEF named
      <4> QED BY <2>1, <2>4, <3>1, LeavesIs, TypesAre, TypesBack DEF TypeOK
    <3>3. \A i \in RowOf(c) : rows[i].name = NoName
      BY <2>4
    <3>4. Removes(c)
      <4> HIDE DEF named
      <4> QED BY <2>1, <2>4, <3>1, <3>3, LeavesIs DEF Removes
    <3> QED BY <3>2, <3>4
  <2> QED BY <2>1, <2>3, <2>4
<1> QED BY <1>2, <1>3

\* Where the command goes next: a connected row of the group being served, or
\* one of the places noted.
LEMMA TargetIs ==
  ASSUME TypeOK, HasTarget
  PROVE  /\ Target \in DOMAIN rows /\ Target \in Nat /\ rows[Target].conn \in Conns
         /\ ui.groups # {} => rows[Target].group = Min(ui.groups)
         /\ ui.groups = {} => Target \in ui.singles
<1>1. rows \in Seq(Row) /\ DOMAIN rows \subseteq Nat /\ \A i \in DOMAIN rows : rows[i].conn \in Conns \cup {NoConn}
  BY TypesAre, RowsAre
<1>2. ui.singles \in SUBSET Nat
  BY TypesAre DEF Window
<1>3. CASE ui.groups # {}
  <2> DEFINE T == Members
  <2>1. T \in SUBSET Nat /\ T # {}
    BY <1>1, <1>3 DEF Members, HasTarget
  <2>2. Min(T) \in T
    <3> HIDE DEF T
    <3> QED BY <2>1, LeastIs
  <2>3. Target = Min(T)
    BY <1>3 DEF Target
  <2>4. Target \in Members
    BY <2>2, <2>3
  <2> HIDE DEF T
  <2> QED BY <1>1, <1>3, <2>4 DEF Members
<1>4. CASE ui.groups = {}
  <2>1. ui.singles # {} /\ Live(Target)
    BY <1>4 DEF HasTarget
  <2>2. Target \in ui.singles
    BY <1>2, <1>4, <2>1, LeastIs DEF Target
  <2> QED BY <1>1, <1>2, <1>4, <2>1, <2>2 DEF Live
<1> QED BY <1>3, <1>4

\* The window's thread goes on after a place.
LEMMA PastIs ==
  ASSUME TypeOK, NEW i \in Nat
  PROVE  /\ Past(i) \in Window /\ Past(i).at = "send" /\ Past(i).groups = ui.groups
         /\ Past(i).chosen = ui.chosen /\ Past(i).shifted = ui.shifted
         /\ Past(i).singles \subseteq ui.singles
<1>1. ui \in Window /\ i + 1 \in Nat
  BY TypesAre
<1>2. /\ ui.singles \ {i} \in SUBSET Nat
  BY <1>1 DEF Window
<1>3. LET n == [ui EXCEPT !.at = "send", !.i = i + 1]
      IN  n \in Window /\ n.at = "send" /\ n.groups = ui.groups /\ n.chosen = ui.chosen
          /\ n.shifted = ui.shifted /\ n.singles = ui.singles
  BY <1>1 DEF Window
<1> DEFINE fewer == ui.singles \ {i}
<1>4. fewer \in SUBSET Nat /\ fewer \subseteq ui.singles
  BY <1>2
<1> HIDE DEF fewer
<1>5. LET n == [ui EXCEPT !.at = "send", !.singles = fewer]
      IN  n \in Window /\ n.at = "send" /\ n.groups = ui.groups /\ n.chosen = ui.chosen
          /\ n.shifted = ui.shifted /\ n.singles = fewer
  BY <1>1, <1>4 DEF Window
<1>6. Past(i) = IF ui.groups # {} THEN [ui EXCEPT !.at = "send", !.i = i + 1]
                                  ELSE [ui EXCEPT !.at = "send", !.singles = fewer]
  BY DEF Past, fewer
<1> QED BY <1>3, <1>4, <1>5, <1>6

LEMMA IdleIs == Idle \in Window /\ Idle.at = "idle"
<1>1. Idle.at = "idle" /\ {} \in SUBSET Groups /\ {} \in SUBSET Nat /\ {} \in SUBSET Stations /\ 1 \in Nat
  BY DEF Idle
<1> QED BY <1>1 DEF Idle, Window

LEMMA BeginTypes ==
  ASSUME TypeOK, NEW cmd \in Commands, NEW selected \in SUBSET DOMAIN rows, BeginCommand(cmd, selected)
  PROVE  /\ TypeOK' /\ ui.at = "idle"
         /\ ui'.at = "send" /\ ~ ui'.shifted /\ ui'.cmd = cmd
         /\ ui'.groups = {rows[i].group : i \in selected} \ {GroupNone}
         /\ ui'.singles = {i \in selected : rows[i].group = GroupNone}
         /\ \A i \in DOMAIN rows : rows[i].conn # NoConn /\ (i \in selected \/ rows[i].group \in ui'.groups) =>
              conn[rows[i].conn].of \in ui'.chosen
         /\ UNCHANGED <<server, rows, groups, file, conn, sock, left, unsent, evening, faults, wish, forgotten, misled>>
<1> DEFINE grouped == {rows[i].group : i \in selected} \ {GroupNone}
           singles == {i \in selected : rows[i].group = GroupNone}
           hit == {j \in DOMAIN rows : rows[j].conn # NoConn /\ (j \in selected \/ rows[j].group \in grouped)}
           chosen == {conn[rows[i].conn].of : i \in hit}
<1>1. /\ ui.at = "idle" /\ cmd \in evening.commands
      /\ ui' = [at |-> "send", cmd |-> cmd, groups |-> grouped, singles |-> singles, i |-> 1,
                chosen |-> chosen, shifted |-> FALSE]
      /\ UNCHANGED <<server, rows, groups, file, conn, sock, left, unsent, evening, faults, wish, forgotten, misled>>
  BY DEF BeginCommand, stations, history
<1>2. DOMAIN rows \subseteq Nat /\ \A i \in DOMAIN rows :
        rows[i].group \in Groups \cup {GroupNone} /\ rows[i].conn \in Conns \cup {NoConn}
  BY TypesAre, RowsAre
<1>3. grouped \in SUBSET Groups
  BY <1>2
<1>4. singles \in SUBSET Nat
  BY <1>2
<1>5. chosen \in SUBSET Stations
  <2>1. \A i \in hit : conn[rows[i].conn].of \in Stations
    BY <1>2, LinesAre
  <2> QED BY <2>1
<1>6. \A i \in hit : conn[rows[i].conn].of \in chosen
  OBVIOUS
<1>7. \A i \in DOMAIN rows : rows[i].conn # NoConn /\ (i \in selected \/ rows[i].group \in grouped) => i \in hit
  OBVIOUS
<1>8. grouped = {rows[i].group : i \in selected} \ {GroupNone}
  OBVIOUS
<1>9. singles = {i \in selected : rows[i].group = GroupNone}
  OBVIOUS
<1> HIDE DEF grouped, singles, chosen, hit
<1>10. ui' \in Window
  BY <1>1, <1>3, <1>4, <1>5 DEF Window
<1>11. TypeOK'
  BY <1>1, <1>10, TypesAre, TypesBack DEF TypeOK
<1> QED BY <1>1, <1>6, <1>7, <1>8, <1>9, <1>11

LEMMA NextGroupTypes ==
  ASSUME TypeOK, NextGroup
  PROVE  /\ TypeOK' /\ ui.at = "send"
         /\ ui'.at \in {"send", "idle"}
         /\ ui'.at = "send" =>
              /\ ui'.groups \subseteq ui.groups /\ ui'.singles \subseteq ui.singles
              /\ ui'.chosen = ui.chosen /\ ui'.shifted = ui.shifted
         /\ UNCHANGED <<server, rows, groups, file, conn, sock, left, unsent, evening, faults, wish, forgotten, misled>>
<1>1. ui.at = "send" /\ UNCHANGED <<server, rows, groups, file, conn, sock, left, unsent, evening, faults, wish, forgotten, misled>>
  BY DEF NextGroup, stations, history
<1>2. /\ ui' \in Window /\ ui'.at \in {"send", "idle"}
      /\ ui'.at = "send" =>
           /\ ui'.groups \subseteq ui.groups /\ ui'.singles \subseteq ui.singles
           /\ ui'.chosen = ui.chosen /\ ui'.shifted = ui.shifted
  <2>1. CASE ui' = [ui EXCEPT !.groups = @ \ {Min(@)}, !.i = 1]
    <3> DEFINE fewer == ui.groups \ {Min(ui.groups)}
    <3>1. ui \in Window /\ fewer \in SUBSET Groups /\ fewer \subseteq ui.groups
      BY TypesAre DEF Window
    <3>2. ui' = [ui EXCEPT !.groups = fewer, !.i = 1]
      BY <2>1
    <3> HIDE DEF fewer
    <3>3. LET n == [ui EXCEPT !.groups = fewer, !.i = 1]
          IN  n \in Window /\ n.at = ui.at /\ n.groups = fewer /\ n.singles = ui.singles
              /\ n.chosen = ui.chosen /\ n.shifted = ui.shifted
      BY <3>1 DEF Window
    <3> QED BY <1>1, <3>1, <3>2, <3>3
  <2>2. CASE ui.groups = {} /\ ui.singles # {} /\ ui' = Past(Target)
    <3>1. ui.singles \in SUBSET Nat
      BY TypesAre DEF Window
    <3>2. Target \in Nat
      BY <2>2, <3>1, LeastIs DEF Target
    <3> QED BY <2>2, <3>2, PastIs
  <2>3. CASE ui' = Idle
    BY <2>3, IdleIs
  <2> QED BY <2>1, <2>2, <2>3 DEF NextGroup
<1>3. TypeOK'
  BY <1>1, <1>2, TypesAre, TypesBack DEF TypeOK
<1> QED BY <1>1, <1>2, <1>3

\* An order on its way to one connection.
LEMMA SentIs ==
  ASSUME TypeOK, NEW c \in Conns, NEW order \in Orders
  PROVE  /\ Sent(c, order) \in [Conns -> Line]
         /\ \A d \in Conns \ {c} : Sent(c, order)[d] = conn[d]
         /\ Sent(c, order)[c].of = conn[c].of /\ Sent(c, order)[c].ends = conn[c].ends
         /\ Sent(c, order)[c].at = conn[c].at /\ Sent(c, order)[c].up = conn[c].up
<1> DEFINE down == IF "station" \in conn[c].ends THEN Append(conn[c].down, order) ELSE conn[c].down
<1>1. conn[c] \in Line /\ conn[c].down \in Seq(Orders)
  BY LinesAre
<1>2. down \in Seq(Orders)
  BY <1>1, AppendProperties
<1>3. Sent(c, order) = [conn EXCEPT ![c] = [conn[c] EXCEPT !.down = down]]
  BY DEF Sent
<1> HIDE DEF down
<1> DEFINE k == [conn[c] EXCEPT !.down = down]
<1>4. k \in Line /\ k.of = conn[c].of /\ k.ends = conn[c].ends /\ k.at = conn[c].at /\ k.up = conn[c].up
  BY <1>1, <1>2, LessDown
<1> HIDE DEF k
<1> QED BY <1>3, <1>4, TypesAre DEF k

LEMMA OrdersAre ==
  ASSUME NEW r
  PROVE  FirstOrder(r) \in Orders
BY DEF FirstOrder, Orders

LEMMA SendTypes ==
  ASSUME TypeOK, Send
  PROVE  /\ TypeOK' /\ SameLines
         /\ HasTarget /\ ui.at = "send"
         /\ \A d \in Conns \ {rows[Target].conn} : conn'[d] = conn[d]
         /\ ui'.at \in {"nap", "log"} /\ ui'.i = Target
         /\ ui'.groups = ui.groups /\ ui'.singles = ui.singles
         /\ ui'.chosen = ui.chosen /\ ui'.shifted = ui.shifted
         /\ UNCHANGED <<server, rows, groups, file, sock, left, unsent, evening, faults, wish, forgotten, misled>>
<1> DEFINE c == rows[Target].conn
           at == IF ui.cmd = "set" /\ rows[Target].active THEN "nap" ELSE "log"
           order == FirstOrder(rows[Target])
<1>1. /\ HasTarget /\ ui.at = "send" /\ conn' = Sent(c, order)
      /\ ui' = [ui EXCEPT !.i = Target, !.at = at]
      /\ UNCHANGED <<server, rows, groups, file, sock, left, unsent, evening, faults, wish, forgotten, misled>>
  BY DEF Send, stations, history
<1>2. Target \in Nat /\ c \in Conns /\ order \in Orders /\ at \in {"nap", "log"}
  BY <1>1, TargetIs, OrdersAre
<1> HIDE DEF at, order, c
<1>3. /\ conn' \in [Conns -> Line]
      /\ \A d \in Conns \ {c} : conn'[d] = conn[d]
      /\ conn'[c].of = conn[c].of /\ conn'[c].ends = conn[c].ends
      /\ conn'[c].at = conn[c].at /\ conn'[c].up = conn[c].up
  BY <1>1, <1>2, SentIs
<1>4. /\ ui' \in Window /\ ui'.i = Target /\ ui'.at = at /\ ui'.groups = ui.groups /\ ui'.singles = ui.singles
      /\ ui'.chosen = ui.chosen /\ ui'.shifted = ui.shifted
  <2>1. ui \in Window
    BY TypesAre
  <2> DEFINE n == [ui EXCEPT !.i = Target, !.at = at]
  <2>2. /\ n \in Window /\ n.i = Target /\ n.at = at /\ n.groups = ui.groups /\ n.singles = ui.singles
        /\ n.chosen = ui.chosen /\ n.shifted = ui.shifted
    BY <1>2, <2>1 DEF Window
  <2> QED BY <1>1, <2>2
<1>5. TypeOK'
  BY <1>1, <1>3, <1>4, TypesAre, TypesBack DEF TypeOK
<1>6. SameLines
  BY <1>3 DEF SameLines
<1> QED BY <1>1, <1>2, <1>3, <1>4, <1>5, <1>6 DEF c

LEMMA NapTypes ==
  ASSUME TypeOK, SendAfterNap
  PROVE  /\ TypeOK' /\ SameLines /\ ui.at = "nap"
         /\ Live(ui.i) => \A d \in Conns \ {rows[ui.i].conn} : conn'[d] = conn[d]
         /\ ui.i \in DOMAIN rows /\ ~ Live(ui.i) => conn' = conn
         /\ ui'.at = "log" /\ ui'.i = ui.i /\ ui'.groups = ui.groups /\ ui'.singles = ui.singles
         /\ ui'.chosen = ui.chosen /\ ui'.shifted = ui.shifted
         /\ UNCHANGED <<server, rows, groups, file, sock, left, unsent, evening, faults, wish, forgotten, misled>>
<1>1. /\ ui.at = "nap" /\ ui' = [ui EXCEPT !.at = "log"]
      /\ UNCHANGED <<server, rows, groups, file, sock, left, unsent, evening, faults, wish, forgotten, misled>>
  BY DEF SendAfterNap, stations, history
<1>2. /\ ui' \in Window /\ ui'.at = "log" /\ ui'.i = ui.i /\ ui'.groups = ui.groups /\ ui'.singles = ui.singles
      /\ ui'.chosen = ui.chosen /\ ui'.shifted = ui.shifted
  BY <1>1, TypesAre DEF Window
<1>3. ASSUME NEW i \in DOMAIN rows, Live(i), conn' = Sent(rows[i].conn, "start")
      PROVE  TypeOK' /\ SameLines /\ \A d \in Conns \ {rows[i].conn} : conn'[d] = conn[d]
  <2> DEFINE c == rows[i].conn
  <2>1. c \in Conns
    BY <1>3, TypesAre, RowsAre DEF Live
  <2>2. conn' = Sent(c, "start") /\ "start" \in Orders
    BY <1>3 DEF Orders
  <2> HIDE DEF c
  <2>3. /\ conn' \in [Conns -> Line]
        /\ \A d \in Conns \ {c} : conn'[d] = conn[d]
        /\ conn'[c].of = conn[c].of /\ conn'[c].ends = conn[c].ends
        /\ conn'[c].at = conn[c].at /\ conn'[c].up = conn[c].up
    BY <2>1, <2>2, SentIs
  <2>4. TypeOK' /\ SameLines
    BY <1>1, <1>2, <2>3, TypesAre, TypesBack DEF TypeOK, SameLines
  <2> QED BY <2>3, <2>4 DEF c
<1>4. CASE Live(ui.i) /\ conn' = Sent(rows[ui.i].conn, "start")
  <2>1. ui.i \in DOMAIN rows
    BY <1>4 DEF Live
  <2> QED BY <1>1, <1>2, <1>3, <1>4, <2>1
<1>5. CASE ~ Live(ui.i) /\ UNCHANGED conn
  <2>1. TypeOK' /\ SameLines
    BY <1>1, <1>2, <1>5, TypesAre, TypesBack DEF TypeOK, SameLines
  <2> QED BY <1>1, <1>2, <1>5, <2>1
<1>6. CASE ui.i \notin DOMAIN rows /\ \E i \in DOMAIN rows : Live(i) /\ conn' = Sent(rows[i].conn, "start")
  <2>1. TypeOK' /\ SameLines
    BY <1>3, <1>6
  <2>2. ~ Live(ui.i)
    BY <1>6 DEF Live
  <2> QED BY <1>1, <1>2, <1>6, <2>1, <2>2
<1> QED BY <1>4, <1>5, <1>6 DEF SendAfterNap

LEMMA LogTypes ==
  ASSUME TypeOK, LogSent
  PROVE  /\ TypeOK' /\ ui.at = "log" /\ ui'.at = "send" /\ ui'.groups = ui.groups
         /\ ui'.singles \subseteq ui.singles /\ ui'.chosen = ui.chosen /\ ui'.shifted = ui.shifted
         /\ UNCHANGED <<server, rows, groups, file, conn, sock, left, unsent, evening, faults, wish, forgotten, misled>>
<1>1. /\ ui.at = "log" /\ ui' = Past(ui.i)
      /\ UNCHANGED <<server, rows, groups, file, conn, sock, left, unsent, evening, faults, wish, forgotten, misled>>
  BY DEF LogSent, stations, history
<1>2. ui.i \in Nat
  BY TypesAre DEF Window
<1>3. TypeOK'
  BY <1>1, <1>2, PastIs, TypesAre, TypesBack DEF TypeOK
<1> QED BY <1>1, <1>2, <1>3, PastIs

\* The row whose send failed has no connection any more.
Failed(i) ==
  LET c == rows[i].conn
  IN  /\ c \in Conns /\ "station" \notin conn[c].ends
      /\ \A d \in Conns \ {c} : conn'[d] = conn[d]
      /\ conn'[c].of = conn[c].of /\ conn'[c].ends = {} /\ conn'[c].at = conn[c].at
      /\ conn'[c].up = conn[c].up /\ conn'[c].down = conn[c].down
      /\ rows' \in Seq(Row) /\ DOMAIN rows' = DOMAIN rows
      /\ \A j \in DOMAIN rows \ {i} : rows'[j] = rows[j]
      /\ rows'[i].conn = NoConn
      /\ rows'[i].name = rows[i].name /\ rows'[i].group = rows[i].group
      /\ ui'.at = "send" /\ ui'.groups = ui.groups
      /\ ui'.singles \subseteq ui.singles /\ ui'.chosen = ui.chosen /\ ui'.shifted = ui.shifted
      /\ forgotten' = forgotten \cup {conn[c].of}
      /\ UNCHANGED <<server, groups, file, sock, left, unsent, evening, faults, wish, misled>>

LEMMA FailsTypes ==
  ASSUME TypeOK, SendFails
  PROVE  /\ TypeOK' /\ ui.at \in {"send", "nap"}
         /\ \E i \in DOMAIN rows : Failed(i)
<1>1. PICK i \in DOMAIN rows : i \in Nat /\ rows[i].conn \in Conns /\ FailsAt(i)
  <2>1. CASE ui.at = "send" /\ HasTarget /\ FailsAt(Target)
    BY <2>1, TargetIs
  <2>2. CASE ui.at = "nap" /\ Live(ui.i) /\ FailsAt(ui.i)
    BY <2>2, TypesAre, RowsAre DEF Live
  <2> QED BY <2>1, <2>2 DEF SendFails
<1> DEFINE c == rows[i].conn
<1>2. /\ "station" \notin conn[c].ends
      /\ rows' = [rows EXCEPT ![i].conn = NoConn, ![i].active = FALSE]
      /\ conn' = [conn EXCEPT ![c].ends = {}]
      /\ ui' = Past(i) /\ forgotten' = forgotten \cup {conn[c].of}
  BY <1>1 DEF FailsAt
<1>3. rows \in Seq(Row) /\ DOMAIN rows = 1 .. Len(rows) /\ rows[i] \in Row /\ c \in Conns
  BY <1>1, TypesAre, RowsAre
<1>4. /\ ui.at \in {"send", "nap"}
      /\ UNCHANGED <<server, groups, file, sock, left, unsent, evening, faults, wish, misled>>
  BY DEF SendFails, stations
<1> DEFINE r == [rows[i] EXCEPT !.conn = NoConn, !.active = FALSE]
<1>5. r \in Row /\ r.conn = NoConn /\ r.name = rows[i].name /\ r.group = rows[i].group
  BY <1>3 DEF Row
<1>6. rows' = [rows EXCEPT ![i] = r]
  BY <1>2
<1> HIDE DEF r
<1>7. /\ rows' \in Seq(Row) /\ DOMAIN rows' = DOMAIN rows
      /\ \A j \in DOMAIN rows \ {i} : rows'[j] = rows[j]
      /\ rows'[i] = r
  <2>1. i \in 1 .. Len(rows)
    BY <1>3
  <2> QED BY <1>3, <1>5, <1>6, <2>1, ExceptSeq
<1> DEFINE k == [conn[c] EXCEPT !.ends = {}]
<1>8. /\ k \in Line /\ k.of = conn[c].of /\ k.ends = {} /\ k.at = conn[c].at
      /\ k.up = conn[c].up /\ k.down = conn[c].down
  <2>1. conn[c] \in Line
    BY <1>3, LinesAre
  <2> QED BY <2>1, EndsAre DEF Line
<1>9. conn' = [conn EXCEPT ![c] = k]
  BY <1>2
<1> HIDE DEF k, c
<1>10. conn' \in [Conns -> Line] /\ conn'[c] = k /\ \A d \in Conns \ {c} : conn'[d] = conn[d]
  BY <1>3, <1>8, <1>9, OneLine
<1>11. /\ ui' \in Window /\ ui'.at = "send" /\ ui'.groups = ui.groups
       /\ ui'.singles \subseteq ui.singles /\ ui'.chosen = ui.chosen /\ ui'.shifted = ui.shifted
  BY <1>1, <1>2, PastIs
<1>12. forgotten' \subseteq Stations
  BY <1>2, <1>3, LinesAre, TypesAre
<1>13. TypeOK'
  BY <1>4, <1>7, <1>10, <1>11, <1>12, TypesAre, TypesBack DEF TypeOK
<1>14. Failed(i)
  BY <1>2, <1>3, <1>4, <1>5, <1>7, <1>8, <1>10, <1>11 DEF Failed, c
<1> QED BY <1>4, <1>13, <1>14

\* The rows selected get the group; whose group staff are sure of, and whose not.
LEMMA RegroupTypes ==
  ASSUME TypeOK, NEW selected \in SUBSET DOMAIN rows, NEW g \in Groups \cup {GroupNone}, Regroup(selected, g)
  PROVE  /\ TypeOK' /\ ui.at = "idle" /\ ui'.at = "save"
         /\ DOMAIN rows' = DOMAIN rows
         /\ \A i \in DOMAIN rows :
              /\ rows'[i].conn = rows[i].conn /\ rows'[i].name = rows[i].name
              /\ rows'[i].active = rows[i].active
              /\ rows'[i].group = IF i \in selected THEN g ELSE rows[i].group
         /\ UNCHANGED <<server, groups, file, conn, sock, left, unsent, evening, faults, misled>>
<1> DEFINE touched == {conn[rows[i].conn].of : i \in {j \in selected : rows[j].conn # NoConn}}
           dead == {rows[i].name : i \in {j \in selected : rows[j].conn = NoConn}} \ {NoName}
           sure == {s \in touched :
                      /\ \A c \in Conns : Uses(c, s) =>
                           /\ "name" \notin ToSet(conn[c].up) /\ conn[c].at # "gone"
                           /\ \E i \in selected : rows[i].conn = c /\ rows[i].name = s
                      /\ \A i \in DOMAIN rows : rows[i].name = s => i \in selected}
           new(i) == IF i \in selected THEN [rows[i] EXCEPT !.group = g] ELSE rows[i]
<1>1. /\ ui.at = "idle" /\ ui' = [ui EXCEPT !.at = "save"]
      /\ rows' = [i \in DOMAIN rows |-> new(i)]
      /\ wish' = [s \in Stations |-> IF s \in sure THEN g ELSE wish[s]]
      /\ forgotten' = (forgotten \cup touched \cup dead) \ sure
      /\ UNCHANGED <<server, groups, file, conn, sock, left, unsent, evening, faults, misled>>
  BY DEF Regroup, stations
<1>2. rows \in Seq(Row) /\ DOMAIN rows = 1 .. Len(rows) /\ Len(rows) \in Nat
      /\ \A i \in DOMAIN rows : rows[i] \in Row
  BY TypesAre, RowsAre
<1>3. \A i \in DOMAIN rows :
        /\ new(i) \in Row /\ new(i).conn = rows[i].conn /\ new(i).name = rows[i].name
        /\ new(i).active = rows[i].active /\ new(i).group = IF i \in selected THEN g ELSE rows[i].group
  <2>1. \A r \in Row : LET n == [r EXCEPT !.group = g]
                       IN  n \in Row /\ n.conn = r.conn /\ n.name = r.name /\ n.active = r.active /\ n.group = g
    BY DEF Row
  <2> QED BY <1>2, <2>1
<1>4. touched \subseteq Stations
  <2>1. \A i \in selected : rows[i].conn # NoConn => conn[rows[i].conn].of \in Stations
    BY LinesAre, TypesAre, RowsAre
  <2> QED BY <2>1
<1>5. dead \subseteq Stations
  <2>1. \A i \in selected : rows[i].name \in Stations \cup {NoName}
    BY TypesAre, RowsAre
  <2> QED BY <2>1
<1> HIDE DEF touched, dead, sure, new
<1>6. rows' \in Seq(Row) /\ DOMAIN rows' = DOMAIN rows
  <2>1. rows' \in [1 .. Len(rows) -> Row]
    BY <1>1, <1>2, <1>3
  <2> QED BY <1>1, <1>2, <2>1, FunIsSeq
<1>7. wish' \in [Stations -> Groups \cup {GroupNone}]
  BY <1>1, TypesAre
<1>8. ui' \in Window /\ ui'.at = "save"
  BY <1>1, TypesAre DEF Window
<1>9. forgotten' \subseteq Stations
  BY <1>1, <1>4, <1>5, TypesAre
<1>10. TypeOK'
  BY <1>1, <1>6, <1>7, <1>8, <1>9, TypesAre, TypesBack DEF TypeOK
<1>11. \A i \in DOMAIN rows :
         /\ rows'[i].conn = rows[i].conn /\ rows'[i].name = rows[i].name
         /\ rows'[i].active = rows[i].active
         /\ rows'[i].group = IF i \in selected THEN g ELSE rows[i].group
  BY <1>1, <1>3
<1> QED BY <1>1, <1>6, <1>8, <1>10, <1>11

\* A drop on another bubble is a regrouping too.
LEMMA DropIs ==
  ASSUME TypeOK, NEW selected \in SUBSET DOMAIN rows, NEW dragged \in selected, NEW other \in DOMAIN rows,
         DropOn(dragged, other, selected)
  PROVE  \E some \in SUBSET DOMAIN rows, g \in Groups \cup {GroupNone} : Regroup(some, g)
<1> DEFINE g == IF rows[other].group # GroupNone THEN rows[other].group
                ELSE IF rows[dragged].group # GroupNone THEN rows[dragged].group
                ELSE FirstUnusedGroup
<1>1. Regroup(selected \cup {dragged, other}, g)
  BY DEF DropOn
<1>2. rows[other].group \in Groups \cup {GroupNone} /\ rows[dragged].group \in Groups \cup {GroupNone}
  BY TypesAre, RowsAre
<1>3. FirstUnusedGroup \in Groups
  <2> DEFINE free == {h \in Groups : \A i \in DOMAIN rows : rows[i].group # h}
  <2>1. Groups \in SUBSET Nat /\ Groups # {} /\ free \in SUBSET Groups /\ free \in SUBSET Nat
    BY VenueAssumption
  <2>2. FirstUnusedGroup = IF free = {} THEN Min(Groups) ELSE Min(free)
    BY DEF FirstUnusedGroup
  <2> HIDE DEF free
  <2>3. Min(Groups) \in Groups /\ (free # {} => Min(free) \in free)
    BY <2>1, LeastIs
  <2> QED BY <2>1, <2>2, <2>3
<1>4. g \in Groups \cup {GroupNone}
  BY <1>2, <1>3
<1>5. selected \cup {dragged, other} \in SUBSET DOMAIN rows
  OBVIOUS
<1> HIDE DEF g
<1> QED BY <1>1, <1>4, <1>5

LEMMA SaveTypes ==
  ASSUME TypeOK, SaveStationGroups
  PROVE  /\ TypeOK' /\ ui.at = "save" /\ ui' = Idle
         /\ (file' = Saved(rows) /\ forgotten' = forgotten) \/ forgotten' = Stations
         /\ UNCHANGED <<server, rows, groups, conn, sock, left, unsent, evening, wish, misled>>
<1>1. /\ ui.at = "save" /\ ui' = Idle /\ Saves(rows)
      /\ UNCHANGED <<server, rows, groups, conn, sock, left, unsent, evening, wish, misled>>
  BY DEF SaveStationGroups, stations
<1>2. /\ file' \in Known /\ faults' \subseteq evening.faults /\ forgotten' \subseteq Stations
      /\ (file' = Saved(rows) /\ forgotten' = forgotten) \/ forgotten' = Stations
  BY <1>1, SavesIs, TypesAre
<1>3. ui' \in Window
  BY <1>1, IdleIs
<1> QED BY <1>1, <1>2, <1>3, TypesAre, TypesBack DEF TypeOK

LEMMA StopTypes ==
  ASSUME TypeOK, StopServer
  PROVE  /\ TypeOK' /\ rows' = <<>> /\ server' = "off" /\ server \in {"listening", "dead"}
         /\ \A c \in Conns :
              conn'[c] = IF RowOf(c) # {} \/ conn[c].at = "none"
                         THEN With(conn[c], conn[c].ends \ {"master"}, conn[c].at) ELSE conn[c]
         /\ forgotten' = forgotten \cup {conn[c].of : c \in {d \in Conns : RowOf(d) # {}}}
         /\ UNCHANGED <<groups, file, ui, sock, left, unsent, evening, wish, misled>>
<1>1. /\ server' = "off" /\ rows' = <<>> /\ faults' = faults \ {"stop"} /\ server \in {"listening", "dead"}
      /\ conn' = [c \in Conns |-> IF c \in Closed
                                  THEN With(conn[c], conn[c].ends \ {"master"}, conn[c].at) ELSE conn[c]]
      /\ forgotten' = forgotten \cup {conn[c].of : c \in {d \in Conns : RowOf(d) # {}}}
      /\ UNCHANGED <<groups, file, ui, sock, left, unsent, evening, wish, misled>>
  BY DEF StopServer, stations
<1>2. Closed \in SUBSET Conns
  BY DEF Closed
<1>3. conn' \in [Conns -> Line]
  BY <1>1, <1>2, ClosingIs
<1>4. forgotten' \subseteq Stations
  <2>1. \A c \in Conns : conn[c].of \in Stations
    BY LinesAre
  <2> QED BY <1>1, <2>1, TypesAre
<1>5. rows' \in Seq(Row)
  BY <1>1, EmptySeq
<1>6. faults' \subseteq evening.faults
  BY <1>1, TypesAre
<1>7. TypeOK'
  BY <1>1, <1>3, <1>4, <1>5, <1>6, TypesAre, TypesBack
<1>8. \A c \in Conns : c \in Closed <=> (RowOf(c) # {} \/ conn[c].at = "none")
  BY DEF Closed
<1> QED BY <1>1, <1>7, <1>8

LEMMA EndsTypes ==
  ASSUME TypeOK, MasterEnds
  PROVE  /\ TypeOK' /\ server # "down" /\ server' = "down" /\ rows' = <<>> /\ ui' = Idle
         /\ \A c \in Conns : conn'[c] = With(conn[c], conn[c].ends \ {"master"}, "none")
         /\ \/ /\ ui.at # "save"
               /\ file' = file \/ (ui.at = "idle" /\ file' = Saved(rows))
               /\ forgotten' = forgotten \cup Numbered
                                \cup {s \in Stations : \A i \in DOMAIN rows : rows[i].name # s}
            \/ forgotten' = Stations
         /\ UNCHANGED <<groups, sock, left, unsent, evening, wish>>
<1>1. /\ server # "down" /\ server' = "down" /\ rows' = <<>> /\ ui' = Idle /\ faults' = faults \ {"end"}
      /\ conn' = [c \in Conns |-> With(conn[c], conn[c].ends \ {"master"}, "none")]
      /\ \/ /\ ui.at # "save"
            /\ file' = file \/ (ui.at = "idle" /\ file' = Saved(rows))
            /\ forgotten' = forgotten \cup Numbered
                             \cup {s \in Stations : \A i \in DOMAIN rows : rows[i].name # s}
         \/ forgotten' = Stations
      /\ file' \in {file} \cup {Saved(rows)} \cup CutShort(rows)
      /\ misled' = {}
      /\ UNCHANGED <<groups, sock, left, unsent, evening, wish>>
  BY DEF MasterEnds, stations
<1>2. conn' \in [Conns -> Line]
  <2>1. \A c \in Conns : With(conn[c], conn[c].ends \ {"master"}, "none") \in Line
    <3>1. SUFFICES ASSUME NEW c \in Conns
                   PROVE  With(conn[c], conn[c].ends \ {"master"}, "none") \in Line
      OBVIOUS
    <3>2. conn[c] \in Line /\ conn[c].ends \ {"master"} \in Ends
      BY LinesAre, EndsAre
    <3> QED BY <3>2, WithIs, HandlersAre
  <2> QED BY <1>1, <2>1
<1>3. forgotten' \subseteq Stations
  BY <1>1, TypesAre, VenueAssumption
<1>4. file' \in Known /\ ui' \in Window /\ rows' \in Seq(Row)
  BY <1>1, SavedIs, CutIs, IdleIs, EmptySeq, TypesAre
<1>5. faults' \subseteq evening.faults
  BY <1>1, TypesAre
<1>6. TypeOK'
  BY <1>1, <1>2, <1>3, <1>4, <1>5, TypesAre, TypesBack
<1> QED BY <1>1, <1>6

LEMMA ServerTypes ==
  ASSUME TypeOK, StartServer \/ MasterStarts
  PROVE  TypeOK'
BY TypesAre, TypesBack DEF StartServer, MasterStarts, stations, history

LEMMA InitTypes ==
  ASSUME Init
  PROVE  TypeOK
<1>1. evening \in Evening /\ evening \in Evenings
  BY VenueAssumption DEF Init
<1>2. groups \in Known /\ file \in Known /\ faults \subseteq evening.faults
  BY <1>1 DEF Init, Evening, Known
<1>3. rows \in Seq(Row) /\ ui \in Window
  BY IdleIs, EmptySeq DEF Init
<1>4. conn \in [Conns -> Line]
  BY FreshIs DEF Init
<1>5. /\ sock \in [Stations -> Conns \cup {NoConn}] /\ left \in [Stations -> 0 .. MaxLeft]
      /\ server \in {"listening", "off", "dead", "down"} /\ forgotten \subseteq Stations /\ misled \subseteq Conns
  BY VenueAssumption DEF Init
<1>6. wish \in [Stations -> Groups \cup {GroupNone}]
  <2>1. \A s \in Stations : (IF groups[s] = Unknown THEN GroupNone ELSE groups[s]) \in Groups \cup {GroupNone}
    BY <1>2 DEF Known
  <2> QED BY <2>1 DEF Init
<1>7. unsent \in Unsent
  BY DEF Init, Unsent, Silent
<1> QED BY <1>1, <1>2, <1>3, <1>4, <1>5, <1>6, <1>7 DEF TypeOK, Line, Ends, Handlers, Window, Unsent
-----------------------------------------------------------------------------
(* What holds of the connections and of the list. *)

\* The station's name is still to be read.
Pending(c) == conn[c].up # <<>> /\ conn[c].up[1] = "name"

\* Connection c's name is under way in the next state.
Waits(c) == conn'[c].up # <<>> /\ conn'[c].up[1] = "name"

\* A name comes first, and before its handler reads nothing is read; the handler
\* that was given a connection still has it when it greets.
LinesInv ==
  \A c \in Conns :
    /\ conn[c].at = "greet" => "master" \in conn[c].ends
    /\ conn[c].at \in {"none", "greet", "list", "stuck"} /\ "master" \in conn[c].ends => Pending(c)
    /\ \A k \in 1 .. Len(conn[c].up) : conn[c].up[k] = "name" => k = 1

\* A connected row has a handler, the master's end is open, its name is its
\* station's, no session is shown before the name is read, and it is the
\* connection's only row.
RowsInv ==
  \A i \in DOMAIN rows : rows[i].conn # NoConn =>
    /\ conn[rows[i].conn].at \in {"list", "stuck", "recv", "gone"}
    /\ "master" \in conn[rows[i].conn].ends
    /\ rows[i].name \in {NoName, conn[rows[i].conn].of}
    /\ Pending(rows[i].conn) => ~ rows[i].active
    /\ \A j \in DOMAIN rows : rows[j].conn = rows[i].conn => i = j

\* A station's socket is its end of one of its connections.
SocksInv ==
  \A s \in Stations : sock[s] # NoConn =>
    conn[sock[s]].of = s /\ "station" \in conn[sock[s]].ends

\* Nothing is left of a master that has ended.
OverInv ==
  server = "down" =>
    /\ rows = <<>> /\ ui = Idle
    /\ \A c \in Conns : conn[c].at = "none" /\ "master" \notin conn[c].ends

LinksInv == TypeOK /\ LinesInv /\ RowsInv /\ SocksInv /\ OverInv

\* A step that leaves the connection of a row as it is, but for what is under way.
Quiet ==
  \A c \in Conns : conn[c].at \in {"list", "stuck", "recv", "gone"} =>
    /\ conn'[c].at \in {"list", "stuck", "recv", "gone"} /\ conn'[c].of = conn[c].of
    /\ conn'[c].at = "gone" => conn[c].at = "gone"
    /\ "master" \in conn[c].ends => "master" \in conn'[c].ends
    /\ Pending(c)' => Pending(c)

LEMMA ConnsOfRows ==
  ASSUME TypeOK
  PROVE  /\ rows \in Seq(Row) /\ DOMAIN rows = 1 .. Len(rows) /\ Len(rows) \in Nat
         /\ \A i \in DOMAIN rows : rows[i] \in Row /\ (rows[i].conn # NoConn => rows[i].conn \in Conns)
BY TypesAre, RowsAre

LEMMA QuietRows ==
  ASSUME TypeOK, RowsInv, Quiet, UNCHANGED rows
  PROVE  RowsInv'
<1>1. \A i \in DOMAIN rows : rows[i].conn # NoConn => rows[i].conn \in Conns
  BY ConnsOfRows
<1>2. \A i \in DOMAIN rows : rows[i].conn # NoConn /\ Pending(rows[i].conn)' => Pending(rows[i].conn)
  BY <1>1 DEF RowsInv, Quiet, Pending
<1> QED BY <1>1, <1>2 DEF RowsInv, Quiet, Pending

\* What is under way begins as before when it is added to, unless nothing was.
LEMMA AddedUp ==
  ASSUME NEW q \in Seq(Reports), NEW report \in Reports \ {"name"}
  PROVE  LET new == Append(q, report)
         IN  /\ new \in Seq(Reports) /\ new # <<>> /\ new[Len(new)] = report
             /\ new[1] = IF q = <<>> THEN report ELSE q[1]
             /\ (\A k \in 1 .. Len(q) : q[k] = "name" => k = 1) =>
                  \A k \in 1 .. Len(new) : new[k] = "name" => k = 1
<1> DEFINE new == Append(q, report)
<1>1. /\ new \in Seq(Reports) /\ Len(new) = Len(q) + 1 /\ Len(q) \in Nat
      /\ \A k \in 1 .. Len(q) : new[k] = q[k]
      /\ new[Len(q) + 1] = report
  BY AppendProperties, LenProperties
<1> HIDE DEF new
<1>2. (q = <<>> <=> Len(q) = 0) /\ (new = <<>> <=> Len(new) = 0)
  BY <1>1, EmptySeq
<1>3. new # <<>> /\ new[Len(new)] = report /\ new[1] = IF q = <<>> THEN report ELSE q[1]
  BY <1>1, <1>2
<1>4. \A k \in 1 .. Len(new) : k \in 1 .. Len(q) \/ new[k] # "name"
  BY <1>1
<1> QED BY <1>1, <1>3, <1>4 DEF new

LEMMA ConnectLinks ==
  ASSUME LinksInv, NEW s \in Stations, NEW c \in Conns, ConnectToMaster(s, c)
  PROVE  LinksInv' /\ Quiet
<1> USE DEF LinksInv
<1>1. /\ TypeOK'
      /\ conn'[c] = [of |-> s, ends |-> {"station", "master"}, up |-> <<"name">>, down |-> <<>>, at |-> "none"]
      /\ \A d \in Conns \ {c} : conn'[d] = conn[d]
  BY ConnectTypes
<1>2. /\ conn[c] = Fresh /\ conn[c].at = "none" /\ conn[c].ends = {}
      /\ sock' = [sock EXCEPT ![s] = c] /\ server = "listening"
      /\ UNCHANGED <<server, rows, ui>>
  BY FreshIs DEF ConnectToMaster, desk
<1>3. Quiet
  <2>1. \A d \in Conns : conn[d].at \in {"list", "stuck", "recv", "gone"} => conn'[d] = conn[d]
    BY <1>1, <1>2
  <2> QED BY <2>1 DEF Quiet, Pending
<1>4. LinesInv'
  <2>1. <<"name">> # <<>> /\ <<"name">>[1] = "name" /\ Len(<<"name">>) = 1
    OBVIOUS
  <2>2. \A d \in Conns \ {c} : conn'[d].at = conn[d].at /\ conn'[d].ends = conn[d].ends /\ conn'[d].up = conn[d].up
    BY <1>1
  <2>3. conn'[c].at = "none" /\ conn'[c].up = <<"name">>
    BY <1>1
  <2>4. \A k \in 1 .. 1 : k = 1
    OBVIOUS
  <2> QED BY <2>1, <2>2, <2>3, <2>4 DEF LinesInv, Pending
<1>5. RowsInv'
  BY <1>2, <1>3, QuietRows
<1>6. SocksInv'
  <2>1. \A t \in Stations : sock[t] # NoConn => sock[t] # c
    BY <1>2 DEF SocksInv
  <2>2. sock \in [Stations -> Conns \cup {NoConn}]
    BY TypesAre
  <2> QED BY <1>1, <1>2, <2>1, <2>2 DEF SocksInv
<1>7. OverInv'
  BY <1>2 DEF OverInv
<1> QED BY <1>1, <1>3, <1>4, <1>5, <1>6, <1>7

LEMMA HangsLinks ==
  ASSUME LinksInv, NEW s \in Stations, LinkLost(s) \/ StationRestarts(s)
  PROVE  LinksInv' /\ Quiet
<1> USE DEF LinksInv
<1> DEFINE c == sock[s]
           ends == conn[c].ends \ {"station"}
<1>1. /\ TypeOK' /\ c \in Conns
      /\ conn'[c] = With(conn[c], ends, conn[c].at)
      /\ \A d \in Conns \ {c} : conn'[d] = conn[d]
      /\ sock' = [sock EXCEPT ![s] = NoConn] /\ UNCHANGED <<server, rows, ui>>
  BY HangsTypes
<1>2. ends \in Ends /\ conn[c] \in Line /\ conn[c].at \in Handlers
  BY <1>1, LinesAre, EndsAre
<1>3. c # NoConn /\ conn[c].of = s
  BY <1>1, VenueAssumption DEF SocksInv
<1>4. "master" \in ends <=> "master" \in conn[c].ends
  OBVIOUS
<1> HIDE DEF ends, c
<1>5. /\ conn'[c].ends = ends /\ conn'[c].at = conn[c].at
      /\ conn'[c].up = IF "master" \in ends THEN conn[c].up ELSE <<>>
      /\ conn[c].at # "none" => conn'[c].of = conn[c].of
  <2> DEFINE w == With(conn[c], ends, conn[c].at)
  <2>1. /\ w.ends = ends /\ w.at = conn[c].at
        /\ w.up = IF "master" \in ends THEN conn[c].up ELSE <<>>
        /\ ~ (ends = {} /\ conn[c].at = "none") => w.of = conn[c].of
    BY <1>2, WithIs
  <2> HIDE DEF w
  <2> QED BY <1>1, <2>1 DEF w
<1>6. Quiet
  BY <1>1, <1>4, <1>5 DEF Quiet, Pending
<1>7. LinesInv'
  <2>1. Len(<<>>) = 0
    BY EmptySeq
  <2>2. ASSUME NEW d \in Conns
        PROVE  /\ conn'[d].at = conn[d].at /\ ("master" \in conn'[d].ends <=> "master" \in conn[d].ends)
               /\ conn'[d].up = conn[d].up \/ (conn'[d].up = <<>> /\ "master" \notin conn[d].ends)
    BY <1>1, <1>4, <1>5
  <2> QED BY <2>1, <2>2 DEF LinesInv, Pending
<1>8. RowsInv'
  BY <1>1, <1>6, QuietRows
<1>9. SocksInv'
  <2>1. \A t \in Stations \ {s} : sock[t] # NoConn => sock[t] # c
    BY <1>3 DEF SocksInv
  <2>2. sock \in [Stations -> Conns \cup {NoConn}]
    BY TypesAre
  <2> QED BY <1>1, <2>1, <2>2 DEF SocksInv
<1>10. OverInv'
  <2>1. \A d \in Conns : conn[d].at = "none" /\ "master" \notin conn[d].ends =>
                         conn'[d].at = "none" /\ "master" \notin conn'[d].ends
    BY <1>1, <1>4, <1>5
  <2> QED BY <1>1, <2>1 DEF OverInv
<1> QED BY <1>1, <1>6, <1>7, <1>8, <1>9, <1>10

LEMMA AcceptLinks ==
  ASSUME LinksInv, NEW c \in Conns, Accept(c)
  PROVE  LinksInv' /\ Quiet
<1> USE DEF LinksInv
<1>1. /\ TypeOK' /\ conn[c].at = "none" /\ "master" \in conn[c].ends /\ server = "listening"
      /\ UNCHANGED <<server, rows, ui, sock>>
  BY AcceptTypes DEF Accept, desk, stations
<1>2. /\ conn'[c].at = "greet" /\ \A d \in Conns \ {c} : conn'[d].at = conn[d].at
      /\ \A d \in Conns : conn'[d].of = conn[d].of /\ conn'[d].ends = conn[d].ends /\ conn'[d].up = conn[d].up
  BY AtIs, HandlersAre DEF Accept
<1>3. Quiet
  BY <1>1, <1>2 DEF Quiet, Pending
<1>4. LinesInv'
  BY <1>1, <1>2 DEF LinesInv, Pending
<1>5. RowsInv'
  BY <1>1, <1>3, QuietRows
<1>6. SocksInv'
  BY <1>1, <1>2, TypesAre DEF SocksInv
<1>7. OverInv'
  BY <1>1 DEF OverInv
<1> QED BY <1>1, <1>3, <1>4, <1>5, <1>6, <1>7

LEMMA AddLinks ==
  ASSUME LinksInv, NEW c \in Conns, AddStationRow(c)
  PROVE  LinksInv' /\ Quiet
<1> USE DEF LinksInv
<1>1. TypeOK' /\ conn[c].at = "list" /\ UNCHANGED <<server, rows, ui, sock>>
  BY AddTypes DEF AddStationRow, desk, stations
<1>2. /\ conn'[c].at = "recv" /\ \A d \in Conns \ {c} : conn'[d].at = conn[d].at
      /\ \A d \in Conns : conn'[d].of = conn[d].of /\ conn'[d].ends = conn[d].ends /\ conn'[d].up = conn[d].up
  BY AtIs, HandlersAre DEF AddStationRow
<1>3. Quiet
  BY <1>1, <1>2 DEF Quiet, Pending
<1>4. LinesInv'
  BY <1>1, <1>2 DEF LinesInv, Pending
<1>5. RowsInv'
  BY <1>1, <1>3, QuietRows
<1>6. SocksInv'
  BY <1>1, <1>2, TypesAre DEF SocksInv
<1>7. OverInv'
  BY <1>1, <1>2 DEF OverInv
<1> QED BY <1>1, <1>3, <1>4, <1>5, <1>6, <1>7

\* A connection whose master's end is closed, its handler where it was.
Shut(c) ==
  /\ "master" \notin conn'[c].ends /\ ("station" \in conn'[c].ends <=> "station" \in conn[c].ends)
  /\ conn'[c].at = conn[c].at /\ conn'[c].up = <<>>
  /\ "station" \in conn[c].ends \/ conn[c].at # "none" => conn'[c].of = conn[c].of

LEMMA ShutIs ==
  ASSUME TypeOK, NEW c \in Conns, conn'[c] = With(conn[c], conn[c].ends \ {"master"}, conn[c].at)
  PROVE  Shut(c)
<1> DEFINE ends == conn[c].ends \ {"master"}
           w == With(conn[c], ends, conn[c].at)
<1>1. conn[c] \in Line /\ ends \in Ends /\ conn[c].at \in Handlers
  BY LinesAre, EndsAre
<1>2. "master" \notin ends /\ ("station" \in ends <=> "station" \in conn[c].ends)
  OBVIOUS
<1>3. conn'[c] = w
  OBVIOUS
<1> HIDE DEF ends
<1>4. /\ w.ends = ends /\ w.at = conn[c].at
      /\ w.up = IF "master" \in ends THEN conn[c].up ELSE <<>>
      /\ ~ (ends = {} /\ conn[c].at = "none") => w.of = conn[c].of
  BY <1>1, WithIs
<1> HIDE DEF w
<1> QED BY <1>2, <1>3, <1>4 DEF Shut

LEMMA ShutLines ==
  ASSUME LinesInv, \A c \in Conns : conn'[c] = conn[c] \/ Shut(c)
  PROVE  LinesInv' \/ \E c \in Conns : conn[c].at = "greet" /\ Shut(c)
<1>1. SUFFICES ASSUME ~ \E c \in Conns : conn[c].at = "greet" /\ Shut(c)
               PROVE  LinesInv'
  OBVIOUS
<1>2. Len(<<>>) = 0
  BY EmptySeq
<1> QED BY <1>1, <1>2 DEF LinesInv, Shut, Pending

LEMMA AcceptFailsLinks ==
  ASSUME LinksInv, NEW c \in Conns, AcceptFails(c)
  PROVE  LinksInv' /\ Quiet
<1> USE DEF LinksInv
<1>1. /\ TypeOK' /\ server' = "dead"
      /\ \A d \in Conns : conn[d].at = "none" =>
           conn'[d] = With(conn[d], conn[d].ends \ {"master"}, conn[d].at)
      /\ \A d \in Conns : conn[d].at # "none" => conn'[d] = conn[d]
      /\ UNCHANGED <<rows, ui, sock>>
  BY AcceptFailsTypes DEF AcceptFails, stations
<1>2. \A d \in Conns : conn[d].at = "none" => Shut(d)
  BY <1>1, ShutIs
<1>3. Quiet
  BY <1>1, <1>2 DEF Quiet, Pending
<1>4. LinesInv'
  <2>1. \A d \in Conns : conn'[d] = conn[d] \/ Shut(d)
    BY <1>1, <1>2
  <2>2. \A d \in Conns : conn[d].at = "greet" => ~ Shut(d)
    BY <1>1 DEF Shut, LinesInv
  <2> QED BY <2>1, <2>2, ShutLines
<1>5. RowsInv'
  BY <1>1, <1>3, QuietRows
<1>6. SocksInv'
  BY <1>1, <1>2, TypesAre DEF SocksInv, Shut
<1>7. OverInv'
  BY <1>1 DEF OverInv
<1> QED BY <1>1, <1>3, <1>4, <1>5, <1>6, <1>7

LEMMA GreetLinks ==
  ASSUME LinksInv, NEW c \in Conns, Greet(c)
  PROVE  LinksInv'
<1> USE DEF LinksInv
<1> DEFINE s == conn[c].of
           saved == s \in Numbered /\ groups[s] # Unknown
           row == [conn |-> c, active |-> FALSE, name |-> IF saved THEN s ELSE NoName,
                   group |-> IF saved THEN groups[s] ELSE GroupNone]
<1>1. /\ TypeOK' /\ conn[c].at = "greet"
      /\ conn'[c].at \in {"list", "stuck"} /\ conn'[c].of = s /\ conn'[c].ends = conn[c].ends
      /\ conn'[c].up = conn[c].up
      /\ \A d \in Conns \ {c} : conn'[d] = conn[d]
      /\ Len(rows') = Len(rows) + 1 /\ rows'[Len(rows) + 1] = row
      /\ \A i \in DOMAIN rows : rows'[i] = rows[i]
      /\ UNCHANGED <<server, ui, sock>>
  BY GreetTypes
<1>2. row.conn = c /\ row.name \in {NoName, s} /\ ~ row.active
  OBVIOUS
<1> HIDE DEF row, s
<1>3. "master" \in conn[c].ends
  BY <1>1 DEF LinesInv
<1>4. LinesInv'
  BY <1>1 DEF LinesInv, Pending
<1>5. /\ DOMAIN rows' = 1 .. Len(rows') /\ DOMAIN rows = 1 .. Len(rows) /\ Len(rows) \in Nat
      /\ \A i \in DOMAIN rows' : i \in DOMAIN rows \/ i = Len(rows) + 1
  <2>1. rows \in Seq(Row) /\ rows' \in Seq(Row)
    BY <1>1 DEF TypeOK
  <2>2. DOMAIN rows' = 1 .. Len(rows') /\ DOMAIN rows = 1 .. Len(rows) /\ Len(rows) \in Nat
    BY <2>1, RowsAre
  <2> QED BY <1>1, <2>2
<1>6. \A i \in DOMAIN rows : rows[i].conn # c
  BY <1>1, VenueAssumption DEF RowsInv
<1>7. ASSUME NEW i \in DOMAIN rows', rows'[i].conn # NoConn
      PROVE  /\ conn'[rows'[i].conn].at \in {"list", "stuck", "recv", "gone"}
             /\ "master" \in conn'[rows'[i].conn].ends
             /\ rows'[i].name \in {NoName, conn'[rows'[i].conn].of}
             /\ Waits(rows'[i].conn) => ~ rows'[i].active
             /\ \A j \in DOMAIN rows' : rows'[j].conn = rows'[i].conn => i = j
  <2>1. CASE i \in DOMAIN rows
    <3>1. rows'[i] = rows[i] /\ rows[i].conn \in Conns \ {c}
      BY <1>1, <1>6, <1>7, <2>1, ConnsOfRows
    <3>2. \A j \in DOMAIN rows' : rows'[j].conn = rows'[i].conn => j \in DOMAIN rows
      BY <1>1, <1>2, <1>5, <3>1
    <3> QED BY <1>1, <1>7, <2>1, <3>1, <3>2 DEF RowsInv, Pending, Waits
  <2>2. CASE i = Len(rows) + 1
    <3>1. rows'[i].conn = c /\ rows'[i].name \in {NoName, s} /\ ~ rows'[i].active
      BY <1>1, <1>2, <2>2
    <3>2. \A j \in DOMAIN rows' : rows'[j].conn = c => j = i
      BY <1>1, <1>5, <1>6, <2>2
    <3> QED BY <1>1, <1>3, <3>1, <3>2
  <2> QED BY <1>5, <2>1, <2>2
<1>8. RowsInv'
  BY <1>7 DEF RowsInv, Pending, Waits
<1>9. SocksInv'
  BY <1>1, TypesAre DEF SocksInv, s
<1>10. OverInv'
  BY <1>1 DEF OverInv
<1> QED BY <1>1, <1>4, <1>8, <1>9, <1>10

\* The row of a connection, by what it has read.
LEMMA RowOfIs ==
  ASSUME TypeOK, RowsInv, NEW c \in Conns
  PROVE  /\ RowOf(c) \subseteq DOMAIN rows
         /\ \A i \in RowOf(c) : rows[i].conn = c /\ RowOf(c) = {i}
         /\ \A i \in DOMAIN rows : i \notin RowOf(c) => rows[i].conn # c
<1>1. \A i \in RowOf(c) : i \in DOMAIN rows /\ rows[i].conn = c /\ c # NoConn
  BY VenueAssumption DEF RowOf
<1>2. \A i, j \in RowOf(c) : i = j
  BY <1>1 DEF RowsInv
<1> QED BY <1>1, <1>2 DEF RowOf

LEMMA ReceiveLinks ==
  ASSUME LinksInv, NEW c \in Conns, Receive(c)
  PROVE  LinksInv' /\ ~ Pending(c)'
<1> USE DEF LinksInv
<1>1. /\ TypeOK' /\ conn[c].at = "recv"
      /\ \A d \in Conns \ {c} : conn'[d] = conn[d]
      /\ conn'[c].of = conn[c].of /\ conn'[c].ends = conn[c].ends /\ conn'[c].at = conn[c].at
      /\ DOMAIN rows' = DOMAIN rows
      /\ \A i \in DOMAIN rows \ RowOf(c) : rows'[i] = rows[i]
      /\ UNCHANGED <<server, ui, sock>>
  BY ReceiveTypes
<1>2. PICK taken \in 1 .. Len(conn[c].up) :
        LET segment == SubSeq(conn[c].up, 1, taken)
        IN  /\ conn'[c].up = SubSeq(conn[c].up, taken + 1, Len(conn[c].up))
            /\ \A i \in RowOf(c) : rows'[i] = Reported(rows[i], conn[c].of, segment)
  BY ReceiveTypes
<1>3. \A k \in 1 .. Len(conn'[c].up) : conn'[c].up[k] # "name"
  <2> DEFINE up == conn[c].up
             rest == SubSeq(up, taken + 1, Len(up))
  <2>1. up \in Seq(Reports) /\ \A k \in 1 .. Len(up) : up[k] = "name" => k = 1
    BY LinesAre DEF LinesInv
  <2>2. Len(rest) = Len(up) - taken /\ \A k \in 1 .. Len(rest) : rest[k] = up[k + taken]
    BY <2>1, RestIs
  <2>3. Len(up) \in Nat /\ taken \in Nat /\ taken >= 1
    BY <2>1, LenProperties
  <2> HIDE DEF rest
  <2>4. \A k \in 1 .. Len(rest) : k + taken \in 1 .. Len(up) /\ k + taken # 1
    BY <2>2, <2>3
  <2>5. \A k \in 1 .. Len(rest) : rest[k] # "name"
    BY <2>1, <2>2, <2>4
  <2> QED BY <1>2, <2>5 DEF rest
<1>4. ~ Pending(c)'
  <2>1. conn'[c].up \in Seq(Reports)
    BY <1>1, TypesAre DEF TypeOK
  <2>2. conn'[c].up # <<>> => 1 \in 1 .. Len(conn'[c].up)
    BY <2>1, EmptySeq
  <2> QED BY <1>3, <2>2 DEF Pending
<1>5. LinesInv'
  BY <1>1, <1>3 DEF LinesInv, Pending
<1>6. \A i \in RowOf(c) : rows'[i].conn = c /\ rows'[i].name \in {NoName, conn[c].of}
  <2> DEFINE segment == SubSeq(conn[c].up, 1, taken)
  <2>1. ASSUME NEW i \in RowOf(c)
        PROVE  rows'[i].conn = c /\ rows'[i].name \in {NoName, conn[c].of}
    <3>1. rows[i] \in Row /\ rows[i].conn = c /\ c # NoConn /\ i \in DOMAIN rows
      BY <2>1, ConnsOfRows, VenueAssumption DEF RowOf
    <3>2. rows[i].name \in {NoName, conn[c].of}
      BY <3>1 DEF RowsInv
    <3>3. /\ rows'[i] = Reported(rows[i], conn[c].of, segment) /\ conn[c].of \in Stations
          /\ segment \in Seq(Reports)
      BY <1>2, <2>1, LinesAre, SegmentIs
    <3> HIDE DEF segment
    <3> DEFINE new == Reported(rows[i], conn[c].of, segment)
    <3>4. /\ new.conn = rows[i].conn
          /\ Head(segment) # "name" => new.name = rows[i].name
          /\ Head(segment) = "name" /\ Len(segment) # 1 => new.name = NoName
          /\ Head(segment) = "name" /\ Len(segment) = 1 => new.name = conn[c].of
      BY <3>1, <3>3, ReportedIs
    <3> HIDE DEF new
    <3> QED BY <3>1, <3>2, <3>3, <3>4 DEF new
  <2> QED BY <2>1
<1>7. \A i \in DOMAIN rows : rows'[i].conn = rows[i].conn
  BY <1>1, <1>6 DEF RowOf
<1>8. RowsInv'
  <2>1. ASSUME NEW i \in DOMAIN rows, rows[i].conn # NoConn
        PROVE  /\ rows'[i].name \in {NoName, conn[rows[i].conn].of}
               /\ Waits(rows[i].conn) => ~ rows'[i].active
    <3>1. CASE i \in RowOf(c)
      BY <1>4, <1>6, <3>1 DEF RowOf, Pending, Waits
    <3>2. CASE i \notin RowOf(c)
      <4>1. rows[i].conn \in Conns \ {c}
        BY <2>1, <3>2, ConnsOfRows DEF RowOf
      <4> QED BY <1>1, <2>1, <3>2, <4>1 DEF RowsInv, Pending, Waits
    <3> QED BY <3>1, <3>2
  <2>2. \A d \in Conns : conn'[d].at = conn[d].at /\ conn'[d].ends = conn[d].ends /\ conn'[d].of = conn[d].of
    BY <1>1
  <2> QED BY <1>1, <1>7, <2>1, <2>2, ConnsOfRows DEF RowsInv, Pending, Waits
<1>9. SocksInv'
  BY <1>1, TypesAre DEF SocksInv
<1>10. OverInv'
  BY <1>1 DEF OverInv
<1> QED BY <1>1, <1>4, <1>5, <1>8, <1>9, <1>10

\* The rows that stay when a connection's row is removed, and where they go.
LEMMA RowsLeft ==
  ASSUME TypeOK, RowsInv, NEW c \in Conns, rows' = Without(c)
  PROVE  /\ \A k \in DOMAIN rows' : \E i \in DOMAIN rows \ RowOf(c) : rows'[k] = rows[i]
         /\ \A i \in DOMAIN rows \ RowOf(c) : \E k \in DOMAIN rows' : rows'[k] = rows[i]
         /\ \A i \in DOMAIN rows', j \in DOMAIN rows' :
              rows'[i].conn # NoConn /\ rows'[j].conn = rows'[i].conn => i = j
<1>1. DOMAIN rows = 1 .. Len(rows) /\ Len(rows) \in Nat
  BY ConnsOfRows
<1>2. CASE RowOf(c) = {}
  <2>1. rows' = rows
    BY <1>2 DEF Without
  <2> QED BY <1>2, <2>1 DEF RowsInv
<1>3. CASE RowOf(c) # {}
  <2> DEFINE m == Min(RowOf(c))
  <2>1. /\ m \in RowOf(c) /\ rows' \in Seq(Row) /\ Len(rows') = Len(rows) - 1
        /\ \A k \in DOMAIN rows' :
             k \in DOMAIN rows /\ k + 1 \in DOMAIN rows /\ rows'[k] = IF k < m THEN rows[k] ELSE rows[k + 1]
    BY <1>3, WithoutIs
  <2>2. RowOf(c) = {m} /\ m \in 1 .. Len(rows) /\ m \in Nat
    BY <1>1, <2>1, RowOfIs
  <2> HIDE DEF m
  <2>3. DOMAIN rows' = 1 .. Len(rows) - 1
    BY <2>1, RowsAre
  <2>4. ASSUME NEW k \in DOMAIN rows'
        PROVE  \E i \in DOMAIN rows \ RowOf(c) : rows'[k] = rows[i]
    <3>1. CASE k < m
      BY <1>1, <2>1, <2>2, <2>3, <3>1
    <3>2. CASE ~ k < m
      <4>1. k + 1 # m
        BY <2>2, <2>3, <3>2
      <4> QED BY <1>1, <2>1, <2>2, <3>2, <4>1
    <3> QED BY <3>1, <3>2
  <2>5. ASSUME NEW i \in DOMAIN rows \ RowOf(c)
        PROVE  \E k \in DOMAIN rows' : rows'[k] = rows[i]
    <3>1. CASE i < m
      <4>1. i \in 1 .. Len(rows) - 1
        BY <1>1, <2>2, <3>1
      <4> QED BY <2>1, <2>3, <3>1, <4>1
    <3>2. CASE ~ i < m
      <4>1. i - 1 \in 1 .. Len(rows) - 1 /\ ~ (i - 1 < m) /\ (i - 1) + 1 = i
        BY <1>1, <2>2, <3>2
      <4> QED BY <2>1, <2>3, <4>1
    <3> QED BY <3>1, <3>2
  <2>6. ASSUME NEW i \in DOMAIN rows', NEW j \in DOMAIN rows', rows'[i].conn # NoConn, rows'[j].conn = rows'[i].conn
        PROVE  i = j
    <3> DEFINE from(k) == IF k < m THEN k ELSE k + 1
    <3>1. \A k \in DOMAIN rows' : from(k) \in DOMAIN rows /\ rows'[k] = rows[from(k)]
      BY <2>1
    <3>2. from(i) = from(j)
      <4> HIDE DEF from
      <4> QED BY <2>6, <3>1 DEF RowsInv
    <3>3. i \in Nat /\ j \in Nat
      BY <1>1, <2>3
    <3> QED BY <2>2, <3>2, <3>3
  <2> QED BY <2>4, <2>5, <2>6
<1> QED BY <1>2, <1>3

LEMMA RemembersLinks ==
  ASSUME LinksInv, TypeOK', NEW c \in Conns, Remembers(c)
  PROVE  LinksInv'
<1> USE DEF LinksInv
<1>1. /\ conn[c].at = "recv" /\ conn'[c].at = "gone"
      /\ \A d \in Conns \ {c} : conn'[d] = conn[d]
      /\ \A d \in Conns : conn'[d].of = conn[d].of /\ conn'[d].ends = conn[d].ends /\ conn'[d].up = conn[d].up
      /\ UNCHANGED <<server, rows, ui, sock>>
  BY DEF Remembers
<1>2. LinesInv'
  BY <1>1 DEF LinesInv, Pending
<1>3. \A d \in Conns : conn[d].at \in {"list", "stuck", "recv", "gone"} =>
                       conn'[d].at \in {"list", "stuck", "recv", "gone"}
  BY <1>1
<1>4. RowsInv'
  BY <1>1, <1>3, ConnsOfRows DEF RowsInv, Pending
<1>5. SocksInv'
  BY <1>1, TypesAre DEF SocksInv
<1>6. OverInv'
  BY <1>1 DEF OverInv
<1> QED BY <1>2, <1>4, <1>5, <1>6

LEMMA RemovesLinks ==
  ASSUME LinksInv, TypeOK', NEW c \in Conns, Removes(c)
  PROVE  LinksInv'
<1> USE DEF LinksInv
<1> DEFINE ends == conn[c].ends \ {"master"}
           w == With(conn[c], ends, "none")
<1>1. /\ conn[c].at \in {"recv", "gone"} /\ \A d \in Conns \ {c} : conn'[d] = conn[d]
      /\ conn'[c] = w /\ rows' = Without(c) /\ UNCHANGED <<server, sock>>
  BY DEF Removes
<1>2. "master" \notin ends /\ ("station" \in ends <=> "station" \in conn[c].ends)
  OBVIOUS
<1>3. conn[c] \in Line /\ ends \in Ends /\ "none" \in Handlers
  BY LinesAre, EndsAre, HandlersAre
<1> HIDE DEF ends
<1>4. /\ w.ends = ends /\ w.at = "none"
      /\ w.up = IF "master" \in ends THEN conn[c].up ELSE <<>>
      /\ ends # {} => w.of = conn[c].of
  BY <1>3, WithIs
<1> HIDE DEF w
<1>5. LinesInv'
  <2>1. Len(<<>>) = 0
    BY EmptySeq
  <2> QED BY <1>1, <1>2, <1>4, <2>1 DEF LinesInv, Pending
<1>6. RowsInv'
  <2>1. ASSUME NEW k \in DOMAIN rows', rows'[k].conn # NoConn
        PROVE  /\ conn'[rows'[k].conn].at \in {"list", "stuck", "recv", "gone"}
               /\ "master" \in conn'[rows'[k].conn].ends
               /\ rows'[k].name \in {NoName, conn'[rows'[k].conn].of}
               /\ Waits(rows'[k].conn) => ~ rows'[k].active
    <3>1. PICK i \in DOMAIN rows \ RowOf(c) : rows'[k] = rows[i]
      BY <1>1, RowsLeft
    <3>2. rows[i].conn \in Conns \ {c}
      BY <2>1, <3>1, RowOfIs, ConnsOfRows
    <3> QED BY <1>1, <2>1, <3>1, <3>2 DEF RowsInv, Pending, Waits
  <2>2. \A i \in DOMAIN rows', j \in DOMAIN rows' :
          rows'[i].conn # NoConn /\ rows'[j].conn = rows'[i].conn => i = j
    BY <1>1, RowsLeft
  <2> QED BY <2>1, <2>2 DEF RowsInv, Pending, Waits
<1>7. SocksInv'
  BY <1>1, <1>2, <1>4, TypesAre DEF SocksInv
<1>8. OverInv'
  BY <1>1 DEF OverInv
<1> QED BY <1>1, <1>5, <1>6, <1>7, <1>8

LEMMA GoneLinks ==
  ASSUME LinksInv, NEW c \in Conns, ClientGone(c) \/ RemoveStationRow(c)
  PROVE  LinksInv'
BY GoneTypes, RemembersLinks, RemovesLinks DEF LinksInv

\* A step of the window that sends an order or none, and no more.
LEMMA WindowLinks ==
  ASSUME LinksInv, TypeOK', UNCHANGED <<server, rows, sock>>, SameLines,
         server = "down" => ui' = Idle
  PROVE  LinksInv' /\ Quiet
<1> USE DEF LinksInv
<1>1. Quiet
  BY DEF Quiet, Pending, SameLines
<1>2. LinesInv'
  BY DEF LinesInv, Pending, SameLines
<1>3. RowsInv'
  BY <1>1, QuietRows
<1>4. SocksInv'
  BY TypesAre DEF SocksInv, SameLines
<1>5. OverInv'
  BY DEF OverInv, SameLines
<1> QED BY <1>1, <1>2, <1>3, <1>4, <1>5

LEMMA SameConn ==
  ASSUME UNCHANGED conn
  PROVE  SameLines
BY DEF SameLines

LEMMA ReportLinks ==
  ASSUME LinksInv, NEW s \in Stations, ParseCommand(s) \/ StartSession(s) \/ Tick(s)
  PROVE  LinksInv' /\ Quiet
<1>1. server = "down" => ui = Idle
  BY DEF LinksInv, OverInv
<1> QED BY <1>1, ReportTypes, WindowLinks DEF LinksInv

LEMMA SayLinks ==
  ASSUME LinksInv, NEW s \in Stations, NEW t \in Threads, SendToMaster(s, t)
  PROVE  LinksInv' /\ Quiet
<1> USE DEF LinksInv
<1> DEFINE c == sock[s]
           report == unsent[s][t]
<1>1. /\ TypeOK' /\ \A d \in Conns : d # c => conn'[d] = conn[d]
      /\ report \in Reports \ {"name"}
      /\ \A d \in Conns : conn'[d].of = conn[d].of /\ conn'[d].ends = conn[d].ends /\ conn'[d].at = conn[d].at
      /\ c # NoConn => conn'[c].up = IF "master" \in conn[c].ends THEN Append(conn[c].up, report) ELSE conn[c].up
      /\ UNCHANGED <<server, rows, ui, sock>>
  BY SayTypes
<1>2. ASSUME NEW d \in Conns
      PROVE  /\ Pending(d)' <=> Pending(d)
             /\ (\A k \in 1 .. Len(conn[d].up) : conn[d].up[k] = "name" => k = 1) =>
                  \A k \in 1 .. Len(conn'[d].up) : conn'[d].up[k] = "name" => k = 1
  <2>1. CASE conn'[d].up = conn[d].up
    BY <2>1 DEF Pending
  <2>2. CASE conn'[d].up # conn[d].up
    <3> DEFINE q == conn[d].up
               new == Append(q, report)
    <3>1. conn'[d].up = new /\ q \in Seq(Reports)
      BY <1>1, <2>2, VenueAssumption, LinesAre
    <3> HIDE DEF report
    <3>2. /\ new # <<>> /\ new[1] = IF q = <<>> THEN report ELSE q[1]
          /\ (\A k \in 1 .. Len(q) : q[k] = "name" => k = 1) =>
               \A k \in 1 .. Len(new) : new[k] = "name" => k = 1
      BY <1>1, <3>1, AddedUp
    <3> HIDE DEF new
    <3> QED BY <1>1, <3>1, <3>2 DEF Pending
  <2> QED BY <2>1, <2>2
<1>3. Quiet
  BY <1>1, <1>2 DEF Quiet
<1>4. LinesInv'
  BY <1>1, <1>2 DEF LinesInv
<1>5. RowsInv'
  BY <1>1, <1>3, QuietRows
<1>6. SocksInv'
  BY <1>1, TypesAre DEF SocksInv
<1>7. OverInv'
  BY <1>1 DEF OverInv
<1> QED BY <1>1, <1>3, <1>4, <1>5, <1>6, <1>7

\* The window works only while the program runs.
LEMMA Running ==
  ASSUME LinksInv, ui.at # "idle" \/ rows # <<>>
  PROVE  server # "down"
BY IdleIs DEF LinksInv, OverInv

LEMMA BeginLinks ==
  ASSUME LinksInv, NEW cmd \in Commands, NEW selected \in SUBSET DOMAIN rows, selected # {},
         BeginCommand(cmd, selected)
  PROVE  LinksInv' /\ Quiet
<1>1. rows # <<>>
  <2>1. DOMAIN rows = 1 .. Len(rows) /\ DOMAIN rows # {}
    BY ConnsOfRows DEF LinksInv
  <2>2. Len(<<>>) = 0
    BY EmptySeq
  <2> QED BY <2>1, <2>2
<1> QED BY <1>1, BeginTypes, WindowLinks, SameConn, Running DEF LinksInv

LEMMA NextGroupLinks ==
  ASSUME LinksInv, NextGroup
  PROVE  LinksInv' /\ Quiet
BY NextGroupTypes, WindowLinks, SameConn, Running DEF LinksInv

LEMMA SendLinks ==
  ASSUME LinksInv, Send
  PROVE  LinksInv' /\ Quiet
BY SendTypes, WindowLinks, Running DEF LinksInv

LEMMA NapLinks ==
  ASSUME LinksInv, SendAfterNap
  PROVE  LinksInv' /\ Quiet
BY NapTypes, WindowLinks, Running DEF LinksInv

LEMMA LogLinks ==
  ASSUME LinksInv, LogSent
  PROVE  LinksInv' /\ Quiet
BY LogTypes, WindowLinks, SameConn, Running DEF LinksInv

LEMMA SaveLinks ==
  ASSUME LinksInv, SaveStationGroups
  PROVE  LinksInv' /\ Quiet
BY SaveTypes, WindowLinks, SameConn, Running DEF LinksInv

LEMMA FailsLinks ==
  ASSUME LinksInv, SendFails
  PROVE  LinksInv'
<1> USE DEF LinksInv
<1>1. TypeOK' /\ ui.at \in {"send", "nap"}
  BY FailsTypes
<1>2. PICK t \in DOMAIN rows : Failed(t)
  BY FailsTypes
<1> DEFINE c == rows[t].conn
<1>3. /\ c \in Conns /\ "station" \notin conn[c].ends
      /\ \A d \in Conns \ {c} : conn'[d] = conn[d]
      /\ conn'[c].of = conn[c].of /\ conn'[c].ends = {} /\ conn'[c].at = conn[c].at
      /\ conn'[c].up = conn[c].up
      /\ DOMAIN rows' = DOMAIN rows /\ \A i \in DOMAIN rows \ {t} : rows'[i] = rows[i]
      /\ rows'[t].conn = NoConn
      /\ UNCHANGED <<server, sock>>
  BY <1>2 DEF Failed
<1>4. c # NoConn /\ conn[c].at \in {"list", "stuck", "recv", "gone"}
  BY <1>3, VenueAssumption DEF RowsInv
<1>5. \A i \in DOMAIN rows \ {t} : rows[i].conn # c
  BY <1>4 DEF RowsInv
<1> HIDE DEF c
<1>6. LinesInv'
  BY <1>3, <1>4 DEF LinesInv, Pending
<1>7. RowsInv'
  BY <1>3, <1>5, ConnsOfRows DEF RowsInv, Pending
<1>8. SocksInv'
  BY <1>3, TypesAre DEF SocksInv
<1>9. OverInv'
  BY <1>1, <1>3, Running DEF OverInv
<1> QED BY <1>1, <1>6, <1>7, <1>8, <1>9

LEMMA RegroupLinks ==
  ASSUME LinksInv, NEW selected \in SUBSET DOMAIN rows, NEW g \in Groups \cup {GroupNone},
         rows # <<>>, Regroup(selected, g)
  PROVE  LinksInv'
<1> USE DEF LinksInv
<1>1. /\ TypeOK' /\ DOMAIN rows' = DOMAIN rows
      /\ \A i \in DOMAIN rows : /\ rows'[i].conn = rows[i].conn /\ rows'[i].name = rows[i].name
                                 /\ rows'[i].active = rows[i].active
      /\ UNCHANGED <<server, conn, sock>>
  BY RegroupTypes
<1>2. LinesInv'
  BY <1>1 DEF LinesInv, Pending
<1>3. RowsInv'
  BY <1>1 DEF RowsInv, Pending
<1>4. SocksInv' /\ OverInv'
  BY <1>1, Running DEF SocksInv, OverInv
<1> QED BY <1>1, <1>2, <1>3, <1>4

LEMMA StopLinks ==
  ASSUME LinksInv, StopServer
  PROVE  LinksInv'
<1> USE DEF LinksInv
<1>1. /\ TypeOK' /\ rows' = <<>> /\ server' = "off"
      /\ \A c \in Conns :
           conn'[c] = IF RowOf(c) # {} \/ conn[c].at = "none"
                      THEN With(conn[c], conn[c].ends \ {"master"}, conn[c].at) ELSE conn[c]
      /\ UNCHANGED sock
  BY StopTypes
<1>2. \A c \in Conns : conn'[c] = conn[c] \/ Shut(c)
  BY <1>1, ShutIs
<1>3. \A c \in Conns : conn[c].at = "greet" => conn'[c] = conn[c]
  <2>1. \A c \in Conns : conn[c].at = "greet" => RowOf(c) = {}
    BY VenueAssumption DEF RowOf, RowsInv
  <2> QED BY <1>1, <2>1
<1>4. LinesInv'
  <2>1. \A c \in Conns : conn[c].at = "greet" => ~ Shut(c)
    BY <1>3 DEF Shut, LinesInv
  <2> QED BY <1>2, <2>1, ShutLines
<1>5. RowsInv'
  <2>1. DOMAIN rows' = {}
    BY <1>1
  <2> QED BY <2>1 DEF RowsInv
<1>6. SocksInv'
  BY <1>1, <1>2, TypesAre DEF SocksInv, Shut
<1>7. OverInv'
  BY <1>1 DEF OverInv
<1> QED BY <1>1, <1>4, <1>5, <1>6, <1>7

LEMMA EndsLinks ==
  ASSUME LinksInv, MasterEnds
  PROVE  LinksInv'
<1> USE DEF LinksInv
<1>1. /\ TypeOK' /\ server' = "down" /\ rows' = <<>> /\ ui' = Idle
      /\ \A c \in Conns : conn'[c] = With(conn[c], conn[c].ends \ {"master"}, "none")
      /\ UNCHANGED sock
  BY EndsTypes
<1>2. ASSUME NEW c \in Conns
      PROVE  /\ "master" \notin conn'[c].ends /\ conn'[c].at = "none" /\ conn'[c].up = <<>>
             /\ "station" \in conn[c].ends => "station" \in conn'[c].ends /\ conn'[c].of = conn[c].of
  <2> DEFINE ends == conn[c].ends \ {"master"}
             w == With(conn[c], ends, "none")
  <2>1. conn[c] \in Line /\ ends \in Ends /\ "none" \in Handlers
    BY LinesAre, EndsAre, HandlersAre
  <2>2. "master" \notin ends /\ ("station" \in ends <=> "station" \in conn[c].ends)
    OBVIOUS
  <2>3. conn'[c] = w
    BY <1>1
  <2> HIDE DEF ends
  <2>4. /\ w.ends = ends /\ w.at = "none"
        /\ w.up = IF "master" \in ends THEN conn[c].up ELSE <<>>
        /\ ends # {} => w.of = conn[c].of
    BY <2>1, WithIs
  <2> HIDE DEF w
  <2> QED BY <2>2, <2>3, <2>4
<1>3. LinesInv'
  <2>1. Len(<<>>) = 0
    BY EmptySeq
  <2> QED BY <1>2, <2>1 DEF LinesInv
<1>4. RowsInv'
  <2>1. DOMAIN rows' = {}
    BY <1>1
  <2> QED BY <2>1 DEF RowsInv
<1>5. SocksInv'
  BY <1>1, <1>2, TypesAre DEF SocksInv
<1>6. OverInv'
  BY <1>1, <1>2 DEF OverInv
<1> QED BY <1>1, <1>3, <1>4, <1>5, <1>6

LEMMA ServerLinks ==
  ASSUME LinksInv, StartServer \/ MasterStarts
  PROVE  LinksInv' /\ Quiet
<1> USE DEF LinksInv
<1>1. TypeOK' /\ server' = "listening" /\ UNCHANGED <<rows, ui, conn, sock>>
  BY ServerTypes DEF StartServer, MasterStarts, stations
<1>2. Quiet
  BY <1>1 DEF Quiet, Pending
<1>3. LinesInv' /\ RowsInv' /\ SocksInv' /\ OverInv'
  BY <1>1 DEF LinesInv, RowsInv, SocksInv, OverInv, Pending
<1> QED BY <1>1, <1>2, <1>3
-----------------------------------------------------------------------------
(* Orders go to the stations chosen. *)

\* A connected row is of a station that was chosen.
Meant(i) == conn[rows[i].conn].of \in ui.chosen

\* Until a row is removed the places noted are of stations that were chosen, and
\* the row the pause is for is chosen or in the group being served, where it
\* stays: it shows a session, so its name has been read.
ChosenInv ==
  ui.at \in {"send", "nap", "log"} /\ ~ ui.shifted =>
    /\ \A i \in ui.singles : i \in DOMAIN rows /\ (rows[i].conn # NoConn => Meant(i))
    /\ ui.at = "nap" =>
         /\ ui.i \in DOMAIN rows
         /\ rows[ui.i].conn # NoConn =>
              \/ Meant(ui.i)
              \/ /\ ui.groups # {} /\ rows[ui.i].group = Min(ui.groups)
                 /\ ~ Pending(rows[ui.i].conn)

\* What there is to show of the next state.
LEMMA ChosenNext ==
  ASSUME ui'.at \in {"send", "nap", "log"} /\ ~ ui'.shifted =>
           /\ \A i \in ui'.singles : i \in DOMAIN rows' /\ (rows'[i].conn # NoConn => conn'[rows'[i].conn].of \in ui'.chosen)
           /\ ui'.at = "nap" =>
                /\ ui'.i \in DOMAIN rows'
                /\ rows'[ui'.i].conn # NoConn =>
                     \/ conn'[rows'[ui'.i].conn].of \in ui'.chosen
                     \/ /\ ui'.groups # {} /\ rows'[ui'.i].group = Min(ui'.groups)
                        /\ ~ Waits(rows'[ui'.i].conn)
  PROVE  ChosenInv'
BY DEF ChosenInv, Meant, Pending, Waits

\* Rows come, go on or lose their connection, the window's thread stays.
LEMMA StaysChosen ==
  ASSUME LinksInv, ChosenInv, UNCHANGED ui, DOMAIN rows \subseteq DOMAIN rows',
         \A i \in DOMAIN rows :
           /\ rows'[i].conn = rows[i].conn
           /\ rows[i].conn # NoConn => /\ conn'[rows[i].conn].of = conn[rows[i].conn].of
                                       /\ Waits(rows[i].conn) => Pending(rows[i].conn)
                                       /\ rows'[i].group = rows[i].group \/ Pending(rows[i].conn)
  PROVE  ChosenInv'
BY ChosenNext DEF ChosenInv, Meant

LEMMA QuietChosen ==
  ASSUME LinksInv, ChosenInv, Quiet, UNCHANGED <<rows, ui>>
  PROVE  ChosenInv'
<1>1. \A i \in DOMAIN rows : rows[i].conn # NoConn =>
        rows[i].conn \in Conns /\ conn[rows[i].conn].at \in {"list", "stuck", "recv", "gone"}
  BY ConnsOfRows DEF RowsInv, LinksInv
<1>2. \A i \in DOMAIN rows : rows[i].conn # NoConn =>
        conn'[rows[i].conn].of = conn[rows[i].conn].of /\ (Waits(rows[i].conn) => Pending(rows[i].conn))
  BY <1>1 DEF Quiet, Pending, Waits
<1> QED BY <1>2, StaysChosen

LEMMA GreetChosen ==
  ASSUME LinksInv, ChosenInv, NEW c \in Conns, Greet(c)
  PROVE  ChosenInv'
<1>1. /\ conn'[c].of = conn[c].of /\ conn'[c].up = conn[c].up /\ \A d \in Conns \ {c} : conn'[d] = conn[d]
      /\ Len(rows') = Len(rows) + 1
      /\ \A i \in DOMAIN rows : rows'[i] = rows[i]
      /\ UNCHANGED ui /\ TypeOK'
  BY GreetTypes DEF LinksInv
<1>2. DOMAIN rows \subseteq DOMAIN rows'
  <2>1. rows \in Seq(Row) /\ rows' \in Seq(Row)
    BY <1>1 DEF TypeOK, LinksInv
  <2>2. DOMAIN rows' = 1 .. Len(rows') /\ DOMAIN rows = 1 .. Len(rows) /\ Len(rows) \in Nat
    BY <2>1, RowsAre
  <2> QED BY <1>1, <2>2
<1>3. \A d \in Conns : conn'[d].of = conn[d].of /\ conn'[d].up = conn[d].up
  BY <1>1
<1>4. \A i \in DOMAIN rows : rows[i].conn # NoConn => rows[i].conn \in Conns
  BY ConnsOfRows DEF LinksInv
<1> QED BY <1>1, <1>2, <1>3, <1>4, StaysChosen DEF Pending, Waits

\* What a row's group becomes with a segment, by whether the name was pending.
LEMMA ReceiveGroups ==
  ASSUME LinksInv, NEW c \in Conns, Receive(c)
  PROVE  \A i \in DOMAIN rows :
           /\ rows'[i].conn = rows[i].conn
           /\ i \notin RowOf(c) => rows'[i] = rows[i]
           /\ i \in RowOf(c) =>
                \/ /\ rows'[i].group = rows[i].group
                   /\ rows'[i].name = rows[i].name /\ ~ Pending(c)
                \/ /\ rows'[i].group = rows[i].group
                   /\ rows'[i].name = NoName /\ Pending(c)
                \/ /\ rows'[i].group = IF groups[conn[c].of] = Unknown THEN rows[i].group ELSE groups[conn[c].of]
                   /\ rows'[i].name = conn[c].of /\ Pending(c)
<1> USE DEF LinksInv
<1>1. PICK taken \in 1 .. Len(conn[c].up) :
        LET segment == SubSeq(conn[c].up, 1, taken)
        IN  \A i \in RowOf(c) : rows'[i] = Reported(rows[i], conn[c].of, segment)
  BY ReceiveTypes
<1> DEFINE segment == SubSeq(conn[c].up, 1, taken)
<1>2. conn[c].up \in Seq(Reports) /\ conn[c].up # <<>> /\ conn[c].of \in Stations
  <2>1. Len(<<>>) = 0
    BY EmptySeq
  <2> QED BY <2>1, LinesAre
<1>3. segment \in Seq(Reports) /\ Head(segment) = conn[c].up[1]
  BY <1>2, SegmentIs
<1>4. Head(segment) = "name" <=> Pending(c)
  BY <1>2, <1>3 DEF Pending
<1>5. \A i \in RowOf(c) : rows'[i] = Reported(rows[i], conn[c].of, segment)
  BY <1>1
<1> HIDE DEF segment
<1>6. ASSUME NEW i \in RowOf(c)
      PROVE  /\ rows'[i].conn = rows[i].conn
             /\ \/ /\ rows'[i].group = rows[i].group
                   /\ rows'[i].name = rows[i].name /\ ~ Pending(c)
                \/ /\ rows'[i].group = rows[i].group
                   /\ rows'[i].name = NoName /\ Pending(c)
                \/ /\ rows'[i].group = IF groups[conn[c].of] = Unknown THEN rows[i].group ELSE groups[conn[c].of]
                   /\ rows'[i].name = conn[c].of /\ Pending(c)
  <2> DEFINE new == Reported(rows[i], conn[c].of, segment)
  <2>1. rows[i] \in Row
    BY <1>6, ConnsOfRows DEF RowOf
  <2>2. /\ new.conn = rows[i].conn
        /\ Head(segment) # "name" => new.name = rows[i].name /\ new.group = rows[i].group
        /\ Head(segment) = "name" /\ Len(segment) # 1 => new.name = NoName /\ new.group = rows[i].group
        /\ Head(segment) = "name" /\ Len(segment) = 1 =>
             /\ new.name = conn[c].of
             /\ new.group = IF groups[conn[c].of] = Unknown THEN rows[i].group ELSE groups[conn[c].of]
    BY <1>2, <1>3, <2>1, ReportedIs
  <2>3. rows'[i] = new
    BY <1>5, <1>6
  <2> HIDE DEF new
  <2> QED BY <1>4, <2>2, <2>3
<1>7. \A i \in DOMAIN rows \ RowOf(c) : rows'[i] = rows[i]
  BY ReceiveTypes
<1> QED BY <1>6, <1>7

LEMMA ReceiveChosen ==
  ASSUME LinksInv, ChosenInv, NEW c \in Conns, Receive(c)
  PROVE  ChosenInv'
<1>1. /\ DOMAIN rows' = DOMAIN rows /\ UNCHANGED ui
      /\ \A d \in Conns : conn'[d].of = conn[d].of
      /\ \A d \in Conns \ {c} : conn'[d] = conn[d]
  BY ReceiveTypes DEF LinksInv
<1>2. ~ Waits(c)
  BY ReceiveLinks DEF Pending, Waits
<1>3. \A i \in DOMAIN rows :
        /\ rows'[i].conn = rows[i].conn
        /\ rows'[i].group = rows[i].group \/ Pending(rows[i].conn)
  BY ReceiveGroups DEF RowOf
<1>4. \A i \in DOMAIN rows : rows[i].conn # NoConn => rows[i].conn \in Conns
  BY ConnsOfRows DEF LinksInv
<1>5. \A d \in Conns : Waits(d) => Pending(d)
  BY <1>1, <1>2 DEF Pending, Waits
<1> QED BY <1>1, <1>3, <1>4, <1>5, StaysChosen

LEMMA GoneChosen ==
  ASSUME LinksInv, ChosenInv, NEW c \in Conns, ClientGone(c) \/ RemoveStationRow(c)
  PROVE  ChosenInv'
<1> USE DEF LinksInv
<1>1. CASE Remembers(c)
  <2>1. UNCHANGED <<rows, ui>> /\ \A d \in Conns : conn'[d].of = conn[d].of /\ conn'[d].up = conn[d].up
    BY <1>1 DEF Remembers
  <2>2. \A i \in DOMAIN rows : rows[i].conn # NoConn => rows[i].conn \in Conns
    BY ConnsOfRows
  <2> QED BY <2>1, <2>2, StaysChosen DEF Pending, Waits
<1>2. CASE Removes(c) /\ RowOf(c) # {}
  <2>1. ui' = [ui EXCEPT !.shifted = ui.at # "idle"] /\ ui \in Window
    BY <1>2, TypesAre DEF Removes
  <2>2. ui'.at = ui.at /\ (ui.at # "idle" => ui'.shifted)
    BY <2>1 DEF Window
  <2> QED BY <2>2 DEF ChosenInv
<1>3. CASE Removes(c) /\ RowOf(c) = {}
  <2>1. UNCHANGED <<rows, ui>> /\ \A d \in Conns \ {c} : conn'[d] = conn[d]
    BY <1>3 DEF Removes, Without
  <2>2. \A i \in DOMAIN rows : rows[i].conn # NoConn => rows[i].conn \in Conns \ {c}
    BY <1>3, ConnsOfRows DEF RowOf
  <2> QED BY <2>1, <2>2, StaysChosen DEF Pending, Waits
<1> QED BY <1>1, <1>2, <1>3, GoneTypes

\* The command goes on, and no row changes but one that loses its connection.
LEMMA GoesOnChosen ==
  ASSUME LinksInv, ChosenInv, ui.at \in {"send", "nap", "log"},
         ui'.at = "nap" =>
           /\ ui'.i \in DOMAIN rows /\ ui'.groups = ui.groups
           /\ rows[ui'.i].conn # NoConn =>
                \/ Meant(ui'.i)
                \/ /\ ui.groups # {} /\ rows[ui'.i].group = Min(ui.groups)
                   /\ ~ Pending(rows[ui'.i].conn),
         ui'.singles \subseteq ui.singles, ui'.chosen = ui.chosen, ui'.shifted = ui.shifted,
         DOMAIN rows' = DOMAIN rows,
         \A i \in DOMAIN rows : /\ rows'[i].group = rows[i].group
                                /\ rows'[i].conn \in {NoConn, rows[i].conn},
         \A d \in Conns : conn'[d].of = conn[d].of /\ conn'[d].up = conn[d].up
  PROVE  ChosenInv'
<1>1. CASE ui.shifted
  BY <1>1 DEF ChosenInv
<1>2. CASE ~ ui.shifted
  <2>1. \A i \in ui.singles : i \in DOMAIN rows /\ (rows[i].conn # NoConn => Meant(i))
    BY <1>2 DEF ChosenInv
  <2>2. \A i \in DOMAIN rows : rows'[i].conn # NoConn =>
          /\ rows'[i].conn = rows[i].conn /\ rows[i].conn # NoConn
          /\ conn'[rows'[i].conn].of = conn[rows[i].conn].of
          /\ Waits(rows'[i].conn) <=> Pending(rows[i].conn)
    BY ConnsOfRows DEF LinksInv, Pending, Waits
  <2>3. \A i \in ui'.singles : i \in DOMAIN rows' /\ (rows'[i].conn # NoConn => conn'[rows'[i].conn].of \in ui'.chosen)
    BY <2>1, <2>2 DEF Meant
  <2>4. ui'.at = "nap" =>
          /\ ui'.i \in DOMAIN rows'
          /\ rows'[ui'.i].conn # NoConn =>
               \/ conn'[rows'[ui'.i].conn].of \in ui'.chosen
               \/ /\ ui'.groups # {} /\ rows'[ui'.i].group = Min(ui'.groups)
                  /\ ~ Waits(rows'[ui'.i].conn)
    BY <2>2 DEF Meant
  <2> QED BY <2>3, <2>4, ChosenNext
<1> QED BY <1>1, <1>2

LEMMA BeginChosen ==
  ASSUME LinksInv, NEW cmd \in Commands, NEW selected \in SUBSET DOMAIN rows, BeginCommand(cmd, selected)
  PROVE  ChosenInv'
<1>1. /\ ui'.at = "send"
      /\ ui'.singles = {i \in selected : rows[i].group = GroupNone}
      /\ \A i \in DOMAIN rows : rows[i].conn # NoConn /\ (i \in selected \/ rows[i].group \in ui'.groups) =>
           conn[rows[i].conn].of \in ui'.chosen
      /\ UNCHANGED <<rows, groups, conn>>
  BY BeginTypes DEF LinksInv
<1>2. \A i \in ui'.singles : i \in selected /\ i \in DOMAIN rows
  BY <1>1
<1>3. "send" # "nap"
  OBVIOUS
<1> QED BY <1>1, <1>2, <1>3, ChosenNext

LEMMA NextGroupChosen ==
  ASSUME LinksInv, ChosenInv, NextGroup
  PROVE  ChosenInv'
<1>1. /\ ui.at = "send" /\ ui'.at \in {"send", "idle"}
      /\ ui'.at = "send" =>
              /\ ui'.groups \subseteq ui.groups /\ ui'.singles \subseteq ui.singles
              /\ ui'.chosen = ui.chosen /\ ui'.shifted = ui.shifted
      /\ UNCHANGED <<rows, groups, conn>>
  BY NextGroupTypes DEF LinksInv
<1>2. CASE ui'.at = "idle"
  BY <1>2 DEF ChosenInv
<1>3. CASE ui'.at = "send"
  BY <1>1, <1>3, GoesOnChosen
<1> QED BY <1>1, <1>2, <1>3

LEMMA SendChosen ==
  ASSUME LinksInv, ChosenInv, Send
  PROVE  ChosenInv'
<1>1. /\ SameLines /\ HasTarget /\ ui.at = "send"
      /\ ui'.at \in {"nap", "log"} /\ ui'.i = Target
      /\ ui'.groups = ui.groups /\ ui'.singles = ui.singles
      /\ ui'.chosen = ui.chosen /\ ui'.shifted = ui.shifted
      /\ UNCHANGED <<rows, groups>>
  BY SendTypes DEF LinksInv
<1>2. /\ Target \in DOMAIN rows /\ rows[Target].conn # NoConn
      /\ ui.groups # {} => rows[Target].group = Min(ui.groups)
      /\ ui.groups = {} => Target \in ui.singles
  BY <1>1, TargetIs, VenueAssumption DEF LinksInv
<1>3. CASE ui.shifted
  BY <1>1, <1>3 DEF ChosenInv
<1>4. CASE ~ ui.shifted
  <2>1. Meant(Target) \/ (ui.groups # {} /\ rows[Target].group = Min(ui.groups))
    BY <1>1, <1>2, <1>4 DEF ChosenInv
  <2>2. ui'.at = "nap" => ~ Pending(rows[Target].conn)
    <3>1. ui'.at = "nap" => rows[Target].active
      BY TypesAre DEF Send, LinksInv, Window
    <3> HIDE DEF Target
    <3> QED BY <1>2, <3>1 DEF LinksInv, RowsInv
  <2> HIDE DEF Target
  <2> QED BY <1>1, <1>2, <2>1, <2>2, GoesOnChosen DEF SameLines
<1> QED BY <1>3, <1>4

LEMMA NapChosen ==
  ASSUME LinksInv, ChosenInv, SendAfterNap
  PROVE  ChosenInv'
<1>1. /\ SameLines /\ ui.at = "nap" /\ ui'.at = "log"
      /\ ui'.groups = ui.groups /\ ui'.singles = ui.singles
      /\ ui'.chosen = ui.chosen /\ ui'.shifted = ui.shifted
      /\ UNCHANGED <<rows, groups>>
  BY NapTypes DEF LinksInv
<1> QED BY <1>1, GoesOnChosen DEF SameLines

LEMMA LogChosen ==
  ASSUME LinksInv, ChosenInv, LogSent
  PROVE  ChosenInv'
<1>1. /\ ui.at = "log" /\ ui'.at = "send" /\ ui'.groups = ui.groups
      /\ ui'.singles \subseteq ui.singles /\ ui'.chosen = ui.chosen /\ ui'.shifted = ui.shifted
      /\ UNCHANGED <<rows, groups, conn>>
  BY LogTypes DEF LinksInv
<1> QED BY <1>1, GoesOnChosen

LEMMA FailsChosen ==
  ASSUME LinksInv, ChosenInv, SendFails
  PROVE  ChosenInv'
<1>1. PICK t \in DOMAIN rows : Failed(t) /\ ui.at \in {"send", "nap"}
  BY FailsTypes DEF LinksInv
<1> DEFINE c == rows[t].conn
<1>2. /\ \A d \in Conns \ {c} : conn'[d] = conn[d]
      /\ conn'[c].of = conn[c].of /\ conn'[c].up = conn[c].up
      /\ DOMAIN rows' = DOMAIN rows
      /\ \A i \in DOMAIN rows \ {t} : rows'[i] = rows[i]
      /\ rows'[t].conn = NoConn /\ rows'[t].group = rows[t].group
      /\ ui'.at = "send"
      /\ ui'.singles \subseteq ui.singles /\ ui'.chosen = ui.chosen /\ ui'.shifted = ui.shifted
  BY <1>1 DEF Failed
<1>3. \A d \in Conns : conn'[d].of = conn[d].of /\ conn'[d].up = conn[d].up
  BY <1>2
<1>4. \A i \in DOMAIN rows : rows'[i].group = rows[i].group /\ rows'[i].conn \in {NoConn, rows[i].conn}
  BY <1>2
<1> HIDE DEF c
<1> QED BY <1>1, <1>2, <1>3, <1>4, GoesOnChosen

\* The other steps of the window and of the program leave no command.
LEMMA NoneChosen ==
  ASSUME ui'.at \in {"idle", "save"}
  PROVE  ChosenInv'
BY DEF ChosenInv

LEMMA RestChosen ==
  ASSUME LinksInv, ChosenInv,
         \/ SaveStationGroups \/ StopServer \/ MasterEnds \/ StartServer \/ MasterStarts
         \/ \E selected \in SUBSET DOMAIN rows, g \in Groups \cup {GroupNone} : Regroup(selected, g)
  PROVE  ChosenInv'
<1> USE DEF LinksInv
<1>1. CASE SaveStationGroups
  BY <1>1, SaveTypes, IdleIs, NoneChosen
<1>2. CASE StopServer
  BY <1>2, NoneChosen DEF StopServer
<1>3. CASE MasterEnds
  BY <1>3, EndsTypes, IdleIs, NoneChosen
<1>4. CASE StartServer
  BY <1>4, NoneChosen DEF StartServer
<1>5. CASE MasterStarts
  BY <1>5, IdleIs, NoneChosen DEF MasterStarts, OverInv
<1>6. CASE \E selected \in SUBSET DOMAIN rows, g \in Groups \cup {GroupNone} : Regroup(selected, g)
  BY <1>6, RegroupTypes, NoneChosen
<1> QED BY <1>1, <1>2, <1>3, <1>4, <1>5, <1>6

\* The step's order, if there is one, is for a station chosen.
Heeds ==
  \A c \in Conns : Len(conn'[c].down) > Len(conn[c].down) =>
    \/ conn[c].of \in ui.chosen
    \/ \E i \in RowOf(c) : ui.groups # {} /\ rows[i].group = Min(ui.groups)
    \/ ui.shifted

LEMMA SendHeeds ==
  ASSUME LinksInv, ChosenInv, Send
  PROVE  Heeds
<1>1. /\ HasTarget /\ ui.at = "send"
      /\ \A d \in Conns \ {rows[Target].conn} : conn'[d] = conn[d]
  BY SendTypes DEF LinksInv
<1>2. /\ Target \in DOMAIN rows /\ rows[Target].conn \in Conns /\ rows[Target].conn # NoConn
      /\ ui.groups # {} => rows[Target].group = Min(ui.groups)
      /\ ui.groups = {} => Target \in ui.singles
  BY <1>1, TargetIs, VenueAssumption DEF LinksInv
<1>3. \A d \in Conns \ {rows[Target].conn} : ~ (Len(conn'[d].down) > Len(conn[d].down))
  <2>1. \A d \in Conns : Len(conn[d].down) \in Nat
    BY LinesAre, LenProperties DEF LinksInv
  <2> QED BY <1>1, <2>1
<1>4. ui.groups = {} /\ ~ ui.shifted => conn[rows[Target].conn].of \in ui.chosen
  BY <1>1, <1>2 DEF ChosenInv, Meant
<1>5. Target \in RowOf(rows[Target].conn)
  BY <1>2 DEF RowOf
<1> HIDE DEF Target
<1> QED BY <1>2, <1>3, <1>4, <1>5 DEF Heeds

LEMMA NapHeeds ==
  ASSUME LinksInv, ChosenInv, SendAfterNap
  PROVE  Heeds
<1>1. /\ ui.at = "nap"
      /\ Live(ui.i) => \A d \in Conns \ {rows[ui.i].conn} : conn'[d] = conn[d]
      /\ ui.i \in DOMAIN rows /\ ~ Live(ui.i) => conn' = conn
  BY NapTypes DEF LinksInv
<1>2. \A d \in Conns : Len(conn[d].down) \in Nat
  BY LinesAre, LenProperties DEF LinksInv
<1>3. CASE ui.i \notin DOMAIN rows
  BY <1>1, <1>3 DEF ChosenInv, Heeds
<1>4. CASE ui.i \in DOMAIN rows /\ ~ Live(ui.i)
  BY <1>1, <1>2, <1>4 DEF Heeds
<1>5. CASE Live(ui.i)
  <2>1. ui.i \in DOMAIN rows /\ rows[ui.i].conn # NoConn /\ ui.i \in RowOf(rows[ui.i].conn)
    BY <1>5 DEF Live, RowOf
  <2>2. ~ ui.shifted => \/ conn[rows[ui.i].conn].of \in ui.chosen
                        \/ ui.groups # {} /\ rows[ui.i].group = Min(ui.groups)
    BY <1>1, <2>1 DEF ChosenInv, Meant
  <2> QED BY <1>1, <1>2, <1>5, <2>1, <2>2 DEF Heeds
<1> QED BY <1>3, <1>4, <1>5

LEMMA SilentHeeds ==
  ASSUME \A c \in Conns : ~ (Len(conn'[c].down) > Len(conn[c].down))
  PROVE  Heeds
BY DEF Heeds

\* An end that closes takes what was under way to it along.
LEMMA FewerOrders ==
  ASSUME TypeOK, NEW c \in Conns, NEW ends \in Ends, NEW at \in Handlers,
         conn'[c] = With(conn[c], ends, at)
  PROVE  ~ (Len(conn'[c].down) > Len(conn[c].down))
<1>1. conn'[c].down = conn[c].down \/ conn'[c].down = <<>>
  BY WithIs, LinesAre
<1>2. Len(conn[c].down) \in Nat
  BY LinesAre, LenProperties
<1>3. Len(<<>>) = 0
  BY EmptySeq
<1> QED BY <1>1, <1>2, <1>3
-----------------------------------------------------------------------------
(* What the master shows of a session. *)

\* The last report under way says whether time is left; a name says that none
\* is, unless the connection is excused.
Tells(q, time, excused) ==
  q # <<>> => /\ q[Len(q)] \in {"started", "time"} => time > 0
              /\ q[Len(q)] = "stopped" => time = 0
              /\ q[Len(q)] = "name" => time = 0 \/ excused

\* A row shows what there is when all is read.
Shows(r, q, time, excused) == ~ excused /\ q = <<>> => (r.active <=> time > 0)

\* A report that is not crossed is true.
Agree(report, time) ==
  (report \in {"started", "time"} => time > 0) /\ (report = "stopped" => time = 0)

\* A thread has such a report to send.
Due(u) == \E t \in Threads : u[t] \in {"started", "time", "stopped"}

SaidInv == \A s \in Stations, t \in Threads : Agree(unsent[s][t], left[s])

\* Of the connection station s has, while the master has its end.
ShowInv ==
  /\ SaidInv
  /\ \A s \in Stations : sock[s] # NoConn /\ "master" \in conn[sock[s]].ends =>
       /\ Due(unsent[s]) \/ Tells(conn[sock[s]].up, left[s], sock[s] \in misled)
       /\ \A i \in DOMAIN rows : rows[i].conn = sock[s] =>
            Shows(rows[i], conn[sock[s]].up, left[s], sock[s] \in misled \/ Due(unsent[s]))

LEMMA ShowNext ==
  ASSUME SaidInv',
         \A s \in Stations : sock'[s] # NoConn /\ "master" \in conn'[sock'[s]].ends =>
           /\ Due(unsent'[s]) \/ Tells(conn'[sock'[s]].up, left'[s], sock'[s] \in misled')
           /\ \A i \in DOMAIN rows' : rows'[i].conn = sock'[s] =>
                Shows(rows'[i], conn'[sock'[s]].up, left'[s], sock'[s] \in misled' \/ Due(unsent'[s]))
  PROVE  ShowInv'
BY DEF ShowInv

LEMMA SaidKept ==
  ASSUME SaidInv, UNCHANGED left, \A s \in Stations : unsent'[s] \in {unsent[s], Silent}
  PROVE  SaidInv'
<1>1. \A s \in Stations, t \in Threads : unsent'[s][t] \in {unsent[s][t], "none"}
  BY DEF Silent
<1> QED BY <1>1 DEF SaidInv, Agree

\* No report comes or is read, and no row is shown in another way.
LEMMA StaysShown ==
  ASSUME LinksInv, ShowInv, UNCHANGED left,
         \A s \in Stations : unsent'[s] \in {unsent[s], Silent},
         \A s \in Stations : sock'[s] # NoConn /\ "master" \in conn'[sock'[s]].ends =>
           /\ sock'[s] = sock[s] /\ "master" \in conn[sock[s]].ends
           /\ conn'[sock[s]].up = conn[sock[s]].up /\ unsent'[s] = unsent[s]
           /\ sock[s] \in misled' <=> sock[s] \in misled,
         \A k \in DOMAIN rows' : rows'[k].conn # NoConn =>
           \E i \in DOMAIN rows : rows'[k].conn = rows[i].conn /\ rows'[k].active = rows[i].active
  PROVE  ShowInv'
<1>1. ASSUME NEW s \in Stations, sock'[s] # NoConn, "master" \in conn'[sock'[s]].ends
      PROVE  /\ Due(unsent'[s]) \/ Tells(conn'[sock'[s]].up, left'[s], sock'[s] \in misled')
             /\ \A i \in DOMAIN rows' : rows'[i].conn = sock'[s] =>
                  Shows(rows'[i], conn'[sock'[s]].up, left'[s], sock'[s] \in misled' \/ Due(unsent'[s]))
  <2>1. /\ Due(unsent[s]) \/ Tells(conn[sock[s]].up, left[s], sock[s] \in misled)
        /\ \A i \in DOMAIN rows : rows[i].conn = sock[s] =>
             Shows(rows[i], conn[sock[s]].up, left[s], sock[s] \in misled \/ Due(unsent[s]))
    BY <1>1 DEF ShowInv
  <2>2. Due(unsent'[s]) \/ Tells(conn'[sock'[s]].up, left'[s], sock'[s] \in misled')
    BY <1>1, <2>1 DEF Tells
  <2>3. ASSUME NEW k \in DOMAIN rows', rows'[k].conn = sock'[s]
        PROVE  Shows(rows'[k], conn'[sock'[s]].up, left'[s], sock'[s] \in misled' \/ Due(unsent'[s]))
    <3>1. PICK i \in DOMAIN rows : rows'[k].conn = rows[i].conn /\ rows'[k].active = rows[i].active
      BY <1>1, <2>3
    <3>2. Shows(rows[i], conn[sock[s]].up, left[s], sock[s] \in misled \/ Due(unsent[s]))
      BY <1>1, <2>1, <2>3, <3>1
    <3> QED BY <1>1, <3>1, <3>2 DEF Shows
  <2> QED BY <2>2, <2>3
<1>2. SaidInv'
  BY SaidKept DEF ShowInv
<1> QED BY <1>1, <1>2, ShowNext

LEMMA ConnectShows ==
  ASSUME LinksInv, ShowInv, NEW s \in Stations, NEW c \in Conns, ConnectToMaster(s, c)
  PROVE  ShowInv'
<1> USE DEF LinksInv
<1> DEFINE new == [of |-> s, ends |-> {"station", "master"}, up |-> <<"name">>, down |-> <<>>, at |-> "none"]
<1>1. /\ conn'[c] = new /\ \A d \in Conns \ {c} : conn'[d] = conn[d]
      /\ conn[c] = Fresh /\ sock' = [sock EXCEPT ![s] = c]
      /\ misled' = IF left[s] > 0 THEN misled \cup {c} ELSE misled \ {c}
      /\ UNCHANGED <<rows, left, unsent>>
  BY ConnectTypes DEF ConnectToMaster, desk
<1>2. new.up = <<"name">>
  OBVIOUS
<1> HIDE DEF new
<1>3. \A i \in DOMAIN rows : rows[i].conn # c
  BY <1>1, VenueAssumption, FreshIs DEF RowsInv
<1>4. left[s] \in Nat /\ left \in [Stations -> 0 .. MaxLeft] /\ sock \in [Stations -> Conns \cup {NoConn}]
  BY TypesAre, VenueAssumption
<1>5. ASSUME NEW t \in Stations, sock'[t] # NoConn, "master" \in conn'[sock'[t]].ends
      PROVE  /\ Due(unsent'[t]) \/ Tells(conn'[sock'[t]].up, left'[t], sock'[t] \in misled')
             /\ \A i \in DOMAIN rows' : rows'[i].conn = sock'[t] =>
                  Shows(rows'[i], conn'[sock'[t]].up, left'[t], sock'[t] \in misled' \/ Due(unsent'[t]))
  <2>1. CASE t = s
    <3>1. sock'[t] = c /\ conn'[c].up = <<"name">>
      BY <1>1, <1>2, <1>4, <2>1
    <3>2. Len(<<"name">>) = 1 /\ <<"name">>[1] = "name"
      OBVIOUS
    <3>3. left[s] = 0 \/ c \in misled'
      BY <1>1, <1>4
    <3>4. Tells(conn'[c].up, left'[t], c \in misled')
      BY <1>1, <2>1, <3>1, <3>2, <3>3 DEF Tells
    <3> QED BY <1>1, <1>3, <3>1, <3>4
  <2>2. CASE t # s
    <3>1. sock'[t] = sock[t] /\ sock[t] \in Conns
      BY <1>1, <1>4, <1>5, <2>2
    <3>2. sock[t] # c
      BY <1>1, <1>5, <3>1, FreshIs DEF SocksInv
    <3>3. (sock[t] \in misled' <=> sock[t] \in misled) /\ conn'[sock[t]] = conn[sock[t]]
      BY <1>1, <3>1, <3>2
    <3>4. /\ Due(unsent[t]) \/ Tells(conn[sock[t]].up, left[t], sock[t] \in misled)
          /\ \A i \in DOMAIN rows : rows[i].conn = sock[t] =>
               Shows(rows[i], conn[sock[t]].up, left[t], sock[t] \in misled \/ Due(unsent[t]))
      BY <1>5, <3>1, <3>3 DEF ShowInv
    <3> QED BY <1>1, <3>1, <3>3, <3>4 DEF Tells, Shows
  <2> QED BY <2>1, <2>2
<1>6. SaidInv'
  BY <1>1, SaidKept DEF ShowInv
<1> QED BY <1>5, <1>6, ShowNext

LEMMA ReportShows ==
  ASSUME LinksInv, ShowInv, NEW s \in Stations, ParseCommand(s) \/ StartSession(s) \/ Tick(s)
  PROVE  ShowInv'
<1> USE DEF LinksInv
<1>1. PICK t \in Threads, time \in 0 .. MaxLeft, report \in {"started", "time", "stopped", "none"} :
        Sets(s, t, time, report) /\ Told(report, time) /\ (report = "none" => time = left[s])
  BY SomeSets
<1>2. /\ left'[s] = time /\ unsent'[s][t] = report /\ unsent[s][t] = "none"
      /\ \A r \in Stations \ {s} : left'[r] = left[r] /\ unsent'[r] = unsent[r]
      /\ \A u \in Threads \ {t} :
           unsent'[s][u] = IF (left[s] > 0) # (time > 0) THEN Crossed(unsent[s][u]) ELSE unsent[s][u]
  <2>1. unsent[s][t] = "none"
    BY <1>1 DEF Sets
  <2> QED BY <1>1, <2>1, SetsIs
<1>3. SameLines /\ UNCHANGED <<rows, sock, misled>>
  BY ReportTypes
<1>4. left[s] \in Nat /\ time \in Nat /\ sock \in [Stations -> Conns \cup {NoConn}]
      /\ \A u \in Threads : unsent[s][u] \in (Reports \ {"name"}) \cup {"none"}
  BY TypesAre, VenueAssumption DEF Unsent
<1>5. SaidInv'
  <2>1. ASSUME NEW u \in Threads
        PROVE  Agree(unsent'[s][u], time)
    <3>1. CASE u = t
      BY <1>1, <1>2, <3>1 DEF Told, Agree
    <3>2. CASE u # t /\ (left[s] > 0) # (time > 0)
      <4>1. unsent'[s][u] \in {"late", "stale", "none"}
        BY <1>2, <1>4, <3>2, CrossedIs
      <4> QED BY <4>1 DEF Agree
    <3>3. CASE u # t /\ (left[s] > 0) = (time > 0)
      <4>1. unsent'[s][u] = unsent[s][u] /\ Agree(unsent[s][u], left[s])
        BY <1>2, <3>3 DEF ShowInv, SaidInv
      <4>2. left[s] > 0 <=> time > 0
        BY <1>4, <3>3
      <4>3. (left[s] = 0 => ~ left[s] > 0) /\ (~ time > 0 => time = 0)
        BY <1>4
      <4> QED BY <4>1, <4>2, <4>3 DEF Agree
    <3> QED BY <3>1, <3>2, <3>3
  <2>2. ASSUME NEW r \in Stations, NEW u \in Threads
        PROVE  Agree(unsent'[r][u], left'[r])
    <3>1. CASE r = s
      BY <1>2, <2>1, <3>1
    <3>2. CASE r # s
      BY <1>2, <3>2 DEF ShowInv, SaidInv
    <3> QED BY <3>1, <3>2
  <2> QED BY <2>2 DEF SaidInv
<1>6. ASSUME NEW r \in Stations
      PROVE  Due(unsent'[r]) \/ (left'[r] = left[r] /\ (Due(unsent'[r]) <=> Due(unsent[r])))
  <2>1. CASE r # s
    BY <1>2, <2>1
  <2>2. CASE r = s /\ report # "none"
    BY <1>2, <2>2 DEF Due
  <2>3. CASE r = s /\ report = "none"
    <3>1. time = left[s]
      BY <1>1, <2>3
    <3>2. \A u \in Threads : unsent'[s][u] = unsent[s][u]
      BY <1>2, <2>3, <3>1
    <3> QED BY <1>2, <2>3, <3>1, <3>2 DEF Due
  <2> QED BY <2>1, <2>2, <2>3
<1>7. ASSUME NEW r \in Stations, sock'[r] # NoConn, "master" \in conn'[sock'[r]].ends
      PROVE  /\ Due(unsent'[r]) \/ Tells(conn'[sock'[r]].up, left'[r], sock'[r] \in misled')
             /\ \A i \in DOMAIN rows' : rows'[i].conn = sock'[r] =>
                  Shows(rows'[i], conn'[sock'[r]].up, left'[r], sock'[r] \in misled' \/ Due(unsent'[r]))
  <2>1. /\ sock'[r] = sock[r] /\ sock[r] \in Conns
        /\ conn'[sock[r]].up = conn[sock[r]].up /\ conn'[sock[r]].ends = conn[sock[r]].ends
    BY <1>3, <1>4, <1>7 DEF SameLines
  <2>2. /\ Due(unsent[r]) \/ Tells(conn[sock[r]].up, left[r], sock[r] \in misled)
        /\ \A i \in DOMAIN rows : rows[i].conn = sock[r] =>
             Shows(rows[i], conn[sock[r]].up, left[r], sock[r] \in misled \/ Due(unsent[r]))
    BY <1>7, <2>1 DEF ShowInv
  <2> QED BY <1>3, <1>6, <2>1, <2>2 DEF Shows
<1> QED BY <1>5, <1>7, ShowNext

\* A report that goes out is true, or nothing is said of what it was crossed by.
LEMMA SayShows ==
  ASSUME LinksInv, ShowInv, NEW s \in Stations, NEW t \in Threads, SendToMaster(s, t)
  PROVE  ShowInv'
<1> USE DEF LinksInv
<1> DEFINE report == unsent[s][t]
<1>1. /\ report \in Reports \ {"name"}
      /\ \A d \in Conns : d # sock[s] => conn'[d] = conn[d]
      /\ \A d \in Conns : conn'[d].ends = conn[d].ends
      /\ sock[s] # NoConn =>
           conn'[sock[s]].up = IF "master" \in conn[sock[s]].ends
                               THEN Append(conn[sock[s]].up, report) ELSE conn[sock[s]].up
      /\ \A r \in Stations \ {s} : unsent'[r] = unsent[r]
      /\ unsent'[s][t] = "none" /\ \A u \in Threads \ {t} : unsent'[s][u] = unsent[s][u]
      /\ UNCHANGED <<rows, sock, left, misled>>
  BY SayTypes
<1>2. sock \in [Stations -> Conns \cup {NoConn}]
  BY TypesAre
<1> HIDE DEF report
<1>3. SaidInv'
  <2>1. ASSUME NEW r \in Stations, NEW u \in Threads
        PROVE  unsent'[r][u] \in {unsent[r][u], "none"}
    BY <1>1
  <2> QED BY <1>1, <2>1 DEF ShowInv, SaidInv, Agree
<1>4. ASSUME NEW r \in Stations, sock'[r] # NoConn, "master" \in conn'[sock'[r]].ends
      PROVE  /\ Due(unsent'[r]) \/ Tells(conn'[sock'[r]].up, left'[r], sock'[r] \in misled')
             /\ \A i \in DOMAIN rows' : rows'[i].conn = sock'[r] =>
                  Shows(rows'[i], conn'[sock'[r]].up, left'[r], sock'[r] \in misled' \/ Due(unsent'[r]))
  <2>1. sock'[r] = sock[r] /\ sock[r] \in Conns /\ "master" \in conn[sock[r]].ends
    BY <1>1, <1>2, <1>4
  <2>2. CASE r = s
    <3> DEFINE q == conn[sock[s]].up
               new == Append(q, report)
    <3>1. conn'[sock[r]].up = new
      BY <1>1, <1>4, <2>1, <2>2
    <3>2. q \in Seq(Reports)
      BY <2>1, <2>2, LinesAre
    <3>3. new # <<>> /\ new[Len(new)] = report
      <4> HIDE DEF q
      <4> QED BY <1>1, <3>2, AddedUp
    <3>4. Agree(report, left[s])
      BY DEF ShowInv, SaidInv, report
    <3> HIDE DEF new
    <3>5. Tells(new, left[s], sock[s] \in misled)
      BY <1>1, <3>3, <3>4 DEF Tells, Agree
    <3> QED BY <1>1, <2>1, <2>2, <3>1, <3>3, <3>5 DEF Shows
  <2>3. CASE r # s
    <3>1. sock[r] # sock[s]
      BY <1>4, <2>1, <2>3 DEF SocksInv
    <3>2. conn'[sock[r]] = conn[sock[r]] /\ unsent'[r] = unsent[r]
      BY <1>1, <2>1, <2>3, <3>1
    <3> QED BY <1>1, <1>4, <2>1, <3>2 DEF ShowInv
  <2> QED BY <2>2, <2>3
<1> QED BY <1>3, <1>4, ShowNext

LEMMA GreetShows ==
  ASSUME LinksInv, ShowInv, NEW c \in Conns, Greet(c)
  PROVE  ShowInv'
<1> USE DEF LinksInv
<1> DEFINE s == conn[c].of
           saved == s \in Numbered /\ groups[s] # Unknown
           row == [conn |-> c, active |-> FALSE, name |-> IF saved THEN s ELSE NoName,
                   group |-> IF saved THEN groups[s] ELSE GroupNone]
<1>1. /\ TypeOK' /\ conn[c].at = "greet"
      /\ conn'[c].ends = conn[c].ends /\ conn'[c].up = conn[c].up
      /\ \A d \in Conns \ {c} : conn'[d] = conn[d]
      /\ Len(rows') = Len(rows) + 1 /\ rows'[Len(rows) + 1] = row
      /\ \A i \in DOMAIN rows : rows'[i] = rows[i]
      /\ UNCHANGED <<sock, left, unsent, misled>>
  BY GreetTypes
<1>2. row.conn = c
  OBVIOUS
<1> HIDE DEF row
<1>3. "master" \in conn[c].ends => Pending(c)
  BY <1>1 DEF LinesInv
<1>4. \A i \in DOMAIN rows' : i \in DOMAIN rows \/ i = Len(rows) + 1
  <2>1. rows \in Seq(Row) /\ rows' \in Seq(Row)
    BY <1>1 DEF TypeOK
  <2>2. DOMAIN rows' = 1 .. Len(rows') /\ DOMAIN rows = 1 .. Len(rows) /\ Len(rows) \in Nat
    BY <2>1, RowsAre
  <2> QED BY <1>1, <2>2
<1>5. ASSUME NEW t \in Stations, sock'[t] # NoConn, "master" \in conn'[sock'[t]].ends
      PROVE  /\ Due(unsent'[t]) \/ Tells(conn'[sock'[t]].up, left'[t], sock'[t] \in misled')
             /\ \A i \in DOMAIN rows' : rows'[i].conn = sock'[t] =>
                  Shows(rows'[i], conn'[sock'[t]].up, left'[t], sock'[t] \in misled' \/ Due(unsent'[t]))
  <2>1. /\ sock[t] \in Conns /\ sock'[t] = sock[t]
        /\ conn'[sock[t]].ends = conn[sock[t]].ends /\ conn'[sock[t]].up = conn[sock[t]].up
    BY <1>1, <1>5, TypesAre
  <2>2. /\ Due(unsent[t]) \/ Tells(conn[sock[t]].up, left[t], sock[t] \in misled)
        /\ \A i \in DOMAIN rows : rows[i].conn = sock[t] =>
             Shows(rows[i], conn[sock[t]].up, left[t], sock[t] \in misled \/ Due(unsent[t]))
    BY <1>5, <2>1 DEF ShowInv
  <2>3. ASSUME NEW i \in DOMAIN rows', rows'[i].conn = sock'[t]
        PROVE  Shows(rows'[i], conn'[sock'[t]].up, left'[t], sock'[t] \in misled' \/ Due(unsent'[t]))
    <3>1. CASE i \in DOMAIN rows
      BY <1>1, <2>1, <2>2, <2>3, <3>1
    <3>2. CASE i = Len(rows) + 1
      <4>1. sock[t] = c /\ Pending(c)
        BY <1>1, <1>2, <1>3, <1>5, <2>1, <2>3, <3>2
      <4> QED BY <2>1, <4>1 DEF Shows, Pending
    <3> QED BY <1>4, <3>1, <3>2
  <2> QED BY <1>1, <2>1, <2>2, <2>3
<1>6. SaidInv'
  BY <1>1, SaidKept DEF ShowInv
<1> QED BY <1>5, <1>6, ShowNext

LEMMA LeftEnds ==
  ASSUME TypeOK, NEW d \in Conns, NEW at \in Handlers,
         conn'[d] = With(conn[d], conn[d].ends \ {"master"}, at)
  PROVE  conn'[d].ends = conn[d].ends \ {"master"}
<1> DEFINE ends == conn[d].ends \ {"master"}
<1>1. ends \in Ends /\ conn[d] \in Line /\ conn'[d] = With(conn[d], ends, at)
  BY LinesAre, EndsAre
<1> HIDE DEF ends
<1>2. conn'[d].ends = ends
  BY <1>1, WithIs
<1> QED BY <1>2 DEF ends

LEMMA OneIs ==
  ASSUME NEW S, NEW p \in Seq(S), Len(p) = 1
  PROVE  p = <<p[1]>>
OBVIOUS

LEMMA ReceiveShows ==
  ASSUME LinksInv, ShowInv, NEW c \in Conns, Receive(c)
  PROVE  ShowInv'
<1> USE DEF LinksInv
<1> DEFINE q == conn[c].up
<1>1. /\ conn[c].at = "recv" /\ "master" \in conn[c].ends
      /\ \A d \in Conns \ {c} : conn'[d] = conn[d]
      /\ conn'[c].of = conn[c].of /\ conn'[c].ends = conn[c].ends
      /\ DOMAIN rows' = DOMAIN rows
      /\ \A i \in DOMAIN rows \ RowOf(c) : rows'[i] = rows[i]
      /\ UNCHANGED <<sock, left, unsent>>
  BY ReceiveTypes
<1>2. PICK taken \in 1 .. Len(q) :
        LET segment == SubSeq(q, 1, taken)
        IN  /\ conn'[c].up = SubSeq(q, taken + 1, Len(q))
            /\ \A i \in RowOf(c) : rows'[i] = Reported(rows[i], conn[c].of, segment)
            /\ misled' = IF segment = <<"name">> THEN misled
                         ELSE IF taken > 1 \/ Head(segment) \in {"late", "stale"} THEN misled \cup {c}
                         ELSE misled \ {c}
  BY ReceiveTypes
<1> DEFINE segment == SubSeq(q, 1, taken)
           rest == SubSeq(q, taken + 1, Len(q))
<1>3. q \in Seq(Reports) /\ q # <<>> /\ Len(q) \in Nat /\ taken \in Nat
  <2>1. Len(<<>>) = 0
    BY EmptySeq
  <2> QED BY <2>1, LinesAre, LenProperties
<1>4. /\ segment \in Seq(Reports) /\ Len(segment) = taken /\ Head(segment) = q[1]
      /\ \A k \in 1 .. taken : segment[k] = q[k]
  BY <1>3, SegmentIs
<1>5. /\ rest \in Seq(Reports) /\ Len(rest) = Len(q) - taken
      /\ \A k \in 1 .. Len(rest) : rest[k] = q[k + taken]
  BY <1>3, RestIs
<1>6. /\ conn'[c].up = rest
      /\ \A i \in RowOf(c) : rows'[i] = Reported(rows[i], conn[c].of, segment)
      /\ misled' = IF segment = <<"name">> THEN misled
                   ELSE IF taken > 1 \/ Head(segment) \in {"late", "stale"} THEN misled \cup {c}
                   ELSE misled \ {c}
  BY <1>2
<1>7. \A k \in 1 .. Len(q) : q[k] = "name" => k = 1
  BY DEF LinesInv
<1>8. /\ rest = <<>> <=> taken = Len(q)
      /\ rest # <<>> => rest[Len(rest)] = q[Len(q)] /\ q[Len(q)] # "name"
  <2>1. rest = <<>> <=> Len(rest) = 0
    BY <1>5, EmptySeq
  <2> HIDE DEF q, rest
  <2>2. rest # <<>> => rest[Len(rest)] = q[Len(q)]
    <3>1. rest # <<>> => Len(rest) \in 1 .. Len(rest)
      BY <1>3, <1>5, <2>1
    <3> QED BY <1>3, <1>5, <3>1
  <2>3. rest # <<>> => Len(q) \in 1 .. Len(q) /\ Len(q) # 1
    BY <1>3, <1>5, <2>1
  <2> QED BY <1>3, <1>5, <1>7, <2>1, <2>2, <2>3
<1>9. taken = 1 => segment = <<q[1]>>
  <2> HIDE DEF segment
  <2> QED BY <1>3, <1>4, OneIs
<1> HIDE DEF segment, rest
<1>10. ASSUME NEW t \in Stations, sock'[t] # NoConn, "master" \in conn'[sock'[t]].ends
      PROVE  /\ Due(unsent'[t]) \/ Tells(conn'[sock'[t]].up, left'[t], sock'[t] \in misled')
             /\ \A i \in DOMAIN rows' : rows'[i].conn = sock'[t] =>
                  Shows(rows'[i], conn'[sock'[t]].up, left'[t], sock'[t] \in misled' \/ Due(unsent'[t]))
  <2>1. sock'[t] = sock[t] /\ left'[t] = left[t] /\ sock[t] \in Conns /\ conn[sock[t]].ends = conn'[sock[t]].ends
    BY <1>1, <1>10, TypesAre
  <2>2. /\ Due(unsent[t]) \/ Tells(conn[sock[t]].up, left[t], sock[t] \in misled)
        /\ \A i \in DOMAIN rows : rows[i].conn = sock[t] =>
             Shows(rows[i], conn[sock[t]].up, left[t], sock[t] \in misled \/ Due(unsent[t]))
    BY <1>10, <2>1 DEF ShowInv
  <2>3. \A i \in DOMAIN rows : rows'[i].conn = rows[i].conn /\ (i \notin RowOf(c) => rows'[i] = rows[i])
    BY ReceiveGroups
  <2>4. CASE sock[t] # c
    <3>1. conn'[sock[t]] = conn[sock[t]] /\ (sock[t] \in misled' <=> sock[t] \in misled)
      BY <1>1, <1>6, <2>1, <2>4
    <3>2. \A i \in DOMAIN rows' : rows'[i].conn = sock[t] => i \in DOMAIN rows /\ rows'[i] = rows[i]
      BY <1>1, <2>3, <2>4 DEF RowOf
    <3> QED BY <1>1, <2>1, <2>2, <3>1, <3>2 DEF Tells, Shows
  <2>5. CASE sock[t] = c
    <3>1. Due(unsent[t]) \/ Tells(rest, left[t], c \in misled')
      BY <1>3, <1>8, <2>2, <2>5 DEF Tells
    <3>2. ASSUME NEW i \in DOMAIN rows, rows[i].conn = c
          PROVE  Shows(rows'[i], rest, left[t], c \in misled' \/ Due(unsent[t]))
      <4>1. i \in RowOf(c) /\ rows[i] \in Row /\ conn[c].of \in Stations
        BY <3>2, ConnsOfRows, LinesAre DEF RowOf
      <4> DEFINE new == Reported(rows[i], conn[c].of, segment)
      <4>2. rows'[i] = new
        BY <1>6, <4>1
      <4>3. /\ Head(segment) = "name" => (new.active <=> rows[i].active)
            /\ Head(segment) \in {"started", "time", "late"} => new.active
            /\ Head(segment) = "stopped" /\ Len(segment) = 1 => ~ new.active
        BY <1>4, <4>1, ReportedActive
      <4> HIDE DEF new
      <4>4. CASE rest # <<>>
        BY <1>8, <4>4 DEF Shows
      <4>5. CASE rest = <<>> /\ taken > 1
        <5>1. segment # <<"name">>
          <6>1. Len(<<"name">>) = 1
            OBVIOUS
          <6>2. Len(segment) # 1
            BY <1>4, <4>5
          <6> QED BY <6>1, <6>2
        <5>2. c \in misled'
          BY <1>6, <4>5, <5>1
        <5> QED BY <4>5, <5>2 DEF Shows
      <4>6. CASE Due(unsent[t])
        BY <4>6 DEF Shows
      <4>7. CASE rest = <<>> /\ taken = 1 /\ ~ Due(unsent[t])
        <5>1. Len(q) = 1 /\ segment = <<q[1]>> /\ Head(segment) = q[1] /\ Len(segment) = 1 /\ q[1] \in Reports
          BY <1>3, <1>4, <1>8, <1>9, <4>7
        <5> DEFINE x == q[1]
        <5>2. /\ x \in {"started", "time"} => left[t] > 0
              /\ x = "stopped" => left[t] = 0
              /\ x = "name" => left[t] = 0 \/ c \in misled
              /\ x = "name" => ~ rows[i].active
          <6>1. Tells(q, left[t], c \in misled)
            BY <2>2, <2>5, <4>7
          <6>2. x = "name" => Pending(c)
            BY <1>3 DEF Pending
          <6>3. Pending(c) => ~ rows[i].active
            BY <1>1, <3>2, VenueAssumption DEF RowsInv
          <6> HIDE DEF Pending
          <6> QED BY <1>3, <5>1, <6>1, <6>2, <6>3 DEF Tells
        <5>3. \A y : <<x>> = <<y>> => x = y
          OBVIOUS
        <5>4. x \in Reports /\ segment = <<x>> /\ Head(segment) = x
          BY <5>1
        <5>5. left[t] \in Nat
          BY TypesAre, VenueAssumption
        <5> HIDE DEF x, q
        <5>6. CASE x = "name"
          <6>1. segment = <<"name">>
            BY <5>4, <5>6
          <6>2. misled' = misled
            BY <1>6, <6>1
          <6> QED BY <4>2, <4>3, <4>7, <5>2, <5>4, <5>5, <5>6, <6>2 DEF Shows
        <5>7. CASE x \in {"late", "stale"}
          <6>1. segment # <<"name">>
            BY <5>3, <5>4, <5>7
          <6>2. c \in misled'
            BY <1>6, <5>4, <5>7, <6>1
          <6> QED BY <4>7, <6>2 DEF Shows
        <5>8. CASE x \in {"started", "time"}
          BY <4>2, <4>3, <4>7, <5>2, <5>4, <5>8 DEF Shows
        <5>9. CASE x = "stopped"
          BY <4>2, <4>3, <4>7, <5>1, <5>2, <5>4, <5>5, <5>9 DEF Shows
        <5> QED BY <5>4, <5>6, <5>7, <5>8, <5>9 DEF Reports
      <4> QED BY <1>3, <4>4, <4>5, <4>6, <4>7
    <3>3. \A i \in DOMAIN rows' : rows'[i].conn = c => i \in DOMAIN rows /\ rows[i].conn = c
      BY <1>1, <2>3
    <3> QED BY <1>1, <1>6, <2>1, <2>5, <3>1, <3>2, <3>3
  <2> QED BY <2>4, <2>5
<1>11. SaidInv'
  BY <1>1, SaidKept DEF ShowInv
<1> QED BY <1>10, <1>11, ShowNext

\* Connections that are left as they are, or lose an end.
LEMMA HangsShows ==
  ASSUME LinksInv, ShowInv, NEW s \in Stations, LinkLost(s) \/ StationRestarts(s)
  PROVE  ShowInv'
<1> USE DEF LinksInv
<1>1. /\ \A d \in Conns \ {sock[s]} : conn'[d] = conn[d] /\ sock[s] \in Conns
      /\ sock' = [sock EXCEPT ![s] = NoConn]
      /\ \A t \in Stations : unsent'[t] = unsent[t] \/ (t = s /\ unsent'[t] = Silent)
      /\ UNCHANGED <<rows, left, misled>>
  <2>1. unsent \in Unsent
    BY TypesAre
  <2> QED BY <2>1, HangsTypes DEF Unsent
<1>2. ASSUME NEW t \in Stations, sock'[t] # NoConn
      PROVE  sock'[t] = sock[t] /\ conn'[sock[t]] = conn[sock[t]] /\ unsent'[t] = unsent[t]
  <2>1. t # s /\ sock'[t] = sock[t] /\ sock[t] \in Conns
    BY <1>1, <1>2, TypesAre
  <2>2. sock[t] # sock[s]
    BY <1>2, <2>1 DEF SocksInv
  <2> QED BY <1>1, <2>1, <2>2
<1> QED BY <1>1, <1>2, StaysShown

\* Steps of the window, and those of a handler that read nothing.
LEMMA SameShows ==
  ASSUME LinksInv, ShowInv, UNCHANGED <<sock, left, unsent, misled>>,
         \A d \in Conns : conn'[d].up = conn[d].up /\ conn'[d].ends \subseteq conn[d].ends,
         \A k \in DOMAIN rows' : rows'[k].conn # NoConn =>
           \E i \in DOMAIN rows : rows'[k].conn = rows[i].conn /\ rows'[k].active = rows[i].active
  PROVE  ShowInv'
<1>1. \A t \in Stations : sock[t] # NoConn => sock[t] \in Conns
  BY TypesAre DEF LinksInv
<1> QED BY <1>1, StaysShown

\* Steps that take the master's end away or leave a connection alone.
LEMMA ShutShows ==
  ASSUME LinksInv, ShowInv, UNCHANGED <<sock, left, unsent>>,
         \A d \in Conns : \/ "master" \notin conn'[d].ends
                          \/ conn'[d] = conn[d] /\ (d \in misled' <=> d \in misled),
         \A k \in DOMAIN rows' : rows'[k].conn # NoConn =>
           \E i \in DOMAIN rows : rows'[k].conn = rows[i].conn /\ rows'[k].active = rows[i].active
  PROVE  ShowInv'
<1>1. \A t \in Stations : sock[t] # NoConn => sock[t] \in Conns
  BY TypesAre DEF LinksInv
<1> QED BY <1>1, StaysShown

LEMMA HandlerShows ==
  ASSUME LinksInv, ShowInv, NEW c \in Conns,
         Accept(c) \/ AddStationRow(c) \/ AcceptFails(c) \/ ClientGone(c) \/ RemoveStationRow(c)
  PROVE  ShowInv'
<1> USE DEF LinksInv
<1>1. CASE Accept(c) \/ AddStationRow(c)
  <2>1. \A d \in Conns : conn'[d].up = conn[d].up /\ conn'[d].ends = conn[d].ends
    <3>1. (\E at \in Handlers : conn' = [conn EXCEPT ![c].at = at])
      BY <1>1, HandlersAre DEF Accept, AddStationRow
    <3> QED BY <3>1, AtIs
  <2>2. UNCHANGED <<rows, sock, left, unsent, misled>>
    BY <1>1 DEF Accept, AddStationRow, desk, stations, history
  <2> QED BY <2>1, <2>2, SameShows
<1>2. CASE AcceptFails(c)
  <2>1. ASSUME NEW d \in Conns
        PROVE  "master" \notin conn'[d].ends \/ conn'[d] = conn[d]
    <3>1. CASE conn[d].at = "none"
      <4>1. conn'[d] = With(conn[d], conn[d].ends \ {"master"}, "none")
        BY <1>2, <3>1, AcceptFailsTypes
      <4>2. conn'[d].ends = conn[d].ends \ {"master"}
        BY <4>1, LeftEnds, HandlersAre
      <4> QED BY <4>2
    <3>2. CASE conn[d].at # "none"
      BY <1>2, <3>2, AcceptFailsTypes
    <3> QED BY <3>1, <3>2
  <2>2. UNCHANGED <<rows, sock, left, unsent, misled>>
    BY <1>2 DEF AcceptFails, stations, history
  <2> QED BY <2>1, <2>2, ShutShows
<1>3. CASE Removes(c)
  <2>1. /\ \A d \in Conns \ {c} : conn'[d] = conn[d]
        /\ conn'[c] = With(conn[c], conn[c].ends \ {"master"}, "none")
        /\ rows' = Without(c) /\ misled' = misled \ {c} /\ UNCHANGED <<sock, left, unsent>>
    BY <1>3 DEF Removes
  <2>2. "master" \notin conn'[c].ends
    <3>1. conn'[c].ends = conn[c].ends \ {"master"}
      BY <2>1, LeftEnds, HandlersAre
    <3> QED BY <3>1
  <2>3. \A k \in DOMAIN rows' : \E i \in DOMAIN rows : rows'[k] = rows[i]
    BY <2>1, RowsLeft
  <2> QED BY <2>1, <2>2, <2>3, ShutShows
<1>4. CASE Remembers(c)
  <2>1. \A d \in Conns : conn'[d].up = conn[d].up /\ conn'[d].ends = conn[d].ends
    BY <1>4 DEF Remembers
  <2>2. UNCHANGED <<rows, sock, left, unsent, misled>>
    BY <1>4 DEF Remembers
  <2> QED BY <2>1, <2>2, SameShows
<1> QED BY <1>1, <1>2, <1>3, <1>4, GoneTypes

LEMMA WindowShows ==
  ASSUME LinksInv, ShowInv,
         \/ \E cmd \in Commands, selected \in SUBSET DOMAIN rows : BeginCommand(cmd, selected)
         \/ NextGroup \/ Send \/ SendAfterNap \/ LogSent \/ SaveStationGroups
         \/ StartServer \/ MasterStarts
  PROVE  ShowInv'
<1> USE DEF LinksInv
<1>1. SameLines /\ UNCHANGED <<rows, sock, left, unsent, misled>>
  <2>1. CASE \E cmd \in Commands, selected \in SUBSET DOMAIN rows : BeginCommand(cmd, selected)
    BY <2>1, BeginTypes, SameConn
  <2>2. CASE NextGroup
    BY <2>2, NextGroupTypes, SameConn
  <2>3. CASE Send
    BY <2>3, SendTypes
  <2>4. CASE SendAfterNap
    BY <2>4, NapTypes
  <2>5. CASE LogSent
    BY <2>5, LogTypes, SameConn
  <2>6. CASE SaveStationGroups
    BY <2>6, SaveTypes, SameConn
  <2>7. CASE StartServer \/ MasterStarts
    BY <2>7, SameConn DEF StartServer, MasterStarts, stations, history
  <2> QED BY <2>1, <2>2, <2>3, <2>4, <2>5, <2>6, <2>7
<1> QED BY <1>1, SameShows DEF SameLines

LEMMA FailsShows ==
  ASSUME LinksInv, ShowInv, SendFails
  PROVE  ShowInv'
<1> USE DEF LinksInv
<1>1. PICK i \in DOMAIN rows : Failed(i)
  BY FailsTypes
<1> DEFINE c == rows[i].conn
<1>2. /\ \A d \in Conns \ {c} : conn'[d] = conn[d]
      /\ conn'[c].ends = {} /\ conn'[c].up = conn[c].up
      /\ DOMAIN rows' = DOMAIN rows
      /\ \A j \in DOMAIN rows \ {i} : rows'[j] = rows[j]
      /\ rows'[i].conn = NoConn
      /\ UNCHANGED <<sock, left, unsent, misled>>
  BY <1>1 DEF Failed
<1>3. \A d \in Conns : conn'[d].up = conn[d].up /\ conn'[d].ends \subseteq conn[d].ends
  BY <1>2
<1> HIDE DEF c
<1> QED BY <1>2, <1>3, SameShows

LEMMA RegroupShows ==
  ASSUME LinksInv, ShowInv, NEW selected \in SUBSET DOMAIN rows, NEW g \in Groups \cup {GroupNone},
         Regroup(selected, g)
  PROVE  ShowInv'
<1> USE DEF LinksInv
<1>1. /\ DOMAIN rows' = DOMAIN rows
      /\ \A i \in DOMAIN rows : rows'[i].conn = rows[i].conn /\ rows'[i].active = rows[i].active
  BY RegroupTypes
<1>2. UNCHANGED <<conn, sock, left, unsent, misled>>
  BY DEF Regroup, stations
<1> QED BY <1>1, <1>2, SameShows

LEMMA StopShows ==
  ASSUME LinksInv, ShowInv, StopServer \/ MasterEnds
  PROVE  ShowInv'
<1> USE DEF LinksInv
<1>1. rows' = <<>> /\ UNCHANGED <<sock, left, unsent>>
  BY StopTypes, EndsTypes
<1>2. ASSUME NEW d \in Conns
      PROVE  "master" \notin conn'[d].ends \/ (conn'[d] = conn[d] /\ (d \in misled' <=> d \in misled))
  <2>1. ASSUME NEW at \in Handlers, conn'[d] = With(conn[d], conn[d].ends \ {"master"}, at)
        PROVE  "master" \notin conn'[d].ends
    <3>1. conn'[d].ends = conn[d].ends \ {"master"}
      BY <2>1, LeftEnds
    <3> QED BY <3>1
  <2>2. CASE StopServer
    BY <2>1, <2>2, StopTypes, LinesAre
  <2>3. CASE MasterEnds
    BY <2>1, <2>3, EndsTypes, HandlersAre
  <2> QED BY <2>2, <2>3
<1>3. DOMAIN rows' = {}
  BY <1>1
<1> QED BY <1>1, <1>2, <1>3, ShutShows
-----------------------------------------------------------------------------
(* The groups staff gave. *)

\* What the master remembers of station s agrees with what staff last chose.
Right(s) == groups[s] = wish[s] \/ (groups[s] = Unknown /\ wish[s] = GroupNone)

\* Of a station that is not forgotten: its rows are in its group; it is
\* remembered, unless a connected row has it, and once its row is being removed;
\* a row still to be named will get it; and while nothing is to be saved, or the master is down, the file has it.
GroupInv ==
  \A s \in Stations \ forgotten :
    /\ \A i \in DOMAIN rows : rows[i].name = s => rows[i].group = wish[s]
    /\ server # "down" =>
         Right(s) \/ \E i \in DOMAIN rows : rows[i].conn # NoConn /\ rows[i].name = s
    /\ \A i \in DOMAIN rows :
         rows[i].conn # NoConn /\ conn[rows[i].conn].of = s /\ Pending(rows[i].conn) =>
           Right(s) /\ (rows[i].name = NoName => rows[i].group = GroupNone)
    /\ \A i \in DOMAIN rows :
         rows[i].conn # NoConn /\ rows[i].name = s /\ conn[rows[i].conn].at = "gone" => Right(s)
    /\ s \notin Numbered /\ ui.at # "save" /\ (\E i \in DOMAIN rows : rows[i].name = s) =>
         file[s] = wish[s]
    /\ server = "down" => file[s] = wish[s]

\* Right in the next state.
Agrees(s) == groups'[s] = wish'[s] \/ (groups'[s] = Unknown /\ wish'[s] = GroupNone)

LEMMA GroupNext ==
  ASSUME \A s \in Stations \ forgotten' :
           /\ \A i \in DOMAIN rows' : rows'[i].name = s => rows'[i].group = wish'[s]
           /\ server' # "down" =>
                Agrees(s) \/ \E i \in DOMAIN rows' : rows'[i].conn # NoConn /\ rows'[i].name = s
           /\ \A i \in DOMAIN rows' :
                rows'[i].conn # NoConn /\ conn'[rows'[i].conn].of = s /\ Waits(rows'[i].conn) =>
                  Agrees(s) /\ (rows'[i].name = NoName => rows'[i].group = GroupNone)
           /\ \A i \in DOMAIN rows' :
                rows'[i].conn # NoConn /\ rows'[i].name = s /\ conn'[rows'[i].conn].at = "gone" => Agrees(s)
           /\ s \notin Numbered /\ ui'.at # "save" /\ (\E i \in DOMAIN rows' : rows'[i].name = s) =>
                file'[s] = wish'[s]
           /\ server' = "down" => file'[s] = wish'[s]
  PROVE  GroupInv'
BY DEF GroupInv, Right, Agrees, Pending, Waits

\* A saved list has the group of the rows that agree.
LEMMA SavedGroup ==
  ASSUME NEW list \in Seq(Row), NEW s \in Stations, NEW g,
         \A i \in DOMAIN list : list[i].name = s => list[i].group = g,
         \E i \in DOMAIN list : list[i].name = s
  PROVE  Saved(list)[s] = g
BY SavedIs

\* The connection of a live row is in use, and a row with a name is its
\* station's.
LEMMA LiveRows ==
  ASSUME LinksInv, NEW i \in DOMAIN rows, rows[i].conn # NoConn
  PROVE  /\ rows[i].conn \in Conns /\ Uses(rows[i].conn, conn[rows[i].conn].of)
         /\ \A s \in Stations : rows[i].name = s => conn[rows[i].conn].of = s
<1>1. /\ rows[i].conn \in Conns /\ conn[rows[i].conn].at # "none"
      /\ rows[i].name \in {NoName, conn[rows[i].conn].of}
  BY ConnsOfRows DEF LinksInv, RowsInv
<1>2. \A s \in Stations : s # NoName
  BY VenueAssumption
<1> QED BY <1>1, <1>2, FreshIs DEF Uses

LEMMA QuietGroups ==
  ASSUME LinksInv, GroupInv, Quiet, UNCHANGED <<rows, groups, file, wish, forgotten>>,
         server' = "down" <=> server = "down", ui.at = "save" => ui'.at = "save"
  PROVE  GroupInv'
<1>1. \A c \in Conns : conn[c].at \in {"list", "stuck", "recv", "gone"} =>
        conn'[c].of = conn[c].of /\ (Waits(c) => Pending(c)) /\ (conn'[c].at = "gone" => conn[c].at = "gone")
  BY DEF Quiet, Pending, Waits
<1>2. \A i \in DOMAIN rows : rows[i].conn # NoConn =>
        rows[i].conn \in Conns /\ conn[rows[i].conn].at \in {"list", "stuck", "recv", "gone"}
  BY ConnsOfRows DEF RowsInv, LinksInv
<1>3. \A s \in Stations : Right(s) => Agrees(s)
  BY DEF Right, Agrees
<1> QED BY <1>1, <1>2, <1>3, GroupNext DEF GroupInv

LEMMA GreetGroups ==
  ASSUME LinksInv, GroupInv, NEW c \in Conns, Greet(c)
  PROVE  GroupInv'
<1> USE DEF LinksInv
<1> DEFINE n == conn[c].of
           saved == n \in Numbered /\ groups[n] # Unknown
           row == [conn |-> c, active |-> FALSE, name |-> IF saved THEN n ELSE NoName,
                   group |-> IF saved THEN groups[n] ELSE GroupNone]
<1>1. /\ TypeOK' /\ conn[c].at = "greet"
      /\ conn'[c].of = n /\ conn'[c].up = conn[c].up /\ conn'[c].at \in {"list", "stuck"}
      /\ \A d \in Conns \ {c} : conn'[d] = conn[d]
      /\ Len(rows') = Len(rows) + 1 /\ rows'[Len(rows) + 1] = row
      /\ \A i \in DOMAIN rows : rows'[i] = rows[i]
      /\ forgotten' = IF \E d \in Conns \ {c} : Uses(d, n) THEN forgotten \cup {n} ELSE forgotten
      /\ UNCHANGED <<server, groups, file, ui, wish>>
  BY GreetTypes
<1>2. /\ row.conn = c
      /\ \/ row.name = NoName /\ row.group = GroupNone
         \/ row.name = n /\ row.group = groups[n] /\ n \in Numbered /\ groups[n] # Unknown
  OBVIOUS
<1> HIDE DEF row, saved, n
<1>3. /\ DOMAIN rows \subseteq DOMAIN rows'
      /\ \A i \in DOMAIN rows' : i \in DOMAIN rows \/ i = Len(rows) + 1
  <2>1. rows \in Seq(Row) /\ rows' \in Seq(Row)
    BY <1>1 DEF TypeOK
  <2>2. DOMAIN rows' = 1 .. Len(rows') /\ DOMAIN rows = 1 .. Len(rows) /\ Len(rows) \in Nat
    BY <2>1, RowsAre
  <2> QED BY <1>1, <2>2
<1>4. server # "down"
  BY <1>1 DEF OverInv
<1>5. \A d \in Conns : conn'[d].of = conn[d].of /\ conn'[d].up = conn[d].up
                       /\ (conn'[d].at = "gone" => conn[d].at = "gone")
  BY <1>1 DEF n
<1>6. n \in Stations
  BY LinesAre DEF n
<1>7. n \notin forgotten' => Right(n)
  <2> SUFFICES ASSUME n \notin forgotten'
               PROVE  Right(n)
    OBVIOUS
  <2>1. n \notin forgotten /\ ~ \E d \in Conns \ {c} : Uses(d, n)
    BY <1>1, <1>6
  <2>2. ASSUME NEW i \in DOMAIN rows, rows[i].conn # NoConn, rows[i].name = n
        PROVE  FALSE
    <3>1. rows[i].conn \in Conns /\ Uses(rows[i].conn, n)
      BY <1>6, <2>2, LiveRows
    <3>2. rows[i].conn # c
      BY <1>1, <2>2 DEF RowsInv
    <3> QED BY <2>1, <3>1, <3>2
  <2> QED BY <1>4, <1>6, <2>1, <2>2 DEF GroupInv
<1>8. \A i \in DOMAIN rows : rows[i].conn # NoConn => rows[i].conn \in Conns
  BY ConnsOfRows
<1>9. ASSUME NEW s \in Stations \ forgotten'
      PROVE  /\ \A i \in DOMAIN rows' : rows'[i].name = s => rows'[i].group = wish'[s]
             /\ server' # "down" =>
                  Agrees(s) \/ \E i \in DOMAIN rows' : rows'[i].conn # NoConn /\ rows'[i].name = s
             /\ \A i \in DOMAIN rows' :
                  rows'[i].conn # NoConn /\ conn'[rows'[i].conn].of = s /\ Waits(rows'[i].conn) =>
                    Agrees(s) /\ (rows'[i].name = NoName => rows'[i].group = GroupNone)
             /\ \A i \in DOMAIN rows' :
                  rows'[i].conn # NoConn /\ rows'[i].name = s /\ conn'[rows'[i].conn].at = "gone" => Agrees(s)
             /\ s \notin Numbered /\ ui'.at # "save" /\ (\E i \in DOMAIN rows' : rows'[i].name = s) =>
                  file'[s] = wish'[s]
             /\ server' = "down" => file'[s] = wish'[s]
  <2>1. s \notin forgotten
    BY <1>1, <1>9
  <2>2. /\ \A i \in DOMAIN rows : rows[i].name = s => rows[i].group = wish[s]
        /\ Right(s) \/ \E i \in DOMAIN rows : rows[i].conn # NoConn /\ rows[i].name = s
        /\ \A i \in DOMAIN rows :
             rows[i].conn # NoConn /\ conn[rows[i].conn].of = s /\ Pending(rows[i].conn) =>
               Right(s) /\ (rows[i].name = NoName => rows[i].group = GroupNone)
        /\ \A i \in DOMAIN rows :
             rows[i].conn # NoConn /\ rows[i].name = s /\ conn[rows[i].conn].at = "gone" => Right(s)
        /\ s \notin Numbered /\ ui.at # "save" /\ (\E i \in DOMAIN rows : rows[i].name = s) =>
             file[s] = wish[s]
    BY <1>4, <2>1 DEF GroupInv
  <2>3. Right(s) => Agrees(s)
    BY <1>1 DEF Right, Agrees
  <2>4. s # NoName
    BY VenueAssumption
  <2>5. \A i \in DOMAIN rows' : rows'[i].name = s => rows'[i].group = wish'[s]
    <3>1. row.name = s => row.group = wish[s]
      BY <1>2, <1>7, <2>4, <1>9 DEF Right
    <3> QED BY <1>1, <1>3, <2>2, <3>1
  <2>6. Agrees(s) \/ \E i \in DOMAIN rows' : rows'[i].conn # NoConn /\ rows'[i].name = s
    BY <1>1, <1>3, <2>2, <2>3
  <2>7. ASSUME NEW i \in DOMAIN rows', rows'[i].conn # NoConn, conn'[rows'[i].conn].of = s, Waits(rows'[i].conn)
        PROVE  Agrees(s) /\ (rows'[i].name = NoName => rows'[i].group = GroupNone)
    <3>1. CASE i \in DOMAIN rows
      BY <1>1, <1>5, <1>8, <2>2, <2>3, <2>7, <3>1 DEF Waits, Pending
    <3>2. CASE i = Len(rows) + 1
      <4>1. s = n
        BY <1>1, <1>2, <2>7, <3>2
      <4>2. rows'[i].name = NoName => rows'[i].group = GroupNone
        BY <1>1, <1>2, <1>6, <3>2, VenueAssumption
      <4> QED BY <1>7, <1>9, <2>3, <4>1, <4>2
    <3> QED BY <1>3, <3>1, <3>2
  <2>8. ASSUME s \notin Numbered, ui'.at # "save", NEW i \in DOMAIN rows', rows'[i].name = s
        PROVE  file'[s] = wish'[s]
    <3>1. i \in DOMAIN rows /\ rows[i].name = s
      BY <1>1, <1>2, <1>3, <2>4, <2>8
    <3> QED BY <1>1, <2>2, <2>8, <3>1
  <2>9. ASSUME NEW i \in DOMAIN rows', rows'[i].conn # NoConn, rows'[i].name = s, conn'[rows'[i].conn].at = "gone"
        PROVE  Agrees(s)
    <3>1. i \in DOMAIN rows
      BY <1>1, <1>2, <1>3, <2>9
    <3> QED BY <1>1, <1>5, <1>8, <2>2, <2>3, <2>9, <3>1
  <2> QED BY <1>1, <1>4, <2>5, <2>6, <2>7, <2>8, <2>9
<1> QED BY <1>9, GroupNext

LEMMA ReceiveKeeps ==
  ASSUME LinksInv, GroupInv, NEW c \in Conns, Receive(c)
  PROVE  GroupInv'
<1> USE DEF LinksInv
<1>1. /\ TypeOK' /\ conn[c].at = "recv"
      /\ \A d \in Conns \ {c} : conn'[d] = conn[d]
      /\ conn'[c].of = conn[c].of /\ conn'[c].at = conn[c].at
      /\ rows' \in Seq(Row) /\ DOMAIN rows' = DOMAIN rows
      /\ \/ file' = Saved(rows') /\ forgotten' = forgotten
         \/ forgotten' = Stations
         \/ /\ \A i \in RowOf(c) : rows'[i].name = rows[i].name
            /\ file' = file /\ forgotten' = forgotten
      /\ UNCHANGED <<server, groups, ui, wish>>
  BY ReceiveTypes
<1>2. ~ Waits(c)
  <2>1. ~ Pending(c)'
    BY ReceiveLinks
  <2> QED BY <2>1 DEF Waits, Pending
<1>3. \A i \in DOMAIN rows :
        /\ rows'[i].conn = rows[i].conn
        /\ i \notin RowOf(c) => rows'[i] = rows[i]
        /\ i \in RowOf(c) =>
             \/ /\ rows'[i].group = rows[i].group
                /\ rows'[i].name = rows[i].name /\ ~ Pending(c)
             \/ /\ rows'[i].group = rows[i].group
                /\ rows'[i].name = NoName /\ Pending(c)
             \/ /\ rows'[i].group = IF groups[conn[c].of] = Unknown THEN rows[i].group ELSE groups[conn[c].of]
                /\ rows'[i].name = conn[c].of /\ Pending(c)
  BY ReceiveGroups
<1>4. server # "down"
  BY <1>1 DEF OverInv
<1>5. \A i \in DOMAIN rows : rows[i].conn # NoConn => rows[i].conn \in Conns
  BY ConnsOfRows
<1>6. \A i \in RowOf(c) : i \in DOMAIN rows /\ rows[i].conn = c /\ c # NoConn
  BY VenueAssumption DEF RowOf
<1>7. ASSUME NEW s \in Stations \ forgotten'
      PROVE  /\ \A i \in DOMAIN rows' : rows'[i].name = s => rows'[i].group = wish'[s]
             /\ server' # "down" =>
                  Agrees(s) \/ \E i \in DOMAIN rows' : rows'[i].conn # NoConn /\ rows'[i].name = s
             /\ \A i \in DOMAIN rows' :
                  rows'[i].conn # NoConn /\ conn'[rows'[i].conn].of = s /\ Waits(rows'[i].conn) =>
                    Agrees(s) /\ (rows'[i].name = NoName => rows'[i].group = GroupNone)
             /\ \A i \in DOMAIN rows' :
                  rows'[i].conn # NoConn /\ rows'[i].name = s /\ conn'[rows'[i].conn].at = "gone" => Agrees(s)
             /\ s \notin Numbered /\ ui'.at # "save" /\ (\E i \in DOMAIN rows' : rows'[i].name = s) =>
                  file'[s] = wish'[s]
             /\ server' = "down" => file'[s] = wish'[s]
  <2>1. /\ \A i \in DOMAIN rows : rows[i].name = s => rows[i].group = wish[s]
        /\ Right(s) \/ \E i \in DOMAIN rows : rows[i].conn # NoConn /\ rows[i].name = s
        /\ \A i \in DOMAIN rows :
             rows[i].conn # NoConn /\ conn[rows[i].conn].of = s /\ Pending(rows[i].conn) =>
               Right(s) /\ (rows[i].name = NoName => rows[i].group = GroupNone)
        /\ \A i \in DOMAIN rows :
             rows[i].conn # NoConn /\ rows[i].name = s /\ conn[rows[i].conn].at = "gone" => Right(s)
        /\ s \notin Numbered /\ ui.at # "save" /\ (\E i \in DOMAIN rows : rows[i].name = s) =>
             file[s] = wish[s]
        /\ forgotten' = forgotten
    BY <1>1, <1>4, <1>7 DEF GroupInv
  <2>2. Right(s) => Agrees(s)
    BY <1>1 DEF Right, Agrees
  <2>3. s # NoName /\ wish[s] # Unknown
    BY VenueAssumption, TypesAre DEF Unknown, GroupNone
  <2>4. ASSUME NEW i \in DOMAIN rows', rows'[i].name = s
        PROVE  rows'[i].group = wish'[s]
    <3>1. CASE rows'[i].name = rows[i].name /\ rows'[i].group = rows[i].group
      BY <1>1, <2>1, <2>4, <3>1
    <3>2. CASE /\ i \in RowOf(c) /\ Pending(c) /\ rows'[i].name = conn[c].of
               /\ rows'[i].group = IF groups[conn[c].of] = Unknown THEN rows[i].group ELSE groups[conn[c].of]
      <4>1. conn[c].of = s /\ rows[i].conn = c /\ c # NoConn /\ i \in DOMAIN rows
        BY <1>6, <2>4, <3>2
      <4>2. Right(s) /\ (rows[i].name = NoName => rows[i].group = GroupNone)
        BY <2>1, <3>2, <4>1
      <4>3. rows[i].name \in {NoName, s}
        BY <4>1 DEF RowsInv
      <4> QED BY <1>1, <2>1, <2>3, <3>2, <4>1, <4>2, <4>3 DEF Right
    <3> QED BY <1>1, <1>3, <2>3, <2>4, <3>1, <3>2
  <2>5. Agrees(s) \/ \E i \in DOMAIN rows' : rows'[i].conn # NoConn /\ rows'[i].name = s
    <3>1. ASSUME NEW i \in DOMAIN rows, rows[i].conn # NoConn, rows[i].name = s
          PROVE  Agrees(s) \/ \E k \in DOMAIN rows' : rows'[k].conn # NoConn /\ rows'[k].name = s
      <4>1. conn[rows[i].conn].of = s
        BY <3>1, LiveRows
      <4>2. CASE rows'[i].name = s
        BY <1>1, <1>3, <3>1, <4>2
      <4>3. CASE rows'[i].name # s
        <5>1. i \in RowOf(c) /\ Pending(c) /\ rows[i].conn = c
          BY <1>3, <1>6, <3>1, <4>1, <4>3
        <5> QED BY <2>1, <2>2, <3>1, <4>1, <5>1
      <4> QED BY <4>2, <4>3
    <3> QED BY <2>1, <2>2, <3>1
  <2>6. ASSUME NEW i \in DOMAIN rows', rows'[i].conn # NoConn, conn'[rows'[i].conn].of = s, Waits(rows'[i].conn)
        PROVE  Agrees(s) /\ (rows'[i].name = NoName => rows'[i].group = GroupNone)
    <3>1. i \in DOMAIN rows /\ rows'[i].conn = rows[i].conn /\ rows[i].conn \in Conns \ {c}
      BY <1>1, <1>2, <1>3, <1>5, <2>6
    <3>2. rows'[i] = rows[i] /\ conn'[rows[i].conn] = conn[rows[i].conn]
      BY <1>1, <1>3, <1>6, <3>1
    <3> QED BY <2>1, <2>2, <2>6, <3>1, <3>2 DEF Waits, Pending
  <2>7. ASSUME s \notin Numbered, ui'.at # "save", NEW i \in DOMAIN rows', rows'[i].name = s
        PROVE  file'[s] = wish'[s]
    <3>1. CASE file' = Saved(rows')
      <4>1. file' = Saved(rows')
        BY <3>1
      <4>2. \A k \in DOMAIN rows' : rows'[k].name = s => rows'[k].group = wish'[s]
        BY <2>4
      <4>3. \A list \in Seq(Row) : \A g :
              /\ \A k \in DOMAIN list : list[k].name = s => list[k].group = g
              /\ \E k \in DOMAIN list : list[k].name = s
              => Saved(list)[s] = g
        BY SavedGroup
      <4>4. rows' \in Seq(Row) /\ \E k \in DOMAIN rows' : rows'[k].name = s
        BY <1>1, <2>7
      <4>5. Saved(rows')[s] = wish'[s]
        BY <4>2, <4>3, <4>4
      <4> QED BY <4>1, <4>5
    <3>2. CASE file' = file /\ \A k \in RowOf(c) : rows'[k].name = rows[k].name
      <4>1. rows[i].name = s /\ i \in DOMAIN rows
        BY <1>1, <1>3, <2>7, <3>2
      <4> QED BY <1>1, <2>1, <2>7, <3>2, <4>1
    <3>3. forgotten' # Stations
      BY <1>7
    <3> QED BY <1>1, <3>1, <3>2, <3>3
  <2>8. ASSUME NEW i \in DOMAIN rows', rows'[i].conn # NoConn, rows'[i].name = s, conn'[rows'[i].conn].at = "gone"
        PROVE  Agrees(s)
    <3>1. i \in DOMAIN rows /\ rows'[i].conn = rows[i].conn /\ rows[i].conn \in Conns \ {c}
      BY <1>1, <1>3, <1>5, <2>8
    <3>2. rows'[i] = rows[i] /\ conn'[rows[i].conn] = conn[rows[i].conn]
      BY <1>1, <1>3, <1>6, <3>1
    <3> QED BY <2>1, <2>2, <2>8, <3>1, <3>2
  <2> QED BY <1>1, <1>4, <2>4, <2>5, <2>6, <2>7, <2>8
<1> QED BY <1>7, GroupNext

\* A handler remembers and saves the group of its row.
LEMMA RemembersGroups ==
  ASSUME LinksInv, GroupInv, NEW c \in Conns, Remembers(c)
  PROVE  GroupInv'
<1> USE DEF LinksInv
<1> DEFINE named == {i \in RowOf(c) : rows[i].name # NoName}
<1>1. /\ conn[c].at = "recv"
      /\ \A d \in Conns : conn'[d].of = conn[d].of /\ conn'[d].up = conn[d].up
      /\ \A d \in Conns \ {c} : conn'[d].at = conn[d].at
      /\ groups' = Remembered(named)
      /\ (file' = Saved(rows) /\ forgotten' = forgotten) \/ forgotten' = Stations
      /\ UNCHANGED <<server, rows, ui, wish>>
  BY DEF Remembers
<1>2. named \in SUBSET DOMAIN rows /\ \A i \in RowOf(c) : rows[i].name # NoName => i \in named
  BY DEF RowOf
<1> HIDE DEF named
<1>3. server # "down"
  BY <1>1 DEF OverInv
<1>4. \A i \in DOMAIN rows : rows[i].conn # NoConn => rows[i].conn \in Conns
  BY ConnsOfRows
<1>5. ASSUME NEW s \in Stations \ forgotten'
      PROVE  /\ \A i \in DOMAIN rows' : rows'[i].name = s => rows'[i].group = wish'[s]
             /\ server' # "down" =>
                  Agrees(s) \/ \E i \in DOMAIN rows' : rows'[i].conn # NoConn /\ rows'[i].name = s
             /\ \A i \in DOMAIN rows' :
                  rows'[i].conn # NoConn /\ conn'[rows'[i].conn].of = s /\ Waits(rows'[i].conn) =>
                    Agrees(s) /\ (rows'[i].name = NoName => rows'[i].group = GroupNone)
             /\ \A i \in DOMAIN rows' :
                  rows'[i].conn # NoConn /\ rows'[i].name = s /\ conn'[rows'[i].conn].at = "gone" => Agrees(s)
             /\ s \notin Numbered /\ ui'.at # "save" /\ (\E i \in DOMAIN rows' : rows'[i].name = s) =>
                  file'[s] = wish'[s]
             /\ server' = "down" => file'[s] = wish'[s]
  <2>1. /\ file' = Saved(rows)
        /\ \A i \in DOMAIN rows : rows[i].name = s => rows[i].group = wish[s]
        /\ Right(s) \/ \E i \in DOMAIN rows : rows[i].conn # NoConn /\ rows[i].name = s
        /\ \A i \in DOMAIN rows :
             rows[i].conn # NoConn /\ conn[rows[i].conn].of = s /\ Pending(rows[i].conn) =>
               Right(s) /\ (rows[i].name = NoName => rows[i].group = GroupNone)
        /\ \A i \in DOMAIN rows :
             rows[i].conn # NoConn /\ rows[i].name = s /\ conn[rows[i].conn].at = "gone" => Right(s)
    BY <1>1, <1>3, <1>5 DEF GroupInv
  <2>2. s # NoName /\ s \in Stations
    BY VenueAssumption
  <2>3. /\ (\A i \in named : rows[i].name # s) => groups'[s] = groups[s]
        /\ (\E i \in named : rows[i].name = s) => groups'[s] = wish[s]
    <3>1. /\ (\A i \in named : rows[i].name # s) => Remembered(named)[s] = groups[s]
          /\ (\E i \in named : rows[i].name = s) =>
               \E i \in named : rows[i].name = s /\ Remembered(named)[s] = rows[i].group
      BY <1>2, <2>2, RememberedIs
    <3> QED BY <1>1, <1>2, <2>1, <3>1
  <2>4. Right(s) => Agrees(s)
    BY <1>1, <2>3 DEF Right, Agrees
  <2>5. ASSUME NEW i \in DOMAIN rows, rows[i].conn # NoConn, rows[i].name = s, conn'[rows[i].conn].at = "gone"
        PROVE  Agrees(s)
    <3>1. CASE rows[i].conn = c
      <4>1. i \in named
        BY <1>2, <2>2, <2>5, <3>1 DEF RowOf
      <4> QED BY <1>1, <2>3, <2>5, <4>1 DEF Agrees
    <3>2. CASE rows[i].conn # c
      BY <1>1, <1>4, <2>1, <2>4, <2>5, <3>2
    <3> QED BY <3>1, <3>2
  <2>6. \A i \in DOMAIN rows : rows[i].conn # NoConn /\ Waits(rows[i].conn) => Pending(rows[i].conn)
    BY <1>1, <1>4 DEF Waits, Pending
  <2>7. (\E i \in DOMAIN rows : rows[i].name = s) => file'[s] = wish[s]
    <3>1. rows \in Seq(Row)
      BY TypesAre
    <3>2. (\E i \in DOMAIN rows : rows[i].name = s) => Saved(rows)[s] = wish[s]
      BY <2>1, <2>2, <3>1, SavedGroup
    <3> QED BY <2>1, <3>2
  <2>8. \A i \in DOMAIN rows : rows[i].conn # NoConn => conn'[rows[i].conn].of = conn[rows[i].conn].of
    BY <1>1, <1>4
  <2> QED BY <1>1, <1>3, <2>1, <2>4, <2>5, <2>6, <2>7, <2>8
<1> QED BY <1>5, GroupNext

\* The row goes, and has been remembered if it has a name.
LEMMA RemovesGroups ==
  ASSUME LinksInv, GroupInv, NEW c \in Conns, Removes(c)
  PROVE  GroupInv'
<1> USE DEF LinksInv
<1>1. /\ conn[c].at \in {"recv", "gone"}
      /\ \A d \in Conns \ {c} : conn'[d] = conn[d]
      /\ rows' = Without(c)
      /\ UNCHANGED <<server, groups, file, wish, forgotten>>
  BY DEF Removes
<1>2. \A i \in RowOf(c) : i \in DOMAIN rows /\ rows[i].conn = c /\ c # NoConn
                         /\ (rows[i].name # NoName => conn[c].at = "gone")
  BY <1>1, VenueAssumption DEF RowOf, Removes
<1>3. ui'.at = ui.at
  <2>1. ui \in Window /\ (ui' = ui \/ ui' = [ui EXCEPT !.shifted = ui.at # "idle"])
    BY TypesAre DEF Removes
  <2> QED BY <2>1 DEF Window
<1>4. server # "down"
  BY <1>1 DEF OverInv
<1>5. /\ \A k \in DOMAIN rows' : \E i \in DOMAIN rows \ RowOf(c) : rows'[k] = rows[i]
      /\ \A i \in DOMAIN rows \ RowOf(c) : \E k \in DOMAIN rows' : rows'[k] = rows[i]
  BY <1>1, RowsLeft
<1>6. ASSUME NEW s \in Stations \ forgotten'
      PROVE  /\ \A i \in DOMAIN rows' : rows'[i].name = s => rows'[i].group = wish'[s]
             /\ server' # "down" =>
                  Agrees(s) \/ \E i \in DOMAIN rows' : rows'[i].conn # NoConn /\ rows'[i].name = s
             /\ \A i \in DOMAIN rows' :
                  rows'[i].conn # NoConn /\ conn'[rows'[i].conn].of = s /\ Waits(rows'[i].conn) =>
                    Agrees(s) /\ (rows'[i].name = NoName => rows'[i].group = GroupNone)
             /\ \A i \in DOMAIN rows' :
                  rows'[i].conn # NoConn /\ rows'[i].name = s /\ conn'[rows'[i].conn].at = "gone" => Agrees(s)
             /\ s \notin Numbered /\ ui'.at # "save" /\ (\E i \in DOMAIN rows' : rows'[i].name = s) =>
                  file'[s] = wish'[s]
             /\ server' = "down" => file'[s] = wish'[s]
  <2>1. /\ \A i \in DOMAIN rows : rows[i].name = s => rows[i].group = wish[s]
        /\ Right(s) \/ \E i \in DOMAIN rows : rows[i].conn # NoConn /\ rows[i].name = s
        /\ \A i \in DOMAIN rows :
             rows[i].conn # NoConn /\ conn[rows[i].conn].of = s /\ Pending(rows[i].conn) =>
               Right(s) /\ (rows[i].name = NoName => rows[i].group = GroupNone)
        /\ \A i \in DOMAIN rows :
             rows[i].conn # NoConn /\ rows[i].name = s /\ conn[rows[i].conn].at = "gone" => Right(s)
        /\ s \notin Numbered /\ ui.at # "save" /\ (\E i \in DOMAIN rows : rows[i].name = s) =>
             file[s] = wish[s]
    BY <1>1, <1>4, <1>6 DEF GroupInv
  <2>2. s # NoName /\ s \in Stations
    BY VenueAssumption
  <2>4. Right(s) => Agrees(s)
    BY <1>1 DEF Right, Agrees
  <2>5. \A i \in DOMAIN rows' : rows'[i].name = s => rows'[i].group = wish'[s]
    BY <1>1, <1>5, <2>1
  <2>6. Agrees(s) \/ \E i \in DOMAIN rows' : rows'[i].conn # NoConn /\ rows'[i].name = s
    <3>1. ASSUME NEW i \in DOMAIN rows, rows[i].conn # NoConn, rows[i].name = s
          PROVE  Agrees(s) \/ \E k \in DOMAIN rows' : rows'[k].conn # NoConn /\ rows'[k].name = s
      <4>1. CASE i \in RowOf(c)
        BY <1>2, <2>1, <2>2, <2>4, <3>1, <4>1
      <4>2. CASE i \notin RowOf(c)
        BY <1>5, <3>1, <4>2
      <4> QED BY <4>1, <4>2
    <3> QED BY <2>1, <2>4, <3>1
  <2>7. ASSUME NEW k \in DOMAIN rows', rows'[k].conn # NoConn, conn'[rows'[k].conn].of = s, Waits(rows'[k].conn)
        PROVE  Agrees(s) /\ (rows'[k].name = NoName => rows'[k].group = GroupNone)
    <3>1. PICK i \in DOMAIN rows \ RowOf(c) : rows'[k] = rows[i]
      BY <1>5, <2>7
    <3>2. rows[i].conn \in Conns \ {c}
      BY <2>7, <3>1, ConnsOfRows DEF RowOf
    <3> QED BY <1>1, <2>1, <2>4, <2>7, <3>1, <3>2 DEF Waits, Pending
  <2>8. ASSUME s \notin Numbered, ui'.at # "save", NEW k \in DOMAIN rows', rows'[k].name = s
        PROVE  file'[s] = wish'[s]
    BY <1>1, <1>3, <1>5, <2>1, <2>8
  <2>9. ASSUME NEW k \in DOMAIN rows', rows'[k].conn # NoConn, rows'[k].name = s, conn'[rows'[k].conn].at = "gone"
        PROVE  Agrees(s)
    <3>1. PICK i \in DOMAIN rows \ RowOf(c) : rows'[k] = rows[i]
      BY <1>5, <2>9
    <3>2. rows[i].conn \in Conns \ {c}
      BY <2>9, <3>1, ConnsOfRows DEF RowOf
    <3> QED BY <1>1, <2>1, <2>4, <2>9, <3>1, <3>2
  <2> QED BY <1>1, <1>4, <2>5, <2>6, <2>7, <2>8, <2>9
<1> QED BY <1>6, GroupNext

LEMMA FailsGroups ==
  ASSUME LinksInv, GroupInv, SendFails
  PROVE  GroupInv'
<1> USE DEF LinksInv
<1>0. PICK place \in DOMAIN rows : Failed(place)
  BY FailsTypes
<1> DEFINE c == rows[place].conn
<1>1. /\ ui.at \in {"send", "nap"} /\ ui'.at = "send" /\ c \in Conns
      /\ \A d \in Conns \ {c} : conn'[d] = conn[d]
      /\ conn'[c].of = conn[c].of /\ conn'[c].up = conn[c].up /\ conn'[c].at = conn[c].at
      /\ DOMAIN rows' = DOMAIN rows
      /\ \A i \in DOMAIN rows \ {place} : rows'[i] = rows[i]
      /\ rows'[place].conn = NoConn
      /\ rows'[place].name = rows[place].name /\ rows'[place].group = rows[place].group
      /\ forgotten' = forgotten \cup {conn[c].of}
      /\ UNCHANGED <<server, groups, file, wish>>
  BY <1>0, FailsTypes DEF Failed
<1>2. place \in DOMAIN rows /\ c # NoConn
  BY <1>1, VenueAssumption
<1>3. server # "down"
  BY <1>1, Running
<1>4. \A s \in Stations : rows[place].name = s => s = conn[c].of
  BY <1>2, LiveRows
<1>5. /\ \A i \in DOMAIN rows : /\ rows'[i].name = rows[i].name /\ rows'[i].group = rows[i].group
                                /\ rows'[i].conn \in {NoConn, rows[i].conn}
                                /\ i # place => rows'[i].conn = rows[i].conn
      /\ \A d \in Conns : conn'[d].of = conn[d].of /\ conn'[d].up = conn[d].up /\ conn'[d].at = conn[d].at
  BY <1>1
<1>6. \A i \in DOMAIN rows : rows[i].conn # NoConn => rows[i].conn \in Conns
  BY ConnsOfRows
<1> HIDE DEF c
<1>7. \A s \in Stations : Right(s) => Agrees(s)
  BY <1>1 DEF Right, Agrees
<1>8. ASSUME NEW s \in Stations \ forgotten'
      PROVE  /\ s \notin forgotten /\ s # conn[c].of
             /\ \A i \in DOMAIN rows : rows[i].conn # NoConn /\ rows[i].name = s => rows'[i].conn # NoConn
  BY <1>1, <1>4, <1>5
<1>9. \A i \in DOMAIN rows : rows'[i].conn # NoConn =>
        /\ rows'[i].conn = rows[i].conn /\ rows[i].conn \in Conns
        /\ conn'[rows'[i].conn].of = conn[rows[i].conn].of
        /\ conn'[rows'[i].conn].at = conn[rows[i].conn].at
        /\ Waits(rows'[i].conn) => Pending(rows[i].conn)
  BY <1>5, <1>6 DEF Waits, Pending
<1> QED BY <1>1, <1>3, <1>5, <1>7, <1>8, <1>9, GroupNext DEF GroupInv

LEMMA StopGroups ==
  ASSUME LinksInv, GroupInv, StopServer
  PROVE  GroupInv'
<1> USE DEF LinksInv
<1>1. /\ rows' = <<>> /\ server' = "off" /\ server \in {"listening", "dead"}
      /\ forgotten' = forgotten \cup {conn[c].of : c \in {d \in Conns : RowOf(d) # {}}}
      /\ UNCHANGED <<groups, file, wish>>
  BY StopTypes
<1>2. ASSUME NEW s \in Stations \ forgotten', NEW i \in DOMAIN rows, rows[i].conn # NoConn, rows[i].name = s
      PROVE  FALSE
  <2>1. rows[i].conn \in Conns /\ conn[rows[i].conn].of = s
    BY <1>2, LiveRows
  <2>2. i \in RowOf(rows[i].conn)
    BY DEF RowOf
  <2> QED BY <1>1, <1>2, <2>1, <2>2
<1>3. \A s \in Stations : Right(s) => Agrees(s)
  BY <1>1 DEF Right, Agrees
<1>4. DOMAIN rows' = {}
  BY <1>1
<1>5. \A s \in Stations \ forgotten' : Agrees(s)
  BY <1>1, <1>2, <1>3 DEF GroupInv
<1>6. server' # "down"
  BY <1>1
<1> QED BY <1>4, <1>5, <1>6, GroupNext

LEMMA EndsGroups ==
  ASSUME LinksInv, GroupInv, MasterEnds
  PROVE  GroupInv'
<1> USE DEF LinksInv
<1>1. /\ rows' = <<>> /\ server' = "down"
      /\ \/ /\ ui.at # "save" /\ (file' = file \/ file' = Saved(rows))
            /\ forgotten' = forgotten \cup Numbered
                             \cup {s \in Stations : \A i \in DOMAIN rows : rows[i].name # s}
         \/ forgotten' = Stations
      /\ UNCHANGED wish
  BY EndsTypes
<1>2. DOMAIN rows' = {}
  BY <1>1
<1>3. ASSUME NEW s \in Stations \ forgotten'
      PROVE  file'[s] = wish'[s]
  <2>1. ui.at # "save" /\ (file' = file \/ file' = Saved(rows)) /\ s \notin forgotten /\ s \notin Numbered /\ \E i \in DOMAIN rows : rows[i].name = s
    BY <1>1, <1>3
  <2>2. /\ file[s] = wish[s]
        /\ \A i \in DOMAIN rows : rows[i].name = s => rows[i].group = wish[s]
    BY <2>1 DEF GroupInv
  <2>3. rows \in Seq(Row)
    BY TypesAre
  <2>4. Saved(rows)[s] = wish[s]
    BY <2>1, <2>2, <2>3, SavedGroup
  <2> QED BY <1>1, <2>1, <2>2, <2>4
<1> QED BY <1>1, <1>2, <1>3, GroupNext

LEMMA StartsGroups ==
  ASSUME LinksInv, GroupInv, MasterStarts
  PROVE  GroupInv'
<1>1. /\ server = "down" /\ server' = "listening" /\ groups' = file /\ UNCHANGED <<rows, wish, forgotten>>
  BY DEF MasterStarts, history
<1>2. DOMAIN rows' = {}
  BY <1>1 DEF OverInv, LinksInv
<1>3. \A s \in Stations \ forgotten' : Agrees(s)
  BY <1>1 DEF GroupInv, Agrees
<1>4. server' # "down"
  BY <1>1
<1> QED BY <1>2, <1>3, <1>4, GroupNext

LEMMA SaveGroups ==
  ASSUME LinksInv, GroupInv, SaveStationGroups
  PROVE  GroupInv'
<1> USE DEF LinksInv
<1>1. /\ ui.at = "save"
      /\ (file' = Saved(rows) /\ forgotten' = forgotten) \/ forgotten' = Stations
      /\ UNCHANGED <<server, rows, groups, conn, wish>>
  BY SaveTypes
<1>2. server # "down"
  BY <1>1, Running
<1>3. rows \in Seq(Row)
  BY TypesAre
<1>4. ASSUME NEW s \in Stations \ forgotten', \E i \in DOMAIN rows : rows[i].name = s
      PROVE  file'[s] = wish'[s]
  <2>0. file' = Saved(rows) /\ forgotten' = forgotten
    BY <1>1, <1>4
  <2>1. \A i \in DOMAIN rows : rows[i].name = s => rows[i].group = wish[s]
    BY <1>4, <2>0 DEF GroupInv
  <2>2. Saved(rows)[s] = wish[s]
    BY <1>3, <1>4, <2>1, SavedGroup
  <2> QED BY <1>1, <2>0, <2>2
<1>5. \A s \in Stations : Right(s) => Agrees(s)
  BY <1>1 DEF Right, Agrees
<1>6. \A i \in DOMAIN rows : Waits(rows'[i].conn) => Pending(rows[i].conn)
  BY <1>1 DEF Waits, Pending
<1>7. \A s \in Stations \ forgotten' : s \notin forgotten
  BY <1>1
<1> QED BY <1>1, <1>2, <1>4, <1>5, <1>6, <1>7, GroupNext DEF GroupInv

LEMMA RegroupGroups ==
  ASSUME LinksInv, GroupInv, NEW selected \in SUBSET DOMAIN rows, NEW g \in Groups \cup {GroupNone},
         rows # <<>>, Regroup(selected, g)
  PROVE  GroupInv'
<1> USE DEF LinksInv
<1>0. /\ ui'.at = "save" /\ DOMAIN rows' = DOMAIN rows
      /\ \A i \in DOMAIN rows :
           /\ rows'[i].conn = rows[i].conn /\ rows'[i].name = rows[i].name
           /\ rows'[i].group = IF i \in selected THEN g ELSE rows[i].group
  BY RegroupTypes
<1> DEFINE touched == {conn[rows[i].conn].of : i \in {j \in selected : rows[j].conn # NoConn}}
           dead == {rows[i].name : i \in {j \in selected : rows[j].conn = NoConn}} \ {NoName}
           sure == {s \in touched :
                      /\ \A c \in Conns : Uses(c, s) =>
                           /\ "name" \notin ToSet(conn[c].up) /\ conn[c].at # "gone"
                           /\ \E i \in selected : rows[i].conn = c /\ rows[i].name = s
                      /\ \A i \in DOMAIN rows : rows[i].name = s => i \in selected}
<1>1. /\ \A s \in Stations : wish'[s] = IF s \in sure THEN g ELSE wish[s]
      /\ forgotten' = (forgotten \cup touched \cup dead) \ sure
  BY DEF Regroup
<1>2. UNCHANGED <<server, groups, file, conn>>
  BY DEF Regroup
<1>3. server # "down"
  BY Running
<1>4. \A i \in selected : i \in DOMAIN rows
  OBVIOUS
<1>5. ASSUME NEW s \in sure
      PROVE  /\ \A c \in Conns : Uses(c, s) =>
                  /\ "name" \notin ToSet(conn[c].up) /\ conn[c].at # "gone"
                  /\ \E i \in selected : rows[i].conn = c /\ rows[i].name = s
             /\ \A i \in DOMAIN rows : rows[i].name = s => i \in selected
             /\ \E i \in DOMAIN rows : rows[i].conn # NoConn /\ conn[rows[i].conn].of = s
  BY <1>4
<1>6. ASSUME NEW s \in Stations, s \notin touched, s \notin dead, NEW i \in selected
      PROVE  /\ rows[i].name # s
             /\ rows[i].conn # NoConn => conn[rows[i].conn].of # s
  <2>1. rows[i].conn # NoConn => conn[rows[i].conn].of # s
    BY <1>6
  <2>2. rows[i].conn = NoConn => rows[i].name # s
    BY <1>6, VenueAssumption
  <2> QED BY <1>4, <2>1, <2>2, LiveRows
<1>7. \A s \in Stations \ forgotten' : s \in sure \/ (s \notin forgotten /\ s \notin touched /\ s \notin dead)
  BY <1>0, <1>1
<1>8. \A c \in Conns : Pending(c) => "name" \in ToSet(conn[c].up)
  <2>1. ASSUME NEW c \in Conns, Pending(c)
        PROVE  "name" \in ToSet(conn[c].up)
    <3>1. conn[c].up \in Seq(Reports) /\ conn[c].up # <<>> /\ conn[c].up[1] = "name"
      BY <2>1, LinesAre DEF Pending
    <3>2. 1 \in DOMAIN conn[c].up
      <4>1. Len(conn[c].up) \in Nat /\ DOMAIN conn[c].up = 1 .. Len(conn[c].up)
        BY <3>1, LenProperties
      <4>2. Len(conn[c].up) # 0
        BY <3>1, EmptySeq
      <4> QED BY <4>1, <4>2
    <3> QED BY <3>1, <3>2 DEF ToSet
  <2> QED BY <2>1
<1> HIDE DEF touched, dead, sure
<1>9. ASSUME NEW s \in Stations \ forgotten'
      PROVE  /\ \A i \in DOMAIN rows' : rows'[i].name = s => rows'[i].group = wish'[s]
             /\ server' # "down" =>
                  Agrees(s) \/ \E i \in DOMAIN rows' : rows'[i].conn # NoConn /\ rows'[i].name = s
             /\ \A i \in DOMAIN rows' :
                  rows'[i].conn # NoConn /\ conn'[rows'[i].conn].of = s /\ Waits(rows'[i].conn) =>
                    Agrees(s) /\ (rows'[i].name = NoName => rows'[i].group = GroupNone)
             /\ \A i \in DOMAIN rows' :
                  rows'[i].conn # NoConn /\ rows'[i].name = s /\ conn'[rows'[i].conn].at = "gone" => Agrees(s)
  <2>1. CASE s \in sure
    <3>1. \A i \in DOMAIN rows' : rows'[i].name = s => rows'[i].group = wish'[s]
      BY <1>0, <1>1, <1>5, <2>1
    <3>2. PICK i \in DOMAIN rows : rows[i].conn # NoConn /\ conn[rows[i].conn].of = s
      BY <1>5, <2>1
    <3>3. rows[i].conn \in Conns /\ Uses(rows[i].conn, s)
      BY <3>2, LiveRows
    <3>4. PICK j \in selected : rows[j].conn = rows[i].conn /\ rows[j].name = s
      BY <1>5, <2>1, <3>3
    <3>5. j \in DOMAIN rows' /\ rows'[j].conn # NoConn /\ rows'[j].name = s
      BY <1>0, <1>1, <1>4, <3>2, <3>4
    <3>6. ASSUME NEW k \in DOMAIN rows', rows'[k].conn # NoConn, conn'[rows'[k].conn].of = s, Waits(rows'[k].conn)
          PROVE  FALSE
      <4>1. /\ k \in DOMAIN rows /\ rows[k].conn # NoConn /\ conn[rows[k].conn].of = s
            /\ Pending(rows[k].conn)
        BY <1>0, <1>1, <1>2, <3>6 DEF Waits, Pending
      <4>2. rows[k].conn \in Conns /\ Uses(rows[k].conn, s)
        BY <4>1, LiveRows
      <4> QED BY <1>5, <1>8, <2>1, <4>1, <4>2
    <3>7. ASSUME NEW k \in DOMAIN rows', rows'[k].conn # NoConn, rows'[k].name = s, conn'[rows'[k].conn].at = "gone"
          PROVE  FALSE
      <4>1. /\ k \in DOMAIN rows /\ rows[k].conn # NoConn /\ rows[k].name = s
            /\ conn[rows[k].conn].at = "gone"
        BY <1>0, <1>2, <3>7
      <4>2. rows[k].conn \in Conns /\ Uses(rows[k].conn, s)
        BY <4>1, LiveRows
      <4> QED BY <1>5, <2>1, <4>1, <4>2
    <3> QED BY <3>1, <3>5, <3>6, <3>7
  <2>2. CASE s \notin sure
    <3>1. s \notin forgotten /\ s \notin touched /\ s \notin dead /\ wish'[s] = wish[s]
      BY <1>0, <1>1, <1>7, <1>9, <2>2
    <3>2. /\ \A i \in DOMAIN rows : rows[i].name = s => rows[i].group = wish[s]
          /\ Right(s) \/ \E i \in DOMAIN rows : rows[i].conn # NoConn /\ rows[i].name = s
          /\ \A i \in DOMAIN rows :
               rows[i].conn # NoConn /\ conn[rows[i].conn].of = s /\ Pending(rows[i].conn) =>
                 Right(s) /\ (rows[i].name = NoName => rows[i].group = GroupNone)
          /\ \A i \in DOMAIN rows :
               rows[i].conn # NoConn /\ rows[i].name = s /\ conn[rows[i].conn].at = "gone" => Right(s)
      BY <1>3, <3>1, <1>9 DEF GroupInv
    <3>3. Right(s) => Agrees(s)
      BY <1>2, <3>1 DEF Right, Agrees
    <3>4. \A i \in DOMAIN rows : rows[i].name = s \/ (rows[i].conn # NoConn /\ conn[rows[i].conn].of = s) =>
            rows'[i].group = rows[i].group
      BY <1>0, <1>1, <1>6, <1>9, <3>1
    <3>5. \A i \in DOMAIN rows : Waits(rows'[i].conn) => Pending(rows[i].conn)
      BY <1>0, <1>1, <1>2 DEF Waits, Pending
    <3> QED BY <1>0, <1>1, <1>2, <3>1, <3>2, <3>3, <3>4, <3>5
  <2> QED BY <2>1, <2>2
<1>10. server' # "down" /\ ui'.at = "save"
  BY <1>0, <1>1, <1>2, <1>3
<1> QED BY <1>9, <1>10, GroupNext

LEMMA InitGroups ==
  ASSUME Init
  PROVE  GroupInv
<1>1. DOMAIN rows = {} /\ server = "listening"
  BY DEF Init
<1>2. \A s \in Stations : wish[s] = IF groups[s] = Unknown THEN GroupNone ELSE groups[s]
  BY DEF Init
<1> QED BY <1>1, <1>2 DEF GroupInv, Right
-----------------------------------------------------------------------------
(* Every step, and the theorems. *)

VenueInv == LinksInv /\ ChosenInv /\ ShowInv /\ GroupInv

\* What a step has to show.
Holds == VenueInv' /\ Heeds

\* No connection gets an order: what is under way stays, or goes with an end.
LEMMA NoOrders ==
  ASSUME TypeOK,
         \A c \in Conns : \/ conn'[c].down = conn[c].down \/ conn'[c].down = <<>>
                          \/ \E ends \in Ends, at \in Handlers : conn'[c] = With(conn[c], ends, at)
  PROVE  Heeds
<1>1. ASSUME NEW c \in Conns
      PROVE  ~ (Len(conn'[c].down) > Len(conn[c].down))
  <2>1. Len(conn[c].down) \in Nat /\ Len(<<>>) = 0
    BY LinesAre, LenProperties, EmptySeq
  <2>2. CASE conn'[c].down = conn[c].down \/ conn'[c].down = <<>>
    BY <2>1, <2>2
  <2>3. CASE \E ends \in Ends, at \in Handlers : conn'[c] = With(conn[c], ends, at)
    BY <2>3, FewerOrders
  <2> QED BY <2>2, <2>3
<1> QED BY <1>1, SilentHeeds

LEMMA StationSteps ==
  ASSUME VenueInv, NEW s \in Stations,
         \/ \E c \in Conns : ConnectToMaster(s, c)
         \/ LinkLost(s) \/ StationRestarts(s) \/ ParseCommand(s) \/ StartSession(s) \/ Tick(s)
         \/ \E t \in Threads : SendToMaster(s, t)
  PROVE  Holds
<1> USE DEF VenueInv
<1>1. ASSUME NEW c \in Conns, ConnectToMaster(s, c)
      PROVE  Holds
  <2>1. LinksInv' /\ Quiet /\ ShowInv'
    BY <1>1, ConnectLinks, ConnectShows
  <2>2. UNCHANGED <<server, rows, groups, file, ui, wish, forgotten>>
    BY <1>1 DEF ConnectToMaster, desk
  <2>3. ChosenInv' /\ GroupInv'
    BY <2>1, <2>2, QuietChosen, QuietGroups
  <2>4. \A d \in Conns : conn'[d].down = conn[d].down \/ conn'[d].down = <<>>
    <3> DEFINE new == [of |-> s, ends |-> {"station", "master"}, up |-> <<"name">>, down |-> <<>>, at |-> "none"]
    <3>1. new.down = <<>>
      OBVIOUS
    <3>2. conn'[c] = new /\ \A d \in Conns \ {c} : conn'[d] = conn[d]
      BY <1>1, ConnectTypes DEF LinksInv
    <3> HIDE DEF new
    <3> QED BY <3>1, <3>2
  <2> QED BY <2>1, <2>3, <2>4, NoOrders DEF Holds, LinksInv
<1>2. ASSUME LinkLost(s) \/ StationRestarts(s)
      PROVE  Holds
  <2>1. LinksInv' /\ Quiet /\ ShowInv'
    BY <1>2, HangsLinks, HangsShows
  <2>2. /\ UNCHANGED <<server, rows, groups, file, ui, wish, forgotten>> /\ sock[s] \in Conns
        /\ conn'[sock[s]] = With(conn[sock[s]], conn[sock[s]].ends \ {"station"}, conn[sock[s]].at)
        /\ \A d \in Conns \ {sock[s]} : conn'[d] = conn[d]
    BY <1>2, HangsTypes DEF LinksInv
  <2>3. ChosenInv' /\ GroupInv'
    BY <2>1, <2>2, QuietChosen, QuietGroups
  <2>4. conn[sock[s]].ends \ {"station"} \in Ends /\ conn[sock[s]].at \in Handlers
    BY <2>2, LinesAre, EndsAre DEF LinksInv
  <2> QED BY <2>1, <2>2, <2>3, <2>4, NoOrders DEF Holds, LinksInv
<1>3. ASSUME ParseCommand(s) \/ StartSession(s) \/ Tick(s)
      PROVE  Holds
  <2>1. LinksInv' /\ Quiet /\ ShowInv'
    BY <1>3, ReportLinks, ReportShows
  <2>2. /\ UNCHANGED <<server, rows, groups, file, ui, wish, forgotten>>
        /\ \A d \in Conns : Len(conn'[d].down) <= Len(conn[d].down)
        /\ TypeOK' /\ TypeOK
    BY <1>3, ReportTypes DEF LinksInv
  <2>3. ChosenInv' /\ GroupInv'
    BY <2>1, <2>2, QuietChosen, QuietGroups
  <2>4. \A d \in Conns : Len(conn'[d].down) \in Nat /\ Len(conn[d].down) \in Nat
    <3>1. conn' \in [Conns -> Line] /\ conn \in [Conns -> Line]
      BY <2>2 DEF TypeOK, Line, Ends, Handlers
    <3>2. \A d \in Conns : conn'[d].down \in Seq(Orders) /\ conn[d].down \in Seq(Orders)
      BY <3>1 DEF Line
    <3> QED BY <3>2, LenProperties
  <2> QED BY <2>1, <2>2, <2>3, <2>4, SilentHeeds DEF Holds
<1>4. ASSUME NEW t \in Threads, SendToMaster(s, t)
      PROVE  Holds
  <2>1. LinksInv' /\ Quiet /\ ShowInv'
    BY <1>4, SayLinks, SayShows
  <2>2. /\ UNCHANGED <<server, rows, groups, file, ui, wish, forgotten>>
        /\ \A d \in Conns : conn'[d].down = conn[d].down
    BY <1>4, SayTypes DEF LinksInv
  <2>3. ChosenInv' /\ GroupInv'
    BY <2>1, <2>2, QuietChosen, QuietGroups
  <2> QED BY <2>1, <2>2, <2>3, NoOrders DEF Holds, LinksInv
<1> QED BY <1>1, <1>2, <1>3, <1>4

LEMMA HandlerSteps ==
  ASSUME VenueInv, NEW c \in Conns,
         \/ Accept(c) \/ AcceptFails(c) \/ Greet(c) \/ AddStationRow(c)
         \/ Receive(c) \/ ClientGone(c) \/ RemoveStationRow(c)
  PROVE  Holds
<1> USE DEF VenueInv
<1>1. ASSUME Accept(c) \/ AddStationRow(c)
      PROVE  Holds
  <2>1. LinksInv' /\ Quiet /\ ShowInv'
    BY <1>1, AcceptLinks, AddLinks, HandlerShows
  <2>2. UNCHANGED <<server, rows, groups, file, ui, wish, forgotten>>
    BY <1>1 DEF Accept, AddStationRow, desk, history
  <2>3. ChosenInv' /\ GroupInv'
    BY <2>1, <2>2, QuietChosen, QuietGroups
  <2>4. \A d \in Conns : conn'[d].down = conn[d].down
    <3>1. \E at \in Handlers : conn' = [conn EXCEPT ![c].at = at]
      BY <1>1, HandlersAre DEF Accept, AddStationRow
    <3> QED BY <3>1, AtIs DEF LinksInv
  <2> QED BY <2>1, <2>3, <2>4, NoOrders DEF Holds, LinksInv
<1>2. ASSUME AcceptFails(c)
      PROVE  Holds
  <2>1. LinksInv' /\ Quiet /\ ShowInv'
    BY <1>2, AcceptFailsLinks, HandlerShows
  <2>2. /\ UNCHANGED <<rows, groups, file, ui, wish, forgotten>> /\ server' # "down" /\ server # "down"
        /\ \A d \in Conns : conn[d].at = "none" => conn'[d] = With(conn[d], conn[d].ends \ {"master"}, "none")
        /\ \A d \in Conns : conn[d].at # "none" => conn'[d] = conn[d]
    BY <1>2, AcceptFailsTypes DEF LinksInv, AcceptFails, history
  <2>3. ChosenInv' /\ GroupInv'
    BY <2>1, <2>2, QuietChosen, QuietGroups
  <2>4. \A d \in Conns : conn[d].ends \ {"master"} \in Ends
    BY LinesAre, EndsAre DEF LinksInv
  <2> QED BY <2>1, <2>2, <2>3, <2>4, NoOrders, HandlersAre DEF Holds, LinksInv
<1>3. ASSUME Greet(c)
      PROVE  Holds
  <2>1. \A d \in Conns : conn'[d].down = conn[d].down
    BY <1>3, GreetTypes DEF LinksInv
  <2> QED BY <1>3, <2>1, GreetLinks, GreetChosen, GreetShows, GreetGroups, NoOrders DEF Holds, LinksInv
<1>4. ASSUME Receive(c)
      PROVE  Holds
  <2>1. \A d \in Conns : conn'[d].down = conn[d].down
    BY <1>4, ReceiveTypes DEF LinksInv
  <2> QED BY <1>4, <2>1, ReceiveLinks, ReceiveChosen, ReceiveShows, ReceiveKeeps, NoOrders DEF Holds, LinksInv
<1>5. ASSUME ClientGone(c) \/ RemoveStationRow(c)
      PROVE  Holds
  <2>1. LinksInv' /\ ChosenInv' /\ ShowInv' /\ (Remembers(c) \/ Removes(c))
    BY <1>5, GoneLinks, GoneChosen, HandlerShows, GoneTypes DEF LinksInv
  <2>2. CASE Remembers(c)
    <3>1. \A d \in Conns : conn'[d].down = conn[d].down
      BY <2>2 DEF Remembers
    <3> QED BY <2>1, <2>2, <3>1, RemembersGroups, NoOrders DEF Holds, LinksInv
  <2>3. CASE Removes(c)
    <3>1. /\ \A d \in Conns \ {c} : conn'[d] = conn[d]
          /\ conn'[c] = With(conn[c], conn[c].ends \ {"master"}, "none")
      BY <2>3 DEF Removes
    <3>2. conn[c].ends \ {"master"} \in Ends
      BY LinesAre, EndsAre DEF LinksInv
    <3>3. Heeds
      BY <3>1, <3>2, NoOrders, HandlersAre DEF LinksInv
    <3> QED BY <2>1, <2>3, <3>3, RemovesGroups DEF Holds
  <2> QED BY <2>1, <2>2, <2>3
<1> QED BY <1>1, <1>2, <1>3, <1>4, <1>5

LEMMA CommandSteps ==
  ASSUME VenueInv,
         \/ \E cmd \in Commands, selected \in SUBSET DOMAIN rows : selected # {} /\ BeginCommand(cmd, selected)
         \/ NextGroup \/ Send \/ SendAfterNap \/ LogSent \/ StartServer
  PROVE  Holds
<1> USE DEF VenueInv
<1>1. LinksInv' /\ Quiet /\ ShowInv'
  BY BeginLinks, NextGroupLinks, SendLinks, NapLinks, LogLinks, ServerLinks, WindowShows
<1>2. /\ UNCHANGED <<rows, groups, file, wish, forgotten>> /\ (server' = "down" <=> server = "down")
      /\ ui.at # "save"
  <2> USE DEF LinksInv
  <2>1. CASE \E cmd \in Commands, selected \in SUBSET DOMAIN rows : BeginCommand(cmd, selected)
    BY <2>1, BeginTypes
  <2>2. CASE NextGroup
    BY <2>2, NextGroupTypes
  <2>3. CASE Send
    BY <2>3, SendTypes
  <2>4. CASE SendAfterNap
    BY <2>4, NapTypes
  <2>5. CASE LogSent
    BY <2>5, LogTypes
  <2>6. CASE StartServer
    BY <2>6 DEF StartServer, history
  <2> QED BY <2>1, <2>2, <2>3, <2>4, <2>5, <2>6
<1>3. GroupInv'
  BY <1>1, <1>2, QuietGroups
<1>4. ChosenInv'
  BY BeginChosen, NextGroupChosen, SendChosen, NapChosen, LogChosen, RestChosen
<1>5. Heeds
  <2>1. CASE Send \/ SendAfterNap
    BY <2>1, SendHeeds, NapHeeds
  <2>2. CASE ~ (Send \/ SendAfterNap)
    <3>1. UNCHANGED conn
      BY <2>2, BeginTypes, NextGroupTypes, LogTypes DEF LinksInv, StartServer
    <3> QED BY <3>1, NoOrders DEF LinksInv
  <2> QED BY <2>1, <2>2
<1> QED BY <1>1, <1>3, <1>4, <1>5 DEF Holds

LEMMA OtherSteps ==
  ASSUME VenueInv,
         \/ \E selected \in SUBSET DOMAIN rows, g \in Groups \cup {GroupNone} :
              rows # <<>> /\ Regroup(selected, g)
         \/ SendFails \/ SaveStationGroups \/ StopServer \/ MasterEnds \/ MasterStarts
  PROVE  Holds
<1> USE DEF VenueInv
<1>1. ASSUME NEW selected \in SUBSET DOMAIN rows, NEW g \in Groups \cup {GroupNone},
             rows # <<>>, Regroup(selected, g)
      PROVE  Holds
  <2>1. UNCHANGED conn
    BY <1>1, RegroupTypes DEF LinksInv
  <2>2. ChosenInv' /\ Heeds
    BY <1>1, <2>1, RestChosen, NoOrders DEF LinksInv
  <2> QED BY <1>1, <2>2, RegroupLinks, RegroupShows, RegroupGroups DEF Holds
<1>2. ASSUME SendFails
      PROVE  Holds
  <2>1. \A d \in Conns : conn'[d].down = conn[d].down
    BY <1>2, FailsTypes DEF Failed, LinksInv
  <2> QED BY <1>2, <2>1, FailsLinks, FailsChosen, FailsShows, FailsGroups, NoOrders DEF Holds, LinksInv
<1>3. ASSUME SaveStationGroups
      PROVE  Holds
  <2>1. UNCHANGED conn
    BY <1>3, SaveTypes DEF LinksInv
  <2>2. ChosenInv' /\ Heeds
    BY <1>3, <2>1, RestChosen, NoOrders DEF LinksInv
  <2> QED BY <1>3, <2>2, SaveLinks, WindowShows, SaveGroups DEF Holds
<1>4. ASSUME StopServer
      PROVE  Holds
  <2>1. ASSUME NEW d \in Conns
        PROVE  conn'[d].down = conn[d].down \/ \E ends \in Ends, at \in Handlers : conn'[d] = With(conn[d], ends, at)
    <3>1. conn'[d] = conn[d] \/ conn'[d] = With(conn[d], conn[d].ends \ {"master"}, conn[d].at)
      BY <1>4, StopTypes DEF LinksInv
    <3>2. conn[d].ends \ {"master"} \in Ends /\ conn[d].at \in Handlers
      BY LinesAre, EndsAre DEF LinksInv
    <3> QED BY <3>1, <3>2
  <2>2. ChosenInv' /\ Heeds
    BY <1>4, <2>1, RestChosen, NoOrders DEF LinksInv
  <2> QED BY <1>4, <2>2, StopLinks, StopShows, StopGroups DEF Holds
<1>5. ASSUME MasterEnds
      PROVE  Holds
  <2>1. \A d \in Conns : \E ends \in Ends, at \in Handlers : conn'[d] = With(conn[d], ends, at)
    <3>1. \A d \in Conns : conn[d].ends \ {"master"} \in Ends
      BY LinesAre, EndsAre DEF LinksInv
    <3> QED BY <1>5, <3>1, EndsTypes, HandlersAre DEF LinksInv
  <2>2. ChosenInv' /\ Heeds
    BY <1>5, <2>1, RestChosen, NoOrders DEF LinksInv
  <2> QED BY <1>5, <2>2, EndsLinks, StopShows, EndsGroups DEF Holds
<1>6. ASSUME MasterStarts
      PROVE  Holds
  <2>1. UNCHANGED conn
    BY <1>6 DEF MasterStarts
  <2>2. ChosenInv' /\ Heeds
    BY <1>6, <2>1, RestChosen, NoOrders DEF LinksInv
  <2> QED BY <1>6, <2>2, ServerLinks, WindowShows, StartsGroups DEF Holds
<1> QED BY <1>1, <1>2, <1>3, <1>4, <1>5, <1>6

LEMMA Starts ==
  ASSUME Init
  PROVE  VenueInv
<1>1. TypeOK
  BY InitTypes
<1>2. /\ server = "listening" /\ rows = <<>> /\ ui = Idle /\ DOMAIN rows = {}
      /\ \A c \in Conns : conn[c] = Fresh
      /\ \A s \in Stations : sock[s] = NoConn
  BY DEF Init
<1>3. LinesInv
  <2>1. \A c \in Conns : conn[c].at = "none" /\ conn[c].ends = {} /\ conn[c].up = <<>>
    BY <1>2, FreshIs
  <2>2. Len(<<>>) = 0
    BY EmptySeq
  <2> QED BY <2>1, <2>2 DEF LinesInv
<1>4. RowsInv /\ SocksInv /\ OverInv /\ ShowInv
  <2>1. SaidInv
    BY DEF Init, SaidInv, Silent, Agree
  <2> QED BY <1>2, <2>1 DEF RowsInv, SocksInv, OverInv, ShowInv
<1>5. ChosenInv
  BY <1>2, IdleIs DEF ChosenInv
<1> QED BY <1>1, <1>3, <1>4, <1>5, InitGroups DEF VenueInv, LinksInv

LEMMA Stutters ==
  ASSUME VenueInv, UNCHANGED vars
  PROVE  Holds
<1>1. UNCHANGED <<server, rows, groups, file, ui, conn, sock, left, unsent, evening, faults, wish, forgotten, misled>>
  BY DEF vars, desk, stations, history
<1>2. LinksInv'
  BY <1>1 DEF VenueInv, LinksInv, TypeOK, LinesInv, RowsInv, SocksInv, OverInv, Pending
<1>3. ChosenInv'
  BY <1>1 DEF VenueInv, ChosenInv, Meant, Pending
<1>4. ShowInv'
  BY <1>1 DEF VenueInv, ShowInv, SaidInv, Agree, Due, Tells, Shows
<1>5. GroupInv'
  BY <1>1 DEF VenueInv, GroupInv, Right, Pending
<1>6. Heeds
  BY <1>1, NoOrders DEF VenueInv, LinksInv
<1> QED BY <1>2, <1>3, <1>4, <1>5, <1>6 DEF VenueInv, Holds

LEMMA Steps ==
  ASSUME VenueInv, [Next]_vars
  PROVE  Holds
<1>1. CASE UNCHANGED vars
  BY <1>1, Stutters
<1>2. CASE Next
  <2>1. ASSUME NEW s \in Stations,
               \/ \E c \in Conns : ConnectToMaster(s, c)
               \/ LinkLost(s) \/ StationRestarts(s) \/ ParseCommand(s) \/ StartSession(s) \/ Tick(s)
               \/ \E t \in Threads : SendToMaster(s, t)
        PROVE  Holds
    BY <2>1, StationSteps
  <2>2. ASSUME NEW c \in Conns,
               \/ Accept(c) \/ AcceptFails(c) \/ Greet(c) \/ AddStationRow(c)
               \/ Receive(c) \/ ClientGone(c) \/ RemoveStationRow(c)
        PROVE  Holds
    BY <2>2, HandlerSteps
  <2>3. ASSUME NEW selected \in (SUBSET DOMAIN rows) \ {{}},
               \/ \E cmd \in Commands : BeginCommand(cmd, selected)
               \/ \E g \in Groups \cup {GroupNone} : SetSelectedStationsGroup(selected, g)
               \/ \E dragged \in selected, other \in DOMAIN rows : DropOn(dragged, other, selected)
        PROVE  Holds
    <3>1. selected \in SUBSET DOMAIN rows /\ selected # {} /\ rows # <<>>
      <4>1. selected \in SUBSET DOMAIN rows /\ selected # {}
        OBVIOUS
      <4>2. rows = <<>> => DOMAIN rows = {}
        OBVIOUS
      <4> QED BY <4>1, <4>2
    <3>2. CASE \E cmd \in Commands : BeginCommand(cmd, selected)
      BY <3>1, <3>2, CommandSteps
    <3>3. CASE \E g \in Groups \cup {GroupNone} : SetSelectedStationsGroup(selected, g)
      BY <3>1, <3>3, OtherSteps DEF SetSelectedStationsGroup
    <3>4. CASE \E dragged \in selected, other \in DOMAIN rows : DropOn(dragged, other, selected)
      <4>1. \E some \in SUBSET DOMAIN rows, g \in Groups \cup {GroupNone} : Regroup(some, g)
        BY <3>1, <3>4, DropIs DEF VenueInv, LinksInv
      <4> QED BY <3>1, <4>1, OtherSteps
    <3> QED BY <2>3, <3>2, <3>3, <3>4
  <2>4. CASE UiStep \/ StartServer \/ StopServer \/ MasterEnds \/ MasterStarts
    <3>1. CASE NextGroup \/ Send \/ SendAfterNap \/ LogSent \/ StartServer
      BY <3>1, CommandSteps
    <3>2. CASE SendFails \/ SaveStationGroups \/ StopServer \/ MasterEnds \/ MasterStarts
      BY <3>2, OtherSteps
    <3> QED BY <2>4, <3>1, <3>2 DEF UiStep
  <2> QED BY <1>2, <2>1, <2>2, <2>3, <2>4 DEF Next
<1> QED BY <1>1, <1>2

LEMMA Always == Spec => []VenueInv
<1>1. Init => VenueInv
  BY Starts
<1>2. VenueInv /\ [Next]_vars => VenueInv'
  BY Steps DEF Holds
<1> QED BY <1>1, <1>2, PTL DEF Spec

\* The lists, streams, groups and histories of the front desk keep their types,
\* whatever the threads do and in whatever order.
THEOREM VenueTypesKept == Spec => []TypeOK
<1>1. VenueInv => TypeOK
  BY DEF VenueInv, LinksInv
<1> QED BY <1>1, Always, PTL

\* An order goes to a station that was selected when staff pressed the button, or
\* to one in the group of a selected one, for any number of stations and groups,
\* unless a row was erased while the command was being sent
\* (SendCommandToSelectedStation and the handlers' threads).
THEOREM OrdersToChosen == Spec => OnlyChosen
<1>1. VenueInv /\ [Next]_vars =>
        [\A c \in Conns : Len(conn'[c].down) > Len(conn[c].down) =>
           \/ conn[c].of \in ui.chosen
           \/ \E i \in RowOf(c) : ui.groups # {} /\ rows[i].group = Min(ui.groups)
           \/ ui.shifted]_vars
  BY Steps DEF Holds, Heeds
<1> QED BY <1>1, Always, PTL DEF Spec, OnlyChosen

\* When a station's last report has been read and none of its threads has one to
\* send, the master shows a session for it just when one runs, but for the
\* connections named as misled: whose last report came in behind another, or was
\* crossed by what the station's other thread did before it was sent, or that are
\* new (HandleClient, and session.cpp's and window_proc.cpp's reports).
THEOREM SessionsShown == Spec => []ShownAsItIs
<1>1. VenueInv => ShownAsItIs
  <2> SUFFICES ASSUME VenueInv, NEW i \in DOMAIN rows,
                      rows[i].conn \in Conns \ misled, sock[conn[rows[i].conn].of] = rows[i].conn,
                      conn[rows[i].conn].up = <<>>, unsent[conn[rows[i].conn].of] = Silent
               PROVE  rows[i].active <=> left[conn[rows[i].conn].of] > 0
    BY DEF ShownAsItIs
  <2> DEFINE c == rows[i].conn
             s == conn[c].of
  <2>1. s \in Stations
    BY LinesAre DEF VenueInv, LinksInv
  <2>2. c # NoConn /\ "master" \in conn[c].ends
    BY VenueAssumption DEF VenueInv, LinksInv, RowsInv
  <2> HIDE DEF s
  <2>3. Shows(rows[i], conn[c].up, left[s], c \in misled \/ Due(unsent[s]))
    BY <2>1, <2>2 DEF VenueInv, ShowInv, s
  <2>4. ~ Due(unsent[s])
    BY DEF Due, Silent, s
  <2> QED BY <2>3, <2>4 DEF Shows, s
<1> QED BY <1>1, Always, PTL

\* A station that comes back after a drop, a stop of the server or a restart of
\* the master is in the group staff last gave it, unless the master may have
\* forgotten it: the exceptions GroupsReturn names, a failed send, a failed or
\* broken save and a death in one among them (g_stationGroups,
\* station_groups.txt and the list of rows).
THEOREM GroupsKept == Spec => []GroupsReturn
<1>1. VenueInv => GroupsReturn
  BY DEF VenueInv, GroupInv, GroupsReturn
<1> QED BY <1>1, Always, PTL
=============================================================================
