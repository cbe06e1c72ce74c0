----------------------------- MODULE SlotsProofs -----------------------------
(***************************************************************************)
(* One day for every number of stations and sessions, every grid and every *)
(* buffer: sessions keep the buffer between them, the page offers exactly  *)
(* the start times a booking is accepted at, and a booking gets the        *)
(* stations that filling it one station at a time gives.                   *)
(***************************************************************************)
EXTENDS Slots, WellFoundedInduction, FiniteSetTheorems, TLAPS

-----------------------------------------------------------------------------
(* Numbers. *)

\* A nonempty set of naturals has a least member.
LEMMA Least ==
  ASSUME NEW T \in SUBSET Nat, T # {}
  PROVE  \E n \in T : \A m \in T : n <= m
<1>1. PICK n \in T : \A m \in T : ~ (<<m, n>> \in OpToRel(<, Nat))
  BY NatLessThanWellFounded, WFMin
<1>2. \A m \in T : ~ (m < n)
  BY <1>1 DEF OpToRel
<1> QED BY <1>2

\* A nonempty set of naturals with a bound has a greatest member.
LEMMA Greatest ==
  ASSUME NEW T \in SUBSET Nat, T # {}, NEW latest \in Nat, \A n \in T : n <= latest
  PROVE  \E n \in T : \A m \in T : m <= n
<1> DEFINE U == {latest - n : n \in T}
<1>1. U \in SUBSET Nat /\ U # {}
  <2>1. \A n \in T : latest - n \in Nat
    OBVIOUS
  <2> QED BY <2>1
<1>2. PICK u \in U : \A v \in U : u <= v
  <2> HIDE DEF U
  <2> QED BY <1>1, Least
<1>3. PICK n \in T : u = latest - n
  BY <1>2
<1>4. ASSUME NEW m \in T
      PROVE  m <= n
  <2>1. latest - n <= latest - m
    BY <1>2, <1>3
  <2> QED BY <2>1
<1> QED BY <1>4

LEMMA Division ==
  ASSUME NEW a \in Int, NEW step \in Nat \ {0}
  PROVE  /\ a = ((a \div step) * step) + (a % step)
         /\ a % step \in 0 .. step - 1 /\ a \div step \in Int
OBVIOUS

LEMMA Remainder ==
  ASSUME NEW a \in Int, NEW step \in Nat \ {0}, NEW q \in Int, NEW r \in 0 .. step - 1,
         a = (q * step) + r
  PROVE  a % step = r
OBVIOUS

LEMMA Order ==
  ASSUME NEW a \in Int, NEW b \in Int, NEW step \in Nat \ {0}, a * step < b * step
  PROVE  a < b
OBVIOUS

\* Whole steps leave the remainder as it is.
LEMMA ShiftedRemainder ==
  ASSUME NEW a \in Int, NEW step \in Nat \ {0}, NEW q \in Int
  PROVE  (a - (q * step)) % step = a % step
<1> DEFINE d == a \div step
           r == a % step
<1>1. a = (d * step) + r /\ r \in 0 .. step - 1 /\ d \in Int
  BY Division
<1>2. a - (q * step) = ((d - q) * step) + r
  BY <1>1
<1>3. d - q \in Int /\ a - (q * step) \in Int
  BY <1>1
<1> HIDE DEF d, r
<1>4. (a - (q * step)) % step = r
  BY <1>1, <1>2, <1>3, Remainder
<1> QED BY <1>4 DEF r

OnGrid(t, open, close, duration, step, earliest) ==
  t \in SlotStarts(open, close, duration, step, earliest)
    <=> /\ open <= t /\ earliest <= t /\ t + duration <= close
        /\ (t - open) % step = 0

\* The grid slots() runs along holds the times checkRules() accepts: both start
\* at the opening hour, and the first slot is the first not before earliest.
LEMMA GridIsTheRules ==
  ASSUME NEW open \in Nat, NEW close \in Nat, NEW duration \in Nat, NEW step \in Nat \ {0},
         NEW earliest \in Nat, NEW t \in Nat
  PROVE  OnGrid(t, open, close, duration, step, earliest)
<1> DEFINE first == FirstSlot(open, earliest, step)
           k == IF earliest > open THEN (earliest - open + step - 1) \div step ELSE 0
<1>1. k \in Int /\ first = open + (k * step)
  <2>1. (earliest - open + step - 1) \div step \in Int
    BY Division
  <2>2. CASE earliest > open
    BY <2>1, <2>2 DEF FirstSlot
  <2>3. CASE ~ (earliest > open)
    BY <2>3 DEF FirstSlot
  <2> QED BY <2>2, <2>3
<1>2. first \in Int /\ open <= first /\ earliest <= first /\ (earliest > open => first < earliest + step)
      /\ (earliest <= open => first = open)
  <2>1. CASE earliest > open
    <3> DEFINE a == earliest - open + step - 1
    <3>1. a \in Int /\ k = a \div step
      BY <2>1
    <3>2. a = (k * step) + (a % step) /\ a % step \in 0 .. step - 1
      BY <3>1, Division
    <3> QED BY <1>1, <2>1, <3>1, <3>2
  <2>2. CASE ~ (earliest > open)
    BY <1>1, <2>2 DEF FirstSlot
  <2> QED BY <2>1, <2>2
<1> HIDE DEF first, k
<1>3. (t - first) % step = (t - open) % step
  <2>1. t - first = (t - open) - (k * step)
    BY <1>1
  <2>2. t - open \in Int /\ k \in Int
    BY <1>1
  <2>3. ((t - open) - (k * step)) % step = (t - open) % step
    <3> DEFINE a == t - open
    <3>1. a \in Int
      BY <2>2
    <3> HIDE DEF a
    <3>2. (a - (k * step)) % step = a % step
      BY <2>2, <3>1, ShiftedRemainder
    <3> QED BY <3>2 DEF a
  <2> QED BY <2>1, <2>3
<1>4. ASSUME open <= t, earliest <= t, (t - open) % step = 0
      PROVE  first <= t
  <2>1. CASE earliest <= open
    BY <1>2, <1>4, <2>1
  <2>2. CASE earliest > open
    <3> DEFINE m == (t - open) \div step
    <3>1. m \in Int /\ t = open + (m * step)
      BY <1>4, Division
    <3> HIDE DEF m
    <3>2. first < t + step
      BY <1>2, <1>4, <2>2
    <3>3. k * step < (m + 1) * step
      BY <1>1, <3>1, <3>2
    <3>4. k < m + 1
      BY <1>1, <3>1, <3>3, Order
    <3>5. k <= m
      BY <1>1, <3>1, <3>4
    <3>6. k * step <= m * step
      BY <1>1, <3>1, <3>5
    <3> QED BY <1>1, <3>1, <3>6
  <2> QED BY <1>2, <2>1, <2>2
<1>5. SlotStarts(open, close, duration, step, earliest)
        = {u \in first .. (close - duration) : (u - first) % step = 0}
  BY DEF SlotStarts, first
<1> QED BY <1>2, <1>3, <1>4, <1>5 DEF OnGrid
-----------------------------------------------------------------------------
(* The allocator. *)

\* How long a station was idle is a number.
LEMMA GapType ==
  ASSUME NEW s, NEW among, \A b \in among : b.end \in Nat, NEW start \in Nat, NEW open \in Nat
  PROVE  Gap(s, among, start, open) \in Nat
<1> DEFINE ends == PreviousEnds(s, among, start, open)
<1>1. ends \in SUBSET Nat /\ ends # {} /\ \A e \in ends : e <= start
  BY DEF PreviousEnds
<1>2. PICK e \in ends : \A f \in ends : f <= e
  <2> HIDE DEF ends
  <2> QED BY <1>1, Greatest
<1>3. PICK c \in ends : Gap(s, among, start, open) = start - c
  BY <1>2 DEF Gap
<1>4. c \in Nat /\ c <= start
  <2> HIDE DEF ends
  <2> QED BY <1>1
<1> QED BY <1>3, <1>4

\* Of any stations one is preferred to all others: the shortest gap, and of
\* several with that gap the lowest number.
LEMMA BestStation ==
  ASSUME NEW R \in SUBSET Stations, R # {},
         NEW among, \A b \in among : b.end \in Nat, NEW start \in Nat, NEW open \in Nat
  PROVE  \E s \in R : \A t \in R \ {s} : Preferred(s, t, number, among, start, open)
<1> DEFINE G(s) == Gap(s, among, start, open)
<1>1. \A s \in R : G(s) \in Nat
  BY GapType
<1> DEFINE gaps == {G(s) : s \in R}
<1>2. PICK g \in gaps : \A h \in gaps : g <= h
  <2>1. gaps \in SUBSET Nat /\ gaps # {}
    BY <1>1
  <2> HIDE DEF gaps
  <2> QED BY <2>1, Least
<1> DEFINE tied == {s \in R : G(s) = g}
           numbers == {number[s] : s \in tied}
<1>3. PICK n \in numbers : \A m \in numbers : n <= m
  <2>1. numbers \in SUBSET Nat /\ numbers # {}
    BY <1>2, SlotsAssumption
  <2> HIDE DEF numbers
  <2> QED BY <2>1, Least
<1>4. PICK s \in tied : n = number[s]
  BY <1>3
<1>5. ASSUME NEW t \in R \ {s}
      PROVE  Preferred(s, t, number, among, start, open)
  <2>1. s \in R /\ G(s) = g /\ G(t) \in Nat /\ g \in Nat /\ g <= G(t)
    BY <1>1, <1>2, <1>4, <1>5
  <2>2. CASE g < G(t)
    BY <2>1, <2>2 DEF Preferred
  <2>3. CASE G(t) = g
    <3>1. number[s] <= number[t]
      BY <1>3, <1>4, <2>3
    <3>2. number[s] # number[t] /\ number[s] \in Nat /\ number[t] \in Nat
      BY <1>5, <2>1, SlotsAssumption
    <3>3. number[s] < number[t]
      BY <3>1, <3>2
    <3> QED BY <2>1, <2>3, <3>3 DEF Preferred
  <2> QED BY <2>1, <2>2, <2>3
<1> QED BY <1>4, <1>5

\* The stations of a session that takes k of the free ones: no other is preferred.
Filled(free, among, start, open, k) ==
  {chosen \in SUBSET free :
     /\ Cardinality(chosen) = k
     /\ \A s \in chosen, t \in free \ chosen : Preferred(s, t, number, among, start, open)}

LEMMA FreeIsFinite ==
  ASSUME NEW free \in SUBSET Stations
  PROVE  IsFiniteSet(free) /\ Cardinality(free) \in Nat
BY SlotsAssumption, FS_Subset, FS_CardinalityType

\* With one more station, the one preferred to the others that are left.
LEMMA OneMore ==
  ASSUME NEW free \in SUBSET Stations, NEW among, NEW start, NEW open, NEW k \in Nat,
         NEW chosen \in Filled(free, among, start, open, k), NEW s \in free \ chosen,
         \A t \in (free \ chosen) \ {s} : Preferred(s, t, number, among, start, open)
  PROVE  chosen \cup {s} \in Filled(free, among, start, open, k + 1)
<1> DEFINE more == chosen \cup {s}
           Better(u, t) == Preferred(u, t, number, among, start, open)
<1>1. chosen \in SUBSET free /\ Cardinality(chosen) = k
      /\ \A u \in chosen, t \in free \ chosen : Better(u, t)
  BY DEF Filled
<1> HIDE DEF Better
<1>2. Cardinality(more) = k + 1
  <2>1. IsFiniteSet(chosen)
    BY <1>1, FreeIsFinite, FS_Subset
  <2> QED BY <1>1, <2>1, FS_AddElement
<1>3. \A u \in more, t \in free \ more : Better(u, t)
  BY <1>1 DEF Better
<1>4. more \in SUBSET free
  BY <1>1
<1> QED BY <1>2, <1>3, <1>4 DEF Filled, Better

LEMMA NoStations ==
  ASSUME NEW free \in SUBSET Stations, NEW among, NEW start, NEW open
  PROVE  Filled(free, among, start, open, 0) = {{}}
<1>1. \A chosen \in SUBSET free : Cardinality(chosen) = 0 <=> chosen = {}
  BY FreeIsFinite, FS_Subset, FS_EmptySet
<1> QED BY <1>1 DEF Filled

\* Fewer stations than are free leave some over.
LEMMA SomeLeft ==
  ASSUME NEW free \in SUBSET Stations, NEW among, NEW start, NEW open,
         NEW k \in 0 .. Cardinality(free) - 1, NEW chosen \in Filled(free, among, start, open, k)
  PROVE  free \ chosen # {} /\ free \ chosen \in SUBSET Stations
<1>1. chosen \in SUBSET free /\ Cardinality(chosen) = k /\ Cardinality(free) \in Nat
  BY FreeIsFinite DEF Filled
<1>2. chosen # free
  BY <1>1
<1> QED BY <1>1, <1>2

\* As many stations as are free can be had.
LEMMA EnoughFree ==
  ASSUME NEW free \in SUBSET Stations, NEW count \in 0 .. Cardinality(free),
         NEW among, \A b \in among : b.end \in Nat, NEW start \in Nat, NEW open \in Nat
  PROVE  Filled(free, among, start, open, count) # {}
<1> DEFINE stuck == {k \in 0 .. Cardinality(free) : Filled(free, among, start, open, k) = {}}
<1>1. Cardinality(free) \in Nat
  BY FreeIsFinite
<1>2. stuck = {}
  <2> SUFFICES ASSUME stuck # {}
               PROVE  FALSE
    OBVIOUS
  <2>1. PICK k \in stuck : \A m \in stuck : k <= m
    <3>1. stuck \in SUBSET Nat
      BY <1>1
    <3> HIDE DEF stuck
    <3> QED BY <3>1, Least
  <2>2. k # 0
    BY <2>1, NoStations
  <2>3. k \in Nat /\ k - 1 \in 0 .. Cardinality(free) - 1 /\ k - 1 \in 0 .. Cardinality(free) /\ (k - 1) + 1 = k
    BY <1>1, <2>1, <2>2
  <2>4. k - 1 \in Nat /\ ~ (k <= k - 1)
    BY <2>3
  <2>5. PICK chosen \in Filled(free, among, start, open, k - 1) : TRUE
    BY <2>1, <2>3, <2>4
  <2> DEFINE m == k - 1
  <2>6. m \in Nat /\ m \in 0 .. Cardinality(free) - 1 /\ m + 1 = k /\ chosen \in Filled(free, among, start, open, m)
    BY <2>3, <2>4, <2>5
  <2> HIDE DEF m
  <2>7. free \ chosen # {} /\ free \ chosen \in SUBSET Stations
    BY <2>6, SomeLeft
  <2>8. PICK s \in free \ chosen : \A t \in (free \ chosen) \ {s} : Preferred(s, t, number, among, start, open)
    BY <2>7, BestStation
  <2>9. chosen \cup {s} \in Filled(free, among, start, open, k)
    BY <2>6, <2>8, OneMore
  <2> QED BY <2>1, <2>9
<1> QED BY <1>2

\* Of two stations only one is preferred to the other.
LEMMA OneWay ==
  ASSUME NEW s \in Stations, NEW t \in Stations,
         NEW among, \A b \in among : b.end \in Nat, NEW start \in Nat, NEW open \in Nat
  PROVE  ~ (Preferred(s, t, number, among, start, open) /\ Preferred(t, s, number, among, start, open))
<1>1. Gap(s, among, start, open) \in Nat /\ Gap(t, among, start, open) \in Nat
  BY GapType
<1>2. number[s] \in Nat /\ number[t] \in Nat
  BY SlotsAssumption
<1> QED BY <1>1, <1>2 DEF Preferred

\* And they can be had in one way only.
LEMMA OnlyOne ==
  ASSUME NEW free \in SUBSET Stations, NEW k \in Nat,
         NEW among, \A b \in among : b.end \in Nat, NEW start \in Nat, NEW open \in Nat,
         NEW A \in Filled(free, among, start, open, k), NEW B \in Filled(free, among, start, open, k)
  PROVE  A = B
<1>1. /\ A \in SUBSET free /\ B \in SUBSET free /\ Cardinality(A) = Cardinality(B)
      /\ \A s \in A, t \in free \ A : Preferred(s, t, number, among, start, open)
      /\ \A s \in B, t \in free \ B : Preferred(s, t, number, among, start, open)
  BY DEF Filled
<1> SUFFICES ASSUME A # B
             PROVE  FALSE
  OBVIOUS
<1>2. IsFiniteSet(A) /\ IsFiniteSet(B)
  BY <1>1, FreeIsFinite, FS_Subset
<1>3. A \ B # {}
  <2> SUFFICES ASSUME A \in SUBSET B
               PROVE  FALSE
    OBVIOUS
  <2> QED BY <1>1, <1>2, FS_Subset
<1>4. B \ A # {}
  <2> SUFFICES ASSUME B \in SUBSET A
               PROVE  FALSE
    OBVIOUS
  <2> QED BY <1>1, <1>2, FS_Subset
<1>5. PICK s \in A \ B, t \in B \ A : TRUE
  BY <1>3, <1>4
<1>6. s \in Stations /\ t \in Stations
      /\ Preferred(s, t, number, among, start, open) /\ Preferred(t, s, number, among, start, open)
  BY <1>1, <1>5
<1> QED BY <1>6, OneWay

\* choose() finds stations exactly when enough of them are free.
LEMMA AllocatedIffFree ==
  ASSUME NEW free \in SUBSET Stations, NEW count \in Nat \ {0},
         NEW among, \A b \in among : b.end \in Nat, NEW start \in Nat, NEW open \in Nat
  PROVE  Allocations(free, among, number, start, count, open) # {} <=> Cardinality(free) >= count
<1>1. Cardinality(free) \in Nat /\ IsFiniteSet(free)
  BY FreeIsFinite
<1>2. Allocations(free, among, number, start, count, open) = Filled(free, among, start, open, count)
  BY DEF Allocations, Filled
<1>3. ASSUME Cardinality(free) >= count
      PROVE  Filled(free, among, start, open, count) # {}
  BY <1>1, <1>3, EnoughFree
<1>4. ASSUME Filled(free, among, start, open, count) # {}
      PROVE  Cardinality(free) >= count
  <2>1. PICK chosen \in SUBSET free : Cardinality(chosen) = count
    BY <1>4 DEF Filled
  <2> QED BY <1>1, <2>1, FS_Subset
<1> QED BY <1>2, <1>3, <1>4

\* Taking the preferred station of those that are left, one at a time, gives the
\* same stations: the sets it goes through are the filled ones.
LEMMA OneByOneFills ==
  ASSUME NEW free \in SUBSET Stations, NEW count \in 0 .. Cardinality(free),
         \A b \in blocks : b.end \in Nat, NEW start \in Nat, day.open \in Nat
  PROVE  OneByOne(free, start, count) \in Filled(free, blocks, start, day.open, count)
<1> DEFINE Best(among) == CHOOSE s \in among :
                            \A t \in among \ {s} : Preferred(s, t, number, blocks, start, day.open)
           Next1(f, n) == IF n = 0 THEN {} ELSE f[n - 1] \cup {Best(free \ f[n - 1])}
           first == CHOOSE f : f = [n \in 0 .. count |-> Next1(f, n)]
           Of(n) == Filled(free, blocks, start, day.open, n)
           F == [n \in 0 .. count |-> CHOOSE chosen : chosen \in Of(n)]
<1>1. OneByOne(free, start, count) = first[count]
  BY DEF OneByOne
<1>2. Cardinality(free) \in Nat /\ count \in Nat
  BY FreeIsFinite
<1>3. \A n \in 0 .. count : F[n] \in Of(n)
  <2>1. \A n \in 0 .. count : Of(n) # {}
    BY <1>2, EnoughFree
  <2> HIDE DEF Of
  <2> QED BY <2>1
<1>4. ASSUME NEW n \in 1 .. count, NEW chosen \in Of(n - 1)
      PROVE  chosen \cup {Best(free \ chosen)} \in Of(n)
  <2> DEFINE m == n - 1
             R == free \ chosen
  <2>1. m \in Nat /\ m \in 0 .. Cardinality(free) - 1 /\ m + 1 = n /\ chosen \in Of(m)
    BY <1>2, <1>4
  <2> HIDE DEF m
  <2>2. R # {} /\ R \in SUBSET Stations
    BY <2>1, SomeLeft
  <2>3. Best(R) \in R /\ \A t \in R \ {Best(R)} : Preferred(Best(R), t, number, blocks, start, day.open)
    <3>1. \E s \in R : \A t \in R \ {s} : Preferred(s, t, number, blocks, start, day.open)
      BY <2>2, BestStation
    <3> HIDE DEF R
    <3> QED BY <3>1
  <2> HIDE DEF Best
  <2> QED BY <2>1, <2>3, OneMore
<1>5. \A n \in 0 .. count : \A A \in Of(n), B \in Of(n) : A = B
  BY <1>2, OnlyOne
<1>6. Of(0) = {{}}
  BY NoStations
<1> HIDE DEF Of, Best
<1>7. F = [n \in 0 .. count |-> Next1(F, n)]
  <2>1. ASSUME NEW n \in 0 .. count
        PROVE  F[n] = Next1(F, n)
    <3>1. CASE n = 0
      BY <1>3, <1>6, <3>1
    <3>2. CASE n # 0
      <4>1. n \in 1 .. count /\ n - 1 \in 0 .. count
        BY <1>2, <3>2
      <4>2. F[n - 1] \in Of(n - 1)
        BY <1>3, <4>1
      <4>3. Next1(F, n) \in Of(n)
        BY <1>4, <3>2, <4>1, <4>2
      <4> QED BY <1>3, <1>5, <4>3
    <3> QED BY <3>1, <3>2
  <2> HIDE DEF Next1
  <2> QED BY <2>1
<1>8. first = [n \in 0 .. count |-> Next1(first, n)]
  <2> HIDE DEF F
  <2>1. \E f : f = [n \in 0 .. count |-> Next1(f, n)]
    BY <1>7
  <2> QED BY <2>1
<1> HIDE DEF first
<1> DEFINE wrong == {n \in 0 .. count : first[n] \notin Of(n)}
<1>9. wrong = {}
  <2> SUFFICES ASSUME wrong # {}
               PROVE  FALSE
    OBVIOUS
  <2>1. PICK n \in wrong : \A m \in wrong : n <= m
    <3>1. wrong \in SUBSET Nat
      BY <1>2
    <3> HIDE DEF wrong
    <3> QED BY <3>1, Least
  <2>2. first[n] = Next1(first, n)
    BY <1>8, <2>1
  <2>3. n # 0
    BY <1>6, <2>1, <2>2
  <2>4. n \in 1 .. count /\ n - 1 \in 0 .. count /\ ~ (n <= n - 1)
    BY <1>2, <2>1, <2>3
  <2>5. first[n - 1] \in Of(n - 1)
    BY <2>1, <2>4
  <2>6. first[n] \in Of(n)
    BY <1>4, <2>2, <2>3, <2>4, <2>5
  <2> QED BY <2>1, <2>6
<1> QED BY <1>1, <1>2, <1>9 DEF Of
-----------------------------------------------------------------------------
(* The day. *)

\* Bookings are numbered as they come.
Numbered == \A b \in blocks : b.booking \in 1 .. last

IInv == TypeOK /\ Numbered /\ SessionsApart

\* A session gets stations on which it keeps its distance, before or after.
LEMMA OccupyKeeps ==
  ASSUME IInv, NEW start \in 0 .. DayEnd - 1, NEW duration \in Durations,
         NEW count \in 1 .. Cardinality(Stations), start + duration <= DayEnd,
         NEW chosen \in Chosen(start, duration, count), Occupy(start, duration, chosen)
  PROVE  IInv'
<1> DEFINE made == {[station |-> s, start |-> start, end |-> start + duration,
                     booking |-> last + 1] : s \in chosen}
<1>1. /\ last' = last + 1 /\ last < MaxSessions /\ blocks' = blocks \cup made
      /\ UNCHANGED <<day, now>>
  BY DEF Occupy
<1>2. /\ DayEnd \in Nat /\ duration \in Nat \ {0} /\ last \in Nat /\ day.buffer \in Nat
      /\ last + 1 \in 0 .. MaxSessions /\ day \in Days
  BY <1>1, SlotsAssumption DEF IInv, TypeOK
<1>3. chosen \in SUBSET Free(start, duration)
  BY DEF Chosen, Allocations
<1>4. \A s \in chosen : s \in Stations /\ \A b \in blocks : b.station = s =>
        ~ TooClose(start, start + duration, b, day.buffer)
  BY <1>3 DEF Free, FreeStations
<1>5. ASSUME NEW b \in blocks'
      PROVE  \/ b \in blocks
             \/ /\ b.station \in chosen /\ b.start = start /\ b.end = start + duration
                /\ b.booking = last + 1
  BY <1>1
<1>6. ASSUME NEW b \in blocks
      PROVE  /\ b.station \in Stations /\ b.start \in 0 .. DayEnd /\ b.end \in 0 .. DayEnd
             /\ b.booking \in 1 .. last
  BY DEF IInv, TypeOK, Numbered
<1>7. TypeOK'
  <2>1. ASSUME NEW b \in blocks'
        PROVE  b.station \in Stations /\ b.start \in 0 .. DayEnd /\ b.end \in 0 .. DayEnd
    BY <1>2, <1>4, <1>5, <1>6
  <2> QED BY <1>1, <1>2, <2>1 DEF IInv, TypeOK
<1>8. Numbered'
  BY <1>1, <1>2, <1>5, <1>6 DEF Numbered
<1>9. SessionsApart'
  <2> SUFFICES ASSUME NEW b \in blocks', NEW c \in blocks',
                      b.station = c.station, b.booking # c.booking
               PROVE  ~ TooClose(b.start, b.end, c, day.buffer)
    BY <1>1 DEF SessionsApart
  <2>1. CASE b \in blocks /\ c \in blocks
    BY <2>1 DEF IInv, SessionsApart
  <2>2. CASE b \notin blocks /\ c \in blocks
    BY <1>4, <1>5, <2>2
  <2>3. CASE b \in blocks /\ c \notin blocks
    <3>1. ~ TooClose(start, start + duration, b, day.buffer)
      BY <1>4, <1>5, <2>3
    <3>2. c.start = start /\ c.end = start + duration
      BY <1>5, <2>3
    <3> QED BY <3>1, <3>2 DEF TooClose
  <2> QED BY <1>5, <2>1, <2>2, <2>3
<1> QED BY <1>7, <1>8, <1>9 DEF IInv

LEMMA DayInit == Init => IInv
BY SlotsAssumption DEF Init, IInv, TypeOK, Numbered, SessionsApart

LEMMA DayStep == IInv /\ [Next]_vars => IInv'
<1> SUFFICES ASSUME IInv, [Next]_vars
             PROVE  IInv'
  OBVIOUS
<1>1. ASSUME NEW start \in 0 .. DayEnd - 1, NEW duration \in Durations,
             NEW count \in 1 .. Cardinality(Stations),
             CustomerBooks(start, duration, count) \/ StaffBooks(start, duration, count)
      PROVE  IInv'
  BY <1>1, OccupyKeeps DEF CustomerBooks, StaffBooks, RulesAllow
<1>2. ASSUME NEW booking, Cancel(booking)
      PROVE  IInv'
  BY <1>2 DEF Cancel, IInv, TypeOK, Numbered, SessionsApart
<1>3. CASE MinutePasses
  <2>1. now' \in 0 .. DayEnd - 1
    BY <1>3, SlotsAssumption DEF MinutePasses, IInv, TypeOK
  <2> QED BY <1>3, <2>1 DEF MinutePasses, IInv, TypeOK, Numbered, SessionsApart
<1>4. CASE UNCHANGED vars
  BY <1>4 DEF vars, IInv, TypeOK, Numbered, SessionsApart
<1> QED BY <1>1, <1>2, <1>3, <1>4 DEF Next

LEMMA DayAlways == Spec => []IInv
BY DayInit, DayStep, PTL DEF Spec

\* On every station sessions keep the buffer between them, whatever customers and
\* staff book and cancel, on the grid or off it.
THEOREM SessionsKeepTheBuffer == Spec => []SessionsApart
<1>1. IInv => SessionsApart
  BY DEF IInv
<1> QED BY <1>1, DayAlways, PTL

\* The page offers a start time exactly when a booking at that time is accepted: for
\* all opening hours, grids, lead times, durations and sessions of the day.
THEOREM OffersAreAccepted == Spec => []OfferedIffAccepted
<1>1. ASSUME IInv
      PROVE  OfferedIffAccepted
  <2> SUFFICES ASSUME NEW start \in 0 .. DayEnd, NEW duration \in Durations,
                      NEW count \in 1 .. Cardinality(Stations)
               PROVE  start \in Offered(duration, count)
                        <=> RulesAllow(start, duration) /\ Chosen(start, duration, count) # {}
    BY DEF OfferedIffAccepted
  <2>1. /\ DayEnd \in Nat /\ day.open \in Nat /\ day.close \in Nat /\ day.close <= DayEnd
        /\ day.step \in Nat \ {0} /\ day.lead \in Nat /\ duration \in Nat /\ start \in Nat
        /\ now \in Nat /\ \A b \in blocks : b.end \in Nat
    BY <1>1, SlotsAssumption DEF IInv, TypeOK
  <2>2. Earliest \in Nat /\ (Earliest <= start <=> (day.today => now + day.lead <= start))
    BY <2>1 DEF Earliest
  <2>3. start \in SlotStarts(day.open, day.close, duration, day.step, Earliest)
          <=> /\ day.open <= start /\ Earliest <= start /\ start + duration <= day.close
              /\ (start - day.open) % day.step = 0
    <3>1. OnGrid(start, day.open, day.close, duration, day.step, Earliest)
      BY <2>1, <2>2, GridIsTheRules
    <3> QED BY <3>1 DEF OnGrid
  <2>4. start \in SlotStarts(day.open, day.close, duration, day.step, Earliest)
          <=> RulesAllow(start, duration)
    BY <2>1, <2>2, <2>3 DEF RulesAllow
  <2>5. Chosen(start, duration, count) # {} <=> Cardinality(Free(start, duration)) >= count
    <3>1. Free(start, duration) \in SUBSET Stations
      BY DEF Free, FreeStations
    <3>2. count \in Nat \ {0}
      OBVIOUS
    <3> QED BY <2>1, <3>1, <3>2, AllocatedIffFree DEF Chosen
  <2> QED BY <2>4, <2>5 DEF Offered
<1> QED BY <1>1, DayAlways, PTL

\* The allocator's one choice is what taking the preferred of the free stations
\* one at a time gives: whatever is booked, for any number of stations.
THEOREM FilledOneByOne == Spec => []TightestFit
<1>1. ASSUME IInv
      PROVE  TightestFit
  <2> SUFFICES ASSUME NEW start \in 0 .. DayEnd - 1, NEW duration \in Durations,
                      NEW count \in 1 .. Cardinality(Stations),
                      Cardinality(Free(start, duration)) >= count
               PROVE  Chosen(start, duration, count) = {OneByOne(Free(start, duration), start, count)}
    BY DEF TightestFit
  <2> DEFINE free == Free(start, duration)
             Of == Filled(free, blocks, start, day.open, count)
  <2>1. day.open \in Nat /\ start \in Nat /\ \A b \in blocks : b.end \in Nat
    BY <1>1, SlotsAssumption DEF IInv, TypeOK
  <2>2. free \in SUBSET Stations
    BY DEF Free, FreeStations
  <2>3. Cardinality(free) \in Nat
    BY <2>2, FreeIsFinite
  <2>4. count \in Nat /\ count >= 1 /\ count \in 0 .. Cardinality(free)
    BY <2>3
  <2>5. Chosen(start, duration, count) = Of
    BY <2>4 DEF Chosen, Allocations, Filled
  <2> HIDE DEF free
  <2>6. OneByOne(free, start, count) \in Of
    BY <2>1, <2>2, <2>4, OneByOneFills
  <2>7. \A A, B \in Of : A = B
    BY <2>1, <2>2, <2>4, OnlyOne
  <2> HIDE DEF Of
  <2>8. Of = {OneByOne(free, start, count)}
    BY <2>6, <2>7
  <2> QED BY <2>5, <2>8 DEF free
<1> QED BY <1>1, DayAlways, PTL
=============================================================================
