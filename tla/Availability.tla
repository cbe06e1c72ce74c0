---------------------------- MODULE Availability ----------------------------
(***************************************************************************)
(* The pure scheduling rules of the booking system: which stations a day's *)
(* blocking sessions leave free (Availability.php), which of the free      *)
(* stations a booking gets (StationAllocator.php) and which start times    *)
(* the public page offers.                                                 *)
(*                                                                         *)
(* Times are minutes after local midnight.  A block is a record            *)
(* [station, start, end] saying that a session occupies the station over   *)
(* [start, end).                                                           *)
(***************************************************************************)
EXTENDS Integers, FiniteSets

\* Mutant: the buffer is kept after a session and not before it.
TooCloseOneSided(start, end, block, buffer) ==
  start < block.end + buffer /\ block.start < end

\* Two windows closer than buffer minutes to each other.
TooClose(start, end, block, buffer) ==
  start < block.end + buffer /\ block.start < end + buffer

FreeStations(stations, blocks, start, end, buffer) ==
  {s \in stations :
     ~ \E b \in blocks : b.station = s /\ TooClose(start, end, b, buffer)}

(***************************************************************************)
(* StationAllocator::choose prefers the station that has been idle for the *)
(* shortest time before the new session, then the lowest station number.   *)
(* A station with no earlier session that day has been idle since opening. *)
(***************************************************************************)
PreviousEnds(s, blocks, start, open) ==
  {IF open < start THEN open ELSE start}
    \cup {b.end : b \in {c \in blocks : c.station = s /\ c.end <= start}}

Gap(s, blocks, start, open) ==
  LET ends == PreviousEnds(s, blocks, start, open)
  IN  start - (CHOOSE e \in ends : \A f \in ends : f <= e)

Preferred(s, t, number, blocks, start, open) ==
  LET gapS == Gap(s, blocks, start, open)
      gapT == Gap(t, blocks, start, open)
  IN  gapS < gapT \/ (gapS = gapT /\ number[s] < number[t])

\* Mutant: the lowest station numbers, however long the stations were idle.
AllocationsByNumber(free, blocks, number, start, count, open) ==
  {chosen \in SUBSET free :
     /\ count >= 1
     /\ Cardinality(chosen) = count
     /\ \A s \in chosen, t \in free \ chosen : number[s] < number[t]}

\* What choose() may return: a set with the one allocation, or the empty set
\* where the code returns null.
Allocations(free, blocks, number, start, count, open) ==
  {chosen \in SUBSET free :
     /\ count >= 1
     /\ Cardinality(chosen) = count
     /\ \A s \in chosen, t \in free \ chosen :
          Preferred(s, t, number, blocks, start, open)}

(***************************************************************************)
(* Availability::slots: the start times on the grid that fit in the        *)
(* opening hours and are not before the earliest start.                    *)
(***************************************************************************)
\* Mutant: the grid is rounded down to a start that is too early.
FirstSlotRoundedDown(open, earliest, step) ==
  IF earliest > open THEN open + ((earliest - open) \div step) * step ELSE open

FirstSlot(open, earliest, step) ==
  IF earliest > open
  THEN open + ((earliest - open + step - 1) \div step) * step
  ELSE open

SlotStarts(open, close, duration, step, earliest) ==
  {t \in FirstSlot(open, earliest, step) .. (close - duration) :
     (t - FirstSlot(open, earliest, step)) % step = 0}
=============================================================================
