------------------------------- MODULE Slots -------------------------------
(***************************************************************************)
(* One day as customers and staff see it: the start times the public page  *)
(* offers (PublicApi::availability), the rules a booking is checked        *)
(* against afterwards (Reservations::checkRules with BookingRules) and the *)
(* stations it gets (StationAllocator), while sessions are booked and      *)
(* cancelled and time passes.                                              *)
(***************************************************************************)
EXTENDS Availability

CONSTANTS
  Stations, number,
  Days,        \* what the settings and the opening hours may say of the day
  Durations,
  DayEnd,      \* minutes in a day
  MaxSessions  \* bound on the sessions of the day

ASSUME SlotsAssumption ==
  /\ IsFiniteSet(Stations)
  /\ number \in [Stations -> Nat]
  /\ \A s, t \in Stations : number[s] = number[t] => s = t
  /\ DayEnd \in Nat /\ MaxSessions \in Nat /\ Durations \subseteq Nat \ {0}
  /\ \A d \in Days :
       /\ d.open \in 0 .. DayEnd /\ d.close \in d.open + 1 .. DayEnd
       /\ d.step \in Nat \ {0} /\ d.lead \in Nat /\ d.buffer \in Nat
       /\ d.today \in BOOLEAN

VARIABLES
  day,     \* [open, close, step, lead, buffer, today]
  now,     \* minutes after local midnight
  blocks,  \* the sessions that block stations, with the booking they belong to
  last     \* the booking made last

vars == <<day, now, blocks, last>>

TypeOK ==
  /\ day \in Days
  /\ now \in 0 .. DayEnd - 1
  /\ \A b \in blocks : b.station \in Stations /\ b.start \in 0 .. DayEnd /\ b.end \in 0 .. DayEnd
  /\ last \in 0 .. MaxSessions

Init ==
  /\ day \in Days
  /\ now = 0
  /\ blocks = {}
  /\ last = 0
-----------------------------------------------------------------------------
Free(start, duration) ==
  FreeStations(Stations, blocks, start, start + duration, day.buffer)

Earliest == IF day.today THEN now + day.lead ELSE 0

\* The start times offered for a session of count stations (the page leaves out
\* those with fewer stations free).
Offered(duration, count) ==
  {t \in SlotStarts(day.open, day.close, duration, day.step, Earliest) :
     Cardinality(Free(t, duration)) >= count}

\* checkRules() for a booking by the public.
RulesAllow(start, duration) ==
  /\ start + duration <= DayEnd
  /\ day.open <= start /\ start + duration <= day.close
  /\ (start - day.open) % day.step = 0
  /\ day.today => now + day.lead <= start

Chosen(start, duration, count) ==
  Allocations(Free(start, duration), blocks, number, start, count, day.open)

Occupy(start, duration, chosen) ==
  /\ last < MaxSessions
  /\ last' = last + 1
  /\ blocks' = blocks \cup {[station |-> s, start |-> start, end |-> start + duration,
                             booking |-> last'] : s \in chosen}
  /\ UNCHANGED <<day, now>>

CustomerBooks(start, duration, count) ==
  /\ RulesAllow(start, duration)
  /\ \E chosen \in Chosen(start, duration, count) : Occupy(start, duration, chosen)

\* Staff book off the grid and outside hours, but within the day.
StaffBooks(start, duration, count) ==
  /\ start + duration <= DayEnd
  /\ \E chosen \in Chosen(start, duration, count) : Occupy(start, duration, chosen)

Cancel(booking) ==
  /\ blocks' = {b \in blocks : b.booking # booking}
  /\ UNCHANGED <<day, now, last>>

\* On another day than today nothing depends on the minute.
MinutePasses ==
  /\ day.today /\ now < DayEnd - 1
  /\ now' = now + 1
  /\ UNCHANGED <<day, blocks, last>>

Next ==
  \/ \E start \in 0 .. DayEnd - 1, duration \in Durations, count \in 1 .. Cardinality(Stations) :
       CustomerBooks(start, duration, count) \/ StaffBooks(start, duration, count)
  \/ \E b \in blocks : Cancel(b.booking)
  \/ MinutePasses

Spec == Init /\ [][Next]_vars
-----------------------------------------------------------------------------
(* Properties. *)

\* The page offers exactly the start times at which create() accepts the
\* booking, at every minute and with any sessions on the day: the grid skipped
\* to the earliest start in slots() is the one checkRules() tests by remainder.
OfferedIffAccepted ==
  \A start \in 0 .. DayEnd, duration \in Durations, count \in 1 .. Cardinality(Stations) :
    start \in Offered(duration, count)
      <=> RulesAllow(start, duration) /\ Chosen(start, duration, count) # {}

\* Two sessions on one station keep the buffer between them, also around
\* staff bookings off the grid and stations that were freed again.
SessionsApart ==
  \A b, c \in blocks :
    b.station = c.station /\ b.booking # c.booking => ~ TooClose(b.start, b.end, c, day.buffer)

\* A booking gets the stations that filling it one station at a time would
\* get, and there is always exactly one such choice.
OneByOne(free, start, count) ==
  LET Best(among) == CHOOSE s \in among :
                       \A t \in among \ {s} : Preferred(s, t, number, blocks, start, day.open)
      first[n \in 0 .. count] ==
        IF n = 0 THEN {} ELSE first[n - 1] \cup {Best(free \ first[n - 1])}
  IN  first[count]

TightestFit ==
  \A start \in 0 .. DayEnd - 1, duration \in Durations, count \in 1 .. Cardinality(Stations) :
    Cardinality(Free(start, duration)) >= count
      => Chosen(start, duration, count) = {OneByOne(Free(start, duration), start, count)}
=============================================================================
