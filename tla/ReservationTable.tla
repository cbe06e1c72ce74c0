-------------------------- MODULE ReservationTable --------------------------
(***************************************************************************)
(* The reservations table (with reservation_stations) and what the code    *)
(* reads from it.  Every operator takes the table as an argument, because  *)
(* the abstract calendar and the concurrent write path both use them.      *)
(*                                                                         *)
(* A schedule is kept the way ReservationRepository::localMinutes reads it *)
(* back from the UTC columns: minutes after local midnight of local_date.  *)
(* The schedules asked for are ones utcRange and localMinutes carry there  *)
(* and back unchanged, which is every one that neither starts nor ends in  *)
(* the hour a daylight-saving change skips.                                *)
(***************************************************************************)
EXTENDS Availability

CONSTANTS
  Ids,          \* reservation ids that may be handed out
  Stations,
  Dates,        \* local dates, ordered
  Requests,     \* the schedules asked for: [date, start, end, count]
  Payments,     \* payment ids of the provider
  MaxHold,      \* the longest hold the settings allow, in clock units
  MaxClock,     \* bound on the clock
  NoPayment, NoId

NoDeadline == -1

ASSUME ScheduleAssumption ==
  /\ Dates \subseteq Nat
  /\ \A q \in Requests :
       /\ q.date \in Dates
       /\ q.start \in Nat /\ q.end \in Nat /\ q.start < q.end
       /\ q.count \in Nat \ {0}

ASSUME TableAssumption ==
  /\ MaxHold \in Nat /\ MaxClock \in Nat
  /\ NoPayment \notin Payments /\ NoId \notin Ids

Status == {"none", "held", "confirmed", "expired", "payment_failed", "cancelled"}

\* "none" marks an id no row has been inserted for.
Row == [status : Status, date : Nat, start : Nat, end : Nat,
        stations : SUBSET Stations, deadline : Nat \cup {NoDeadline},
        payment : Payments \cup {NoPayment}]

NoRow == [status |-> "none", date |-> 0, start |-> 0, end |-> 0, stations |-> {},
          deadline |-> NoDeadline, payment |-> NoPayment]

\* The sessions that block stations: confirmed, and holds that have not expired.
Blocking(row, now) ==
  row.status = "confirmed" \/ (row.status = "held" /\ row.deadline > now)

\* Mutant: holds do not block.
BlocksOfConfirmed(table, date, now, except) ==
  UNION {{[station |-> s, start |-> table[i].start, end |-> table[i].end] :
            s \in table[i].stations} :
         i \in {j \in Ids \ {except} : table[j].date = date /\ table[j].status = "confirmed"}}

\* blocksForDate: the blocks of a date, without those of the reservation except.
BlocksForDate(table, date, now, except) ==
  UNION {{[station |-> s, start |-> table[i].start, end |-> table[i].end] :
            s \in table[i].stations} :
         i \in {j \in Ids \ {except} : table[j].date = date /\ Blocking(table[j], now)}}

\* Mutant: every hold is overdue.
OverdueAtOnce(table, now) == {i \in Ids : table[i].status = "held"}

\* Held reservations whose hold has passed (overdueHolds, and the sweep's WHERE).
Overdue(table, now) ==
  {i \in Ids : table[i].status = "held" /\ table[i].deadline <= now}

\* transition(): the new status, and hold_expires_at = NULL.
Transition(row, to) == [row EXCEPT !.status = to, !.deadline = NoDeadline]

Reschedule(row, q, stations) ==
  [row EXCEPT !.date = q.date, !.start = q.start, !.end = q.end, !.stations = stations]

NewRow(q, stations, deadline) ==
  [status |-> IF deadline = NoDeadline THEN "confirmed" ELSE "held",
   date |-> q.date, start |-> q.start, end |-> q.end, stations |-> stations,
   deadline |-> deadline, payment |-> NoPayment]

Paid(row, pay) == [Transition(row, "confirmed") EXCEPT !.payment = pay]

\* Mutant: a swept hold is not recognised as past due.
PastDueUnswept(row, now) == row.deadline # NoDeadline /\ row.deadline <= now

\* Past due in either of two ways: still held with an old deadline, or swept.
PastDue(row, now) ==
  row.status = "expired" \/ (row.deadline # NoDeadline /\ row.deadline <= now)

\* Mutant: a late payment is honoured without looking.
StillFreeUnchecked(table, i, now, buffer) == TRUE

\* Whether every station of reservation i is free for it.
StillFree(table, i, now, buffer) ==
  table[i].stations \subseteq
    FreeStations(table[i].stations, BlocksForDate(table, table[i].date, now, i),
                 table[i].start, table[i].end, buffer)

\* Mutant: a second payment is accepted for a confirmed reservation.
ConfirmOutcomeTwice(table, i, pay, now, buffer) ==
  CASE table[i].status \in {"held", "expired", "confirmed"} ->
         IF PastDue(table[i], now) /\ ~ StillFree(table, i, now, buffer)
         THEN "hold_expired" ELSE "pay"
    [] OTHER -> "wrong_status"

\* What confirmPayment() decides about a row it has locked.
ConfirmOutcome(table, i, pay, now, buffer) ==
  CASE table[i].status = "confirmed" /\ table[i].payment = pay -> "repeat"
    [] table[i].status \in {"held", "expired"} ->
         IF PastDue(table[i], now) /\ ~ StillFree(table, i, now, buffer)
         THEN "hold_expired" ELSE "pay"
    [] OTHER -> "wrong_status"

\* Two reservations that want the same station at the same time.
Conflict(r, s) ==
  /\ r.date = s.date
  /\ r.stations \cap s.stations # {}
  /\ r.start < s.end /\ s.start < r.end
=============================================================================
