------------------------------ MODULE Calendar ------------------------------
(***************************************************************************)
(* What the write path promises: every operation on the calendar happens   *)
(* at once, and none of them gives a station to two reservations that      *)
(* block it at the same time.  Requests, transactions and locks do not     *)
(* exist here; Reservations implements this module.                        *)
(***************************************************************************)
EXTENDS ReservationTable

VARIABLES
  clock,
  rows,
  accepted   \* <<id, payment>> for which confirmPayment reported success

calendarVars == <<clock, rows, accepted>>

CalendarInit ==
  /\ clock = 0
  /\ rows = [i \in Ids |-> NoRow]
  /\ accepted = {}

\* As reservation i, the row takes nothing another reservation has a claim to.
Fits(i, row) ==
  \A j \in Ids \ {i} : Blocking(rows[j], clock) => ~ Conflict(row, rows[j])

\* create(): a new reservation, held until deadline or confirmed.
Book(i, q, stations, deadline) ==
  /\ rows[i].status = "none"
  /\ Cardinality(stations) = q.count
  /\ Fits(i, NewRow(q, stations, deadline))
  /\ rows' = [rows EXCEPT ![i] = NewRow(q, stations, deadline)]
  /\ UNCHANGED <<clock, accepted>>

\* update(): another schedule for a live reservation.
Move(i, q, stations) ==
  /\ rows[i].status \in {"held", "confirmed"}
  /\ Cardinality(stations) = q.count
  /\ Fits(i, Reschedule(rows[i], q, stations))
  /\ rows' = [rows EXCEPT ![i] = Reschedule(@, q, stations)]
  /\ UNCHANGED <<clock, accepted>>

\* confirmPayment(): also for a hold that lapsed, if its time is still free.
Accept(i, pay) ==
  /\ rows[i].status \in {"held", "expired"}
  /\ Fits(i, rows[i])
  /\ rows' = [rows EXCEPT ![i] = Paid(@, pay)]
  /\ accepted' = accepted \cup {<<i, pay>>}
  /\ UNCHANGED clock

\* expireHolds() and reconcileHolds(): only holds that are past due lapse.
Lapse(holds) ==
  /\ rows' = [i \in Ids |-> IF i \in holds THEN Transition(rows[i], "expired") ELSE rows[i]]
  /\ UNCHANGED <<clock, accepted>>

\* cancel() and failPayment().
Drop(i) ==
  /\ \/ rows[i].status \in {"held", "confirmed"}
        /\ rows' = [rows EXCEPT ![i] = Transition(@, "cancelled")]
     \/ rows[i].status = "held"
        /\ rows' = [rows EXCEPT ![i] = Transition(@, "payment_failed")]
  /\ UNCHANGED <<clock, accepted>>

Advance ==
  /\ clock < MaxClock
  /\ clock' = clock + 1
  /\ UNCHANGED <<rows, accepted>>

CalendarNext ==
  \/ \E i \in Ids, q \in Requests, stations \in SUBSET Stations :
       \/ \E deadline \in {NoDeadline} \cup 0 .. clock + MaxHold :
            Book(i, q, stations, deadline)
       \/ Move(i, q, stations)
  \/ \E i \in Ids, pay \in Payments : Accept(i, pay)
  \/ \E holds \in SUBSET Overdue(rows, clock) : Lapse(holds)
  \/ \E i \in Ids : Drop(i)
  \/ Advance

CalendarSpec == CalendarInit /\ [][CalendarNext]_calendarVars
=============================================================================
