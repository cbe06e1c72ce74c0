---------------------------- MODULE Reservations ----------------------------
(***************************************************************************)
(* The write path of the booking system, Reservations.php over             *)
(* ReservationRepository.php and MySQL: concurrent PHP requests create,    *)
(* edit, confirm, fail, cancel and expire reservations.                    *)
(*                                                                         *)
(* A request process reads what it needs (settings, opening hours, the     *)
(* station list, the clock, the existing row) before its transaction,      *)
(* locks one row of booking_days per date it writes, in date order,        *)
(* decides under the locks, and commits.  The state of the database can    *)
(* change between any two of these steps.  Single-statement writers        *)
(* (cancel, failPayment, the sweep) take no day lock.                      *)
(*                                                                         *)
(* create() and update() replace the reservation's links to its stations:  *)
(* the DELETE locks the gap around them in the primary key (reservation_id,*)
(* station_id), whoever else has locked it, and the INSERTs after it wait  *)
(* for everybody else with a gap they fall into.                           *)
(*                                                                         *)
(* InnoDB's read view is established by the first plain SELECT of a        *)
(* transaction, which is after the locks in every transaction here, so a   *)
(* decision sees every earlier commit.                                     *)
(***************************************************************************)
EXTENDS ReservationTable

CONSTANTS
  Procs,        \* PHP requests and console commands in flight
  number,       \* station id -> station number, unique
  Configs,      \* what settings, stations and hours may say: [buffer, active, open, hold]
  MaxAttempts,  \* attempts Transaction::run makes
  MovesHeld,    \* whether staff move reservations that are still held to another date
  NoProc

ASSUME ConfigAssumption ==
  \A c \in Configs :
    /\ c.buffer \in Nat /\ c.open \in Nat /\ c.hold \in 1 .. MaxHold
    /\ c.active \subseteq Stations

\* The keys of the two tables are integers, and ordered.
ASSUME KeyAssumption == Ids \subseteq Nat /\ Stations \subseteq Nat

ASSUME NumberAssumption ==
  /\ number \in [Stations -> Nat]
  /\ \A s, t \in Stations : number[s] = number[t] => s = t

ASSUME ProcessAssumption ==
  NoProc \notin Procs /\ MaxAttempts \in Nat \ {0} /\ MovesHeld \in BOOLEAN

VARIABLES
  clock,     \* the server's clock, in units of which a hold lasts hold
  rows,      \* the reservations table with reservation_stations
  lock,      \* date -> the transaction holding its booking_days row
  rowLock,   \* id -> the transaction holding that reservations row
  at,        \* where each process is
  txn,       \* what each process has read and been asked for
  accepted   \* <<id, payment>> for which confirmPayment reported success

vars == <<clock, rows, lock, rowLock, at, txn, accepted>>
-----------------------------------------------------------------------------
Txn == [op : {"none", "create", "update", "confirm"},
        id : Ids \cup {NoId},             \* the reservation it is about
        days : SUBSET Dates,              \* the dates it locks
        date : Nat, start : Nat, end : Nat, count : Nat,   \* the schedule asked for
        buffer : Nat, active : SUBSET Stations, open : Nat,
        deadline : Nat \cup {NoDeadline}, \* of a hold it inserts
        now : Nat,                        \* the clock reading it works with
        payment : Payments \cup {NoPayment},
        chosen : SUBSET Stations,         \* the stations it decided on
        attempt : Nat]

NoTxn == [op |-> "none", id |-> NoId, days |-> {}, date |-> 0, start |-> 0, end |-> 0,
          count |-> 0, buffer |-> 0, active |-> {}, open |-> 0,
          deadline |-> NoDeadline, now |-> 0, payment |-> NoPayment, chosen |-> {},
          attempt |-> 0]

\* A transaction about to take its locks: q is the schedule asked for (if any).
Begun(op, i, days, q, c, deadline, now, pay) ==
  [op |-> op, id |-> i, days |-> days,
   date |-> q.date, start |-> q.start, end |-> q.end, count |-> q.count,
   buffer |-> c.buffer, active |-> c.active, open |-> c.open,
   deadline |-> deadline, now |-> now, payment |-> pay, chosen |-> {}, attempt |-> 1]

Place == {"idle", "lock", "decide", "insert", "reschedule", "pay", "lapse"}

TypeOK ==
  /\ clock \in Nat
  /\ rows \in [Ids -> Row]
  /\ lock \in [Dates -> Procs \cup {NoProc}]
  /\ rowLock \in [Ids -> Procs \cup {NoProc}]
  /\ at \in [Procs -> Place]
  /\ txn \in [Procs -> Txn]
  /\ accepted \subseteq Ids \X Payments

Init ==
  /\ clock = 0
  /\ rows = [i \in Ids |-> NoRow]
  /\ lock = [d \in Dates |-> NoProc]
  /\ rowLock = [i \in Ids |-> NoProc]
  /\ at = [p \in Procs |-> "idle"]
  /\ txn = [p \in Procs |-> NoTxn]
  /\ accepted = {}
-----------------------------------------------------------------------------
(* What a transaction decides from the tables. *)

\* The allocation the transaction of p makes for the schedule it was asked for.
Placements(p) ==
  LET t == txn[p]
      blocks == BlocksForDate(rows, t.date, t.now, t.id)
      free == FreeStations(t.active, blocks, t.start, t.end, t.buffer)
  IN  Allocations(free, blocks, number, t.start, t.count, t.open)
-----------------------------------------------------------------------------
(* Locks and the ends of a transaction. *)

Held(p) == {d \in Dates : lock[d] = p}

Wanted(p) == txn[p].days \ Held(p)

\* Mutant: update() locks the requested date first.
NextDayUnsorted(p) ==
  IF txn[p].op = "update" /\ txn[p].date \in Wanted(p)
  THEN txn[p].date
  ELSE CHOOSE d \in Wanted(p) : \A e \in Wanted(p) : d <= e

\* foreach ($dates as $date) lockDay($date), with $dates sorted.
NextDay(p) == CHOOSE d \in Wanted(p) : \A e \in Wanted(p) : d <= e

\* Mutant: the locks of others are dropped from the table.
UnlockedAlone(p) == [d \in Held(p) |-> NoProc]

Unlocked(p) == [d \in Dates |-> IF lock[d] = p THEN NoProc ELSE lock[d]]

\* Mutant: row locks outlive the transaction.
RowsKept(p) == rowLock

RowsUnlocked(p) == [i \in Ids |-> IF rowLock[i] = p THEN NoProc ELSE rowLock[i]]

\* COMMIT or ROLLBACK: every lock is released and the request is answered.
Finish(p) ==
  /\ lock' = Unlocked(p)
  /\ rowLock' = RowsUnlocked(p)
  /\ at' = [at EXCEPT ![p] = "idle"]
  /\ txn' = [txn EXCEPT ![p] = NoTxn]
-----------------------------------------------------------------------------
(* What a request reads before its transaction. *)

\* Ids the next INSERT of p may be given: AUTO_INCREMENT counts upwards.
NextIds(p) ==
  {i \in Ids : \A j \in Ids :
     rows[j].status # "none" \/ (\E r \in Procs \ {p} : at[r] = "insert" /\ txn[r].id = j) => j < i}

\* Bound: no more requests create reservations than there are ids left.
IdsLeft(p) ==
  Cardinality({r \in Procs \ {p} : txn[r].op = "create" /\ txn[r].id = NoId})
    < Cardinality(NextIds(p))

\* create(): settings, clock, hours and stations are read; held says whether
\* the customer has to pay first.
BeginCreate(p, q, c, held) ==
  /\ at[p] = "idle"
  /\ q.count <= Cardinality(c.active)
  /\ IdsLeft(p)
  /\ at' = [at EXCEPT ![p] = "lock"]
  /\ txn' = [txn EXCEPT ![p] =
       Begun("create", NoId, {q.date}, q, c,
             IF held THEN clock + c.hold ELSE NoDeadline, clock, NoPayment)]
  /\ UNCHANGED <<clock, rows, lock, rowLock, accepted>>

ScheduleChanged(row, q) ==
  \/ row.date # q.date
  \/ row.start # q.start
  \/ row.end # q.end
  \/ Cardinality(row.stations) # q.count

\* update(): also reads the row, and will lock its date and the requested one.
BeginUpdate(p, i, q, c) ==
  /\ at[p] = "idle"
  /\ rows[i].status \in {"held", "confirmed"}
  /\ ScheduleChanged(rows[i], q)
  /\ q.count <= Cardinality(c.active)
  /\ rows[i].date # q.date => (MovesHeld \/ rows[i].status = "confirmed")
  /\ at' = [at EXCEPT ![p] = "lock"]
  /\ txn' = [txn EXCEPT ![p] =
       Begun("update", i, {rows[i].date, q.date}, q, c, NoDeadline, clock, NoPayment)]
  /\ UNCHANGED <<clock, rows, lock, rowLock, accepted>>

\* confirmPayment(): reads the row for the date to lock.
BeginConfirm(p, i, pay, c) ==
  /\ at[p] = "idle"
  /\ rows[i].status # "none"
  /\ at' = [at EXCEPT ![p] = "lock"]
  /\ txn' = [txn EXCEPT ![p] =
       Begun("confirm", i, {rows[i].date}, NoTxn, c, NoDeadline, 0, pay)]
  /\ UNCHANGED <<clock, rows, lock, rowLock, accepted>>
-----------------------------------------------------------------------------
(* Inside the transaction. *)

\* Mutant: SELECT without FOR UPDATE does not wait.
LockDayAtOnce(p) ==
  /\ at[p] = "lock"
  /\ lock' = [lock EXCEPT ![NextDay(p)] = p]
  /\ IF Wanted(p) = {NextDay(p)}
     THEN /\ at' = [at EXCEPT ![p] = "decide"]
          /\ txn' = [txn EXCEPT ![p].now =
                       IF txn[p].op = "confirm" THEN clock ELSE @]
     ELSE UNCHANGED <<at, txn>>
  /\ UNCHANGED <<clock, rows, rowLock, accepted>>

\* confirmPayment() reads the clock again once it has the lock.
LockDay(p) ==
  /\ at[p] = "lock"
  /\ lock[NextDay(p)] = NoProc
  /\ lock' = [lock EXCEPT ![NextDay(p)] = p]
  /\ IF Wanted(p) = {NextDay(p)}
     THEN /\ at' = [at EXCEPT ![p] = "decide"]
          /\ txn' = [txn EXCEPT ![p].now =
                       IF txn[p].op = "confirm" THEN clock ELSE @]
     ELSE UNCHANGED <<at, txn>>
  /\ UNCHANGED <<clock, rows, rowLock, accepted>>

\* The row is inserted, and its links, which are not there, deleted.
DecideCreate(p) ==
  /\ at[p] = "decide" /\ txn[p].op = "create"
  /\ \/ \E chosen \in Placements(p), i \in NextIds(p) :
          /\ \A j \in NextIds(p) : i <= j
          /\ txn' = [txn EXCEPT ![p].chosen = chosen, ![p].id = i]
          /\ at' = [at EXCEPT ![p] = "insert"]
          /\ UNCHANGED <<lock, rowLock>>
     \/ Placements(p) = {} /\ Finish(p)                      \* slot_unavailable
  /\ UNCHANGED <<clock, rows, accepted>>

\* find(.., true) locks the row of the reservation, and waits for it; then the row is
\* updated and its links are deleted.
DecideUpdate(p) ==
  LET i == txn[p].id
  IN  /\ at[p] = "decide" /\ txn[p].op = "update"
      /\ rowLock[i] = NoProc
      /\ \/ /\ rows[i].status \in {"held", "confirmed"}
            /\ \E chosen \in Placements(p) :
                 /\ txn' = [txn EXCEPT ![p].chosen = chosen]
                 /\ at' = [at EXCEPT ![p] = "reschedule"]
                 /\ rowLock' = [rowLock EXCEPT ![i] = p]
                 /\ UNCHANGED lock
         \/ /\ rows[i].status \in {"held", "confirmed"} => Placements(p) = {}
            /\ Finish(p)                       \* wrong_status, slot_unavailable
      /\ UNCHANGED <<clock, rows, accepted>>

DecideConfirm(p) ==
  LET i == txn[p].id
      outcome == ConfirmOutcome(rows, i, txn[p].payment, txn[p].now, txn[p].buffer)
      GoTo(place) == /\ at' = [at EXCEPT ![p] = place]
                     /\ rowLock' = [rowLock EXCEPT ![i] = p]
                     /\ UNCHANGED <<lock, txn, accepted>>
  IN  /\ at[p] = "decide" /\ txn[p].op = "confirm"
      /\ rowLock[i] = NoProc
      /\ \/ outcome = "pay" /\ GoTo("pay")
         \/ outcome = "hold_expired" /\ rows[i].status = "held" /\ GoTo("lapse")
         \/ /\ outcome = "hold_expired" /\ rows[i].status = "expired"
            /\ Finish(p) /\ UNCHANGED accepted
         \/ outcome = "wrong_status" /\ Finish(p) /\ UNCHANGED accepted
         \/ /\ outcome = "repeat"
            /\ accepted' = accepted \cup {<<i, txn[p].payment>>}
            /\ Finish(p)
      /\ UNCHANGED <<clock, rows>>

-----------------------------------------------------------------------------
(* The gaps of reservation_stations. *)

\* The key <<i, s>> comes before <<j, t>>.
Before(i, s, j, t) == i < j \/ (i = j /\ s < t)

\* A transaction that has deleted the links of j has locked the gap that <<i, s>> would
\* go to: no link of another reservation lies between them.
InGap(i, s, j) ==
  ~ \E k \in Ids \ {j} : \E t \in rows[k].stations :
      \/ k < j /\ Before(i, s, k, t)
      \/ j < k /\ Before(k, t, i, s)

\* Those whose gaps the links p inserts fall into; a link that was there and is put
\* back needs no gap.
GapsInTheWay(p) ==
  IF at[p] \notin {"insert", "reschedule"} THEN {}
  ELSE {r \in Procs \ {p} :
          /\ at[r] \in {"insert", "reschedule"}
          /\ \E s \in txn[p].chosen \ rows[txn[p].id].stations : InGap(txn[p].id, s, txn[r].id)}

\* The links are inserted, and the transaction commits.
CommitCreate(p) ==
  /\ at[p] = "insert" /\ GapsInTheWay(p) = {}
  /\ rows' = [rows EXCEPT ![txn[p].id] = NewRow(txn[p], txn[p].chosen, txn[p].deadline)]
  /\ Finish(p)
  /\ UNCHANGED <<clock, accepted>>

\* Status, deadline and payment are kept.
CommitUpdate(p) ==
  /\ at[p] = "reschedule" /\ GapsInTheWay(p) = {}
  /\ rows' = [rows EXCEPT ![txn[p].id] = Reschedule(@, txn[p], txn[p].chosen)]
  /\ Finish(p)
  /\ UNCHANGED <<clock, accepted>>

CommitPay(p) ==
  /\ at[p] = "pay"
  /\ rows' = [rows EXCEPT ![txn[p].id] = Paid(@, txn[p].payment)]
  /\ accepted' = accepted \cup {<<txn[p].id, txn[p].payment>>}
  /\ Finish(p)
  /\ UNCHANGED clock

CommitLapse(p) ==
  /\ at[p] = "lapse"
  /\ rows' = [rows EXCEPT ![txn[p].id] = Transition(@, "expired")]
  /\ Finish(p)
  /\ UNCHANGED <<clock, accepted>>
-----------------------------------------------------------------------------
(* Waiting, and what ends it. *)

WaitsForDay(p) == at[p] = "lock" /\ lock[NextDay(p)] # NoProc

WaitsForRow(p) ==
  /\ at[p] = "decide" /\ txn[p].op \in {"update", "confirm"}
  /\ rowLock[txn[p].id] # NoProc

WaitsForGap(p) == GapsInTheWay(p) # {}

Waits(p) == WaitsForDay(p) \/ WaitsForRow(p) \/ WaitsForGap(p)

\* Whom it waits for.
WaitsFor(p) ==
  CASE WaitsForDay(p) -> {lock[NextDay(p)]}
    [] WaitsForRow(p) -> {rowLock[txn[p].id]}
    [] OTHER -> GapsInTheWay(p)

\* Each of them waits for another of them.
Circle(S) == S # {} /\ \A p \in S : Waits(p) /\ WaitsFor(p) \cap S # {}

\* Transaction::run: the transaction is rolled back and starts again, with what
\* was read before it, MaxAttempts times.  Bound: an id is left for it.
RollBack(p) ==
  IF txn[p].attempt < MaxAttempts /\ (txn[p].op = "create" => IdsLeft(p))
  THEN /\ lock' = Unlocked(p)
       /\ rowLock' = RowsUnlocked(p)
       /\ at' = [at EXCEPT ![p] = "lock"]
       /\ txn' = [txn EXCEPT ![p].attempt = @ + 1, ![p].chosen = {},
                              ![p].id = IF txn[p].op = "create" THEN NoId ELSE @]
  ELSE Finish(p)

\* A lock wait timeout.
LockTimeout(p) ==
  /\ Waits(p)
  /\ RollBack(p)
  /\ UNCHANGED <<clock, rows, accepted>>

\* A deadlock, which InnoDB finds at once: it picks one of those in the circle.
DeadlockVictim(p) ==
  /\ \E S \in SUBSET Procs : p \in S /\ Circle(S)
  /\ RollBack(p)
  /\ UNCHANGED <<clock, rows, accepted>>

\* The request dies (PHP time limit, lost connection): MySQL rolls back.
Crash(p) ==
  /\ at[p] # "idle"
  /\ Finish(p)
  /\ UNCHANGED <<clock, rows, accepted>>
-----------------------------------------------------------------------------
(* Single statements that take no day lock.  An UPDATE waits for a row     *)
(* another transaction has locked.                                         *)

Cancel(i) ==
  /\ rowLock[i] = NoProc
  /\ rows[i].status \in {"held", "confirmed"}
  /\ rows' = [rows EXCEPT ![i] = Transition(@, "cancelled")]
  /\ UNCHANGED <<clock, lock, rowLock, at, txn, accepted>>

FailPayment(i) ==
  /\ rowLock[i] = NoProc
  /\ rows[i].status = "held"
  /\ rows' = [rows EXCEPT ![i] = Transition(@, "payment_failed")]
  /\ UNCHANGED <<clock, lock, rowLock, at, txn, accepted>>

\* The table after the UPDATE of expireHolds().
Swept(now) ==
  [i \in Ids |-> IF i \in Overdue(rows, now) THEN Transition(rows[i], "expired") ELSE rows[i]]

\* expireHolds(): now was read before the UPDATE ran.
ExpireHolds(now) ==
  /\ Overdue(rows, now) # {}
  /\ \A i \in Overdue(rows, now) : rowLock[i] = NoProc
  /\ rows' = Swept(now)
  /\ UNCHANGED <<clock, lock, rowLock, at, txn, accepted>>

\* reconcileHolds() for a hold it listed as overdue and found no payment for.
ReleaseHold(i) ==
  /\ rowLock[i] = NoProc
  /\ i \in Overdue(rows, clock)
  /\ rows' = [rows EXCEPT ![i] = Transition(@, "expired")]
  /\ UNCHANGED <<clock, lock, rowLock, at, txn, accepted>>

Tick ==
  /\ clock < MaxClock
  /\ clock' = clock + 1
  /\ UNCHANGED <<rows, lock, rowLock, at, txn, accepted>>
-----------------------------------------------------------------------------
\* The steps a process takes on its own once it has begun.
Step(p) ==
  \/ LockDay(p)
  \/ DecideCreate(p) \/ DecideUpdate(p) \/ DecideConfirm(p)
  \/ CommitCreate(p) \/ CommitUpdate(p) \/ CommitPay(p) \/ CommitLapse(p)

Begin(p) ==
  \E c \in Configs :
    \/ \E q \in Requests, held \in BOOLEAN : BeginCreate(p, q, c, held)
    \/ \E i \in Ids, q \in Requests : BeginUpdate(p, i, q, c)
    \/ \E i \in Ids, pay \in Payments : BeginConfirm(p, i, pay, c)

Statement ==
  \/ \E i \in Ids : Cancel(i) \/ FailPayment(i) \/ ReleaseHold(i)
  \/ \E now \in 0 .. clock : ExpireHolds(now)

Next ==
  \/ \E p \in Procs : Begin(p) \/ Step(p) \/ LockTimeout(p) \/ DeadlockVictim(p) \/ Crash(p)
  \/ Statement
  \/ Tick

Spec == Init /\ [][Next]_vars

\* A process that has begun goes on until its transaction ends, and MySQL grants a
\* lock to whoever waits for it and breaks every circle.  Users, crashes, timeouts and
\* the clock are not obliged to anything.
LiveSpec == Spec /\ \A p \in Procs : SF_vars(Step(p) \/ DeadlockVictim(p))
-----------------------------------------------------------------------------
(* Properties. *)

\* No station belongs to two reservations whose sessions overlap, as long as
\* both are confirmed or validly held: the guarantee of the day locks over
\* create(), update() and confirmPayment() in any interleaving.
NoDoubleBooking ==
  \A i, j \in Ids :
    i # j /\ Blocking(rows[i], clock) /\ Blocking(rows[j], clock)
      => ~ Conflict(rows[i], rows[j])

\* Transactions wait for each other in a circle only over the gaps they have locked
\* when they replace their links: dates are locked in order, a reservation's row after
\* every date, and the gaps last of all.  (So the sorted dates are not enough for "two
\* staff edits cannot deadlock", Reservations.php:170: two edits, or two bookings, of
\* different dates can, and Transaction::run starts one of them again.)
OnlyGapsDeadlock ==
  \A S \in SUBSET Procs :
    Circle(S) => Circle({p \in S : WaitsForGap(p)})

\* confirmPayment() answers success for at most one payment of a reservation,
\* that payment stays on record, and the reservation leaves "confirmed" only
\* when staff cancel it.
OnePaymentAccepted ==
  \A a \in accepted :
    /\ rows[a[1]].payment = a[2]
    /\ rows[a[1]].status \in {"confirmed", "cancelled"}

\* Whether the sweep ran before a late payment is confirmed makes no
\* difference to what confirmPayment() decides about it.
SweepMakesNoDifference ==
  \A i \in Overdue(rows, clock), pay \in Payments, c \in Configs :
    ConfirmOutcome(rows, i, pay, clock, c.buffer)
      = ConfirmOutcome(Swept(clock), i, pay, clock, c.buffer)

\* What a step may do to a reservation: a hold is given up by the system only
\* when it is past due, a swept hold comes back only with a payment, nothing
\* leaves "cancelled" or "payment_failed", and a paid reservation keeps its payment.
StatusStep(old, new) ==
  \/ new.status = old.status /\ new.payment = old.payment
  \/ old.status = "none" /\ new.status \in {"held", "confirmed"}
  \/ /\ old.status = "held"
     /\ \/ new.status \in {"payment_failed", "cancelled"}
        \/ new.status = "expired" /\ old.deadline <= clock
  \/ /\ old.status \in {"held", "expired"}
     /\ new.status = "confirmed" /\ new.payment # NoPayment
  \/ /\ old.status = "confirmed" /\ new.status = "cancelled"
     /\ new.payment = old.payment

StatusesAdvance == [][\A i \in Ids : StatusStep(rows[i], rows'[i])]_vars

\* Every request that has begun ends, without relying on a lock wait timeout.
EveryRequestEnds == \A p \in Procs : at[p] # "idle" ~> at[p] = "idle"

-----------------------------------------------------------------------------
(* Why NoDoubleBooking holds: an inductive invariant.                      *)

\* A transaction that decides or commits holds the row of every date it
\* works on, and nobody holds a date it does not need.
DayLocksHeld ==
  /\ \A p \in Procs : at[p] \notin {"idle", "lock"} => txn[p].days \subseteq Held(p)
  /\ \A p \in Procs : Held(p) \subseteq txn[p].days
  /\ \A p \in Procs : at[p] = "lock" => Wanted(p) # {}
  /\ \A p \in Procs : txn[p].op # "none" => \E d, e \in Dates : txn[p].days = {d, e}
  /\ \A p \in Procs : txn[p].op \in {"create", "update"} => txn[p].date \in txn[p].days

\* From its decision to its commit, a transaction that changes a reservation
\* holds its row.
RowLocksHeld ==
  \A p \in Procs, i \in Ids :
    rowLock[i] = p <=> at[p] \in {"reschedule", "pay", "lapse"} /\ txn[p].id = i

\* What a process is doing, at each place it may be in.
PlacesFit ==
  \A p \in Procs :
    /\ at[p] = "idle" => txn[p] = NoTxn
    /\ at[p] # "idle" => txn[p].op # "none"
    /\ at[p] = "insert" => txn[p].op = "create"
    /\ at[p] = "reschedule" => txn[p].op = "update"
    /\ at[p] \in {"pay", "lapse"} => txn[p].op = "confirm"
    /\ txn[p].op = "create" /\ at[p] # "insert" => txn[p].id = NoId
    /\ at[p] = "insert" => txn[p].id \in Ids /\ rows[txn[p].id].status = "none"
    /\ txn[p].op \in {"update", "confirm"} =>
         txn[p].id \in Ids /\ rows[txn[p].id].status # "none"
    /\ txn[p].op = "confirm" => txn[p].payment \in Payments
    /\ txn[p].now <= clock

\* Every reservation is on one of the dates, and every hold has a deadline.
RowDatesKnown == \A i \in Ids : rows[i].status # "none" => rows[i].date \in Dates

HoldsHaveDeadlines ==
  \A i \in Ids : rows[i].status = "held" => rows[i].deadline # NoDeadline

\* No two transactions have inserted the same row.
InsertsApart ==
  \A p, r \in Procs :
    at[p] = "insert" /\ at[r] = "insert" /\ txn[p].id = txn[r].id => p = r

\* What a locked reservation was found to be, it still is.
LockedRowsKept ==
  \A p \in Procs :
    /\ at[p] = "reschedule" => rows[txn[p].id].status \in {"held", "confirmed"}
    /\ at[p] = "pay" => rows[txn[p].id].status \in {"held", "expired"}
    /\ at[p] = "lapse" => rows[txn[p].id].status = "held"

\* A confirmation holds the date its reservation is on, because nobody moves
\* a held reservation to another date.
DatesKnown ==
  \A p \in Procs :
    /\ txn[p].op = "update" /\ rows[txn[p].id].status = "held"
         => rows[txn[p].id].date = txn[p].date
    /\ txn[p].op = "confirm" /\ rows[txn[p].id].status \in {"held", "expired"}
         => rows[txn[p].id].date \in txn[p].days

Claim(p) == [date |-> txn[p].date, start |-> txn[p].start, end |-> txn[p].end,
             stations |-> txn[p].chosen]

\* What a transaction decided on stays free until it commits.
ClaimsFree ==
  \A p \in Procs :
    /\ at[p] \in {"insert", "reschedule"} =>
         \A j \in Ids \ {txn[p].id} :
           Blocking(rows[j], txn[p].now) => ~ Conflict(Claim(p), rows[j])
    /\ at[p] = "pay" =>
         \A j \in Ids \ {txn[p].id} :
           Blocking(rows[j], txn[p].now) => ~ Conflict(rows[txn[p].id], rows[j])

\* A confirmation works with the clock reading it took under the lock: its
\* date had no double booking then, and gets none while it holds the lock.
LockedDateConsistent ==
  \A p \in Procs :
    at[p] = "decide" /\ txn[p].op = "confirm" =>
      \A i, j \in Ids :
        /\ i # j
        /\ rows[i].date \in txn[p].days
        /\ Blocking(rows[i], txn[p].now) /\ Blocking(rows[j], txn[p].now)
        => ~ Conflict(rows[i], rows[j])

\* What holds whatever staff do,
Orderly ==
  /\ TypeOK
  /\ DayLocksHeld
  /\ RowLocksHeld
  /\ PlacesFit
  /\ InsertsApart
  /\ RowDatesKnown
  /\ HoldsHaveDeadlines
  /\ LockedRowsKept

\* and what holds while they move held reservations only within their date.
Inv ==
  /\ Orderly
  /\ DatesKnown
  /\ ClaimsFree
  /\ LockedDateConsistent
  /\ NoDoubleBooking
-----------------------------------------------------------------------------
\* The write path does what the calendar promises, one operation at a time.
Promise == INSTANCE Calendar WITH clock <- clock, rows <- rows, accepted <- accepted

ImplementsCalendar == Promise!CalendarSpec
=============================================================================
