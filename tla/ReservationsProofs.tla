------------------------- MODULE ReservationsProofs -------------------------
(***************************************************************************)
(* Theorems about Reservations, for any number of requests, reservations,  *)
(* stations, dates and settings.                                           *)
(***************************************************************************)
EXTENDS Reservations, TLAPS

-----------------------------------------------------------------------------
(* Types. *)

LEMMA NoTxnType == NoTxn \in Txn
BY DEF NoTxn, Txn, NoDeadline

LEMMA NoRowType == NoRow \in Row
BY DEF NoRow, Row, Status, NoDeadline

\* The row writers return rows.
LEMMA TransitionType ==
  ASSUME NEW row \in Row, NEW to \in Status
  PROVE  Transition(row, to) \in Row
BY DEF Row, Status, Transition, NoDeadline

LEMMA RescheduleType ==
  ASSUME NEW row \in Row, NEW t \in Txn
  PROVE  Reschedule(row, t, t.chosen) \in Row
BY DEF Row, Txn, Reschedule

LEMMA PaidType ==
  ASSUME NEW row \in Row, NEW pay \in Payments \cup {NoPayment}
  PROVE  Paid(row, pay) \in Row
BY DEF Row, Status, Transition, Paid, NoDeadline

LEMMA NewRowType ==
  ASSUME NEW t \in Txn
  PROVE  NewRow(t, t.chosen, t.deadline) \in Row
BY DEF Row, Txn, Status, NewRow, NoDeadline

\* What every way of ending a transaction leaves behind is typed.
LEMMA FinishType ==
  ASSUME TypeOK, NEW p \in Procs, Finish(p)
  PROVE  /\ lock' \in [Dates -> Procs \cup {NoProc}]
         /\ rowLock' \in [Ids -> Procs \cup {NoProc}]
         /\ at' \in [Procs -> Place]
         /\ txn' \in [Procs -> Txn]
BY NoTxnType DEF TypeOK, Finish, Unlocked, RowsUnlocked, Place

LEMMA BegunType ==
  ASSUME NEW op \in {"create", "update", "confirm"}, NEW i \in Ids \cup {NoId},
         NEW days \in SUBSET Dates, NEW c \in Configs, NEW now \in Nat,
         NEW q, q \in Requests \/ q = NoTxn,
         NEW deadline \in Nat \cup {NoDeadline}, NEW pay \in Payments \cup {NoPayment}
  PROVE  Begun(op, i, days, q, c, deadline, now, pay) \in Txn
<1>1. q.date \in Nat /\ q.start \in Nat /\ q.end \in Nat /\ q.count \in Nat
  <2>1. CASE q \in Requests
    BY <2>1, ScheduleAssumption
  <2>2. CASE q = NoTxn
    BY <2>2 DEF NoTxn
  <2> QED BY <2>1, <2>2
<1>2. c.buffer \in Nat /\ c.active \in SUBSET Stations /\ c.open \in Nat
  BY ConfigAssumption
<1> QED BY <1>1, <1>2 DEF Begun, Txn

\* A transaction in progress: its clock reading, stations and attempt change.
LEMMA TxnFieldTypes ==
  ASSUME NEW t \in Txn, NEW now \in Nat, NEW chosen \in SUBSET Stations
  PROVE  /\ [t EXCEPT !.now = now] \in Txn
         /\ [t EXCEPT !.chosen = chosen] \in Txn
         /\ \A i \in Ids : [t EXCEPT !.chosen = chosen, !.id = i] \in Txn
BY DEF Txn

\* A transaction that starts again.
Restarted(t) == [t EXCEPT !.attempt = @ + 1, !.chosen = {},
                          !.id = IF t.op = "create" THEN NoId ELSE @]

LEMMA RestartedType ==
  ASSUME NEW t \in Txn
  PROVE  /\ Restarted(t) \in Txn
         /\ Restarted(t).op = t.op /\ Restarted(t).days = t.days /\ Restarted(t).date = t.date
         /\ Restarted(t).now = t.now /\ Restarted(t).payment = t.payment
         /\ Restarted(t).id = IF t.op = "create" THEN NoId ELSE t.id
<1> DEFINE i == IF t.op = "create" THEN NoId ELSE t.id
           n == t.attempt + 1
<1>1. i \in Ids \cup {NoId} /\ n \in Nat
  BY DEF Txn
<1>2. Restarted(t) = [t EXCEPT !.attempt = n, !.chosen = {}, !.id = i]
  BY DEF Txn, Restarted
<1> HIDE DEF i, n
<1>3. [t EXCEPT !.attempt = n, !.chosen = {}, !.id = i] \in Txn
  BY <1>1 DEF Txn
<1>4. /\ Restarted(t).op = t.op /\ Restarted(t).days = t.days /\ Restarted(t).date = t.date
      /\ Restarted(t).now = t.now /\ Restarted(t).payment = t.payment
      /\ Restarted(t).id = i
  BY <1>2 DEF Txn
<1> QED BY <1>2, <1>3, <1>4 DEF i

\* What a rollback does to the locks and to the transaction.
LEMMA RollBackCases ==
  ASSUME TypeOK, NEW p \in Procs, RollBack(p)
  PROVE  \/ Finish(p)
         \/ /\ lock' = Unlocked(p) /\ rowLock' = RowsUnlocked(p)
            /\ at' = [at EXCEPT ![p] = "lock"]
            /\ txn' = [txn EXCEPT ![p] = Restarted(txn[p])]
BY DEF TypeOK, RollBack, Restarted

\* Where a transaction may be that waits.
LEMMA WaitsAt ==
  ASSUME NEW p \in Procs, Waits(p)
  PROVE  at[p] \in {"lock", "decide", "insert", "reschedule"}
BY DEF Waits, WaitsForDay, WaitsForRow, WaitsForGap, GapsInTheWay

\* The victim of a deadlock waits, like a transaction whose wait times out.
LEMMA VictimWaits ==
  ASSUME NEW p \in Procs, DeadlockVictim(p)
  PROVE  LockTimeout(p)
BY DEF DeadlockVictim, LockTimeout, Circle

LEMMA BeginType ==
  ASSUME TypeOK, RowDatesKnown, NEW p \in Procs, Begin(p)
  PROVE  TypeOK'
<1>1. ASSUME NEW c \in Configs, NEW q \in Requests, NEW held \in BOOLEAN,
             BeginCreate(p, q, c, held)
      PROVE  TypeOK'
  <2> DEFINE deadline == IF held THEN clock + c.hold ELSE NoDeadline
  <2>1. deadline \in Nat \cup {NoDeadline}
    BY ConfigAssumption, TableAssumption DEF TypeOK
  <2>2. Begun("create", NoId, {q.date}, q, c, deadline, clock, NoPayment) \in Txn
    BY <2>1, ScheduleAssumption, BegunType DEF TypeOK
  <2> QED BY <1>1, <2>2 DEF TypeOK, BeginCreate, Place
<1>2. ASSUME NEW c \in Configs, NEW i \in Ids, NEW q \in Requests, BeginUpdate(p, i, q, c)
      PROVE  TypeOK'
  <2>1. {rows[i].date, q.date} \in SUBSET Dates
    BY <1>2, ScheduleAssumption DEF RowDatesKnown, BeginUpdate
  <2>2. Begun("update", i, {rows[i].date, q.date}, q, c, NoDeadline, clock, NoPayment) \in Txn
    BY <2>1, BegunType DEF TypeOK
  <2> QED BY <1>2, <2>2 DEF TypeOK, BeginUpdate, Place
<1>3. ASSUME NEW c \in Configs, NEW i \in Ids, NEW pay \in Payments, BeginConfirm(p, i, pay, c)
      PROVE  TypeOK'
  <2>1. {rows[i].date} \in SUBSET Dates
    BY <1>3 DEF RowDatesKnown, BeginConfirm
  <2>2. Begun("confirm", i, {rows[i].date}, NoTxn, c, NoDeadline, 0, pay) \in Txn
    BY <2>1, BegunType
  <2> QED BY <1>3, <2>2 DEF TypeOK, BeginConfirm, Place
<1> QED BY <1>1, <1>2, <1>3 DEF Begin

\* Whatever is chosen is among the stations in use when the request was read.
LEMMA PlacementsType ==
  ASSUME TypeOK, NEW p \in Procs, NEW chosen \in Placements(p)
  PROVE  chosen \in SUBSET Stations
BY DEF TypeOK, Txn, Placements, Allocations, FreeStations

\* One row is written.
LEMMA RowsType ==
  ASSUME TypeOK, NEW i, NEW row, i \in Ids => row \in Row,
         rows' = [rows EXCEPT ![i] = row]
  PROVE  rows' \in [Ids -> Row]
BY DEF TypeOK

LEMMA StepType ==
  ASSUME TypeOK, PlacesFit, NEW p \in Procs, Step(p)
  PROVE  TypeOK'
<1> DEFINE i == txn[p].id
<1>0. txn[p] \in Txn
  BY DEF TypeOK
<1>1. CASE LockDay(p)
  <2>1. lock' \in [Dates -> Procs \cup {NoProc}]
    BY <1>1 DEF TypeOK, LockDay
  <2>2. txn' \in [Procs -> Txn] /\ at' \in [Procs -> Place]
    <3>1. CASE UNCHANGED <<at, txn>>
      BY <3>1 DEF TypeOK
    <3>2. CASE at' = [at EXCEPT ![p] = "decide"]
               /\ txn' = [txn EXCEPT ![p].now = IF txn[p].op = "confirm" THEN clock ELSE @]
      <4> DEFINE now == IF txn[p].op = "confirm" THEN clock ELSE txn[p].now
      <4>1. now \in Nat
        BY <1>0 DEF TypeOK, Txn
      <4>2. txn' = [txn EXCEPT ![p] = [txn[p] EXCEPT !.now = now]]
        BY <3>2
      <4>3. [txn[p] EXCEPT !.now = now] \in Txn
        BY <1>0, <4>1, TxnFieldTypes
      <4> HIDE DEF now
      <4> QED BY <3>2, <4>2, <4>3 DEF TypeOK, Place
    <3> QED BY <1>1, <3>1, <3>2 DEF LockDay
  <2> QED BY <1>1, <2>1, <2>2 DEF TypeOK, LockDay
<1>2. CASE DecideCreate(p)
  <2>1. CASE Finish(p)
    BY <1>2, <2>1, FinishType DEF TypeOK, DecideCreate
  <2>2. ASSUME NEW chosen \in Placements(p), NEW k \in Ids,
               txn' = [txn EXCEPT ![p].chosen = chosen, ![p].id = k],
               at' = [at EXCEPT ![p] = "insert"], UNCHANGED <<lock, rowLock>>
        PROVE  TypeOK'
    <3>1. [txn[p] EXCEPT !.chosen = chosen, !.id = k] \in Txn
      BY <1>0, PlacementsType, TxnFieldTypes
    <3>2. txn' = [txn EXCEPT ![p] = [txn[p] EXCEPT !.chosen = chosen, !.id = k]]
      BY <2>2 DEF TypeOK
    <3> QED BY <1>2, <2>2, <3>1, <3>2 DEF TypeOK, DecideCreate, Place
  <2>3. NextIds(p) \subseteq Ids
    BY DEF NextIds
  <2> QED BY <1>2, <2>1, <2>2, <2>3 DEF DecideCreate
<1>3. CASE DecideUpdate(p)
  <2>1. CASE Finish(p)
    BY <1>3, <2>1, FinishType DEF TypeOK, DecideUpdate
  <2>2. ASSUME NEW chosen \in Placements(p), txn' = [txn EXCEPT ![p].chosen = chosen],
               at' = [at EXCEPT ![p] = "reschedule"],
               rowLock' = [rowLock EXCEPT ![i] = p], UNCHANGED lock
        PROVE  TypeOK'
    <3>1. [txn[p] EXCEPT !.chosen = chosen] \in Txn
      BY <1>0, PlacementsType, TxnFieldTypes
    <3> QED BY <1>3, <2>2, <3>1 DEF TypeOK, DecideUpdate, Place
  <2> QED BY <1>3, <2>1, <2>2 DEF DecideUpdate
<1>4. CASE DecideConfirm(p)
  <2>1. accepted' \subseteq Ids \X Payments
    <3>1. i \in Ids /\ txn[p].payment \in Payments
      BY <1>4 DEF PlacesFit, DecideConfirm
    <3> QED BY <1>4, <3>1 DEF TypeOK, DecideConfirm
  <2>2. CASE Finish(p)
    BY <1>4, <2>1, <2>2, FinishType DEF TypeOK, DecideConfirm
  <2>3. ASSUME NEW place \in Place, at' = [at EXCEPT ![p] = place],
               rowLock' = [rowLock EXCEPT ![i] = p], UNCHANGED <<lock, txn>>
        PROVE  TypeOK'
    BY <1>4, <2>1, <2>3 DEF TypeOK, DecideConfirm
  <2> QED BY <1>4, <2>2, <2>3 DEF DecideConfirm, Place
<1>5. CASE CommitCreate(p)
  <2>1. rows' \in [Ids -> Row]
    BY <1>0, <1>5, RowsType, NewRowType DEF CommitCreate
  <2> QED BY <1>5, <2>1, FinishType DEF TypeOK, CommitCreate
<1>6. CASE CommitUpdate(p)
  <2>1. rows[i] \in Row
    BY <1>6 DEF TypeOK, PlacesFit, CommitUpdate
  <2>2. rows' = [rows EXCEPT ![i] = Reschedule(rows[i], txn[p], txn[p].chosen)]
    BY <1>6 DEF CommitUpdate
  <2>3. rows' \in [Ids -> Row]
    BY <1>0, <2>1, <2>2, RowsType, RescheduleType
  <2> QED BY <1>6, <2>3, FinishType DEF TypeOK, CommitUpdate
<1>7. CASE CommitPay(p)
  <2>1. rows[i] \in Row
    BY <1>7 DEF TypeOK, PlacesFit, CommitPay
  <2>2. rows' = [rows EXCEPT ![i] = Paid(rows[i], txn[p].payment)]
    BY <1>7 DEF CommitPay
  <2>3. txn[p].payment \in Payments \cup {NoPayment}
    BY <1>0 DEF Txn
  <2>4. rows' \in [Ids -> Row]
    BY <2>1, <2>2, <2>3, RowsType, PaidType
  <2>5. accepted' \subseteq Ids \X Payments
    BY <1>7 DEF TypeOK, CommitPay, PlacesFit
  <2> QED BY <1>7, <2>4, <2>5, FinishType DEF TypeOK, CommitPay
<1>8. CASE CommitLapse(p)
  <2>1. rows[i] \in Row
    BY <1>8 DEF TypeOK, PlacesFit, CommitLapse
  <2>2. rows' = [rows EXCEPT ![i] = Transition(rows[i], "expired")]
    BY <1>8 DEF CommitLapse
  <2>3. rows' \in [Ids -> Row]
    BY <2>1, <2>2, RowsType, TransitionType DEF Status
  <2> QED BY <1>8, <2>3, FinishType DEF TypeOK, CommitLapse
<1> QED BY <1>1, <1>2, <1>3, <1>4, <1>5, <1>6, <1>7, <1>8 DEF Step

\* A table in which some rows are swept.
LEMMA SweptType ==
  ASSUME TypeOK, NEW now
  PROVE  Swept(now) \in [Ids -> Row]
BY TransitionType DEF TypeOK, Swept, Status

LEMMA StatementType ==
  ASSUME TypeOK, Statement
  PROVE  TypeOK'
<1>1. ASSUME NEW i \in Ids, NEW to \in Status,
             rows' = [rows EXCEPT ![i] = Transition(@, to)],
             UNCHANGED <<clock, lock, rowLock, at, txn, accepted>>
      PROVE  TypeOK'
  <2>1. Transition(rows[i], to) \in Row
    BY TransitionType DEF TypeOK
  <2> QED BY <1>1, <2>1 DEF TypeOK
<1>2. ASSUME NEW now \in 0 .. clock, ExpireHolds(now)
      PROVE  TypeOK'
  BY <1>2, SweptType DEF TypeOK, ExpireHolds
<1> QED BY <1>1, <1>2 DEF Statement, Cancel, FailPayment, ReleaseHold, Status

LEMMA TimeoutType ==
  ASSUME TypeOK, NEW p \in Procs, LockTimeout(p)
  PROVE  TypeOK'
<1>1. CASE Finish(p)
  BY <1>1, FinishType DEF TypeOK, LockTimeout
<1>2. CASE /\ lock' = Unlocked(p) /\ rowLock' = RowsUnlocked(p)
           /\ at' = [at EXCEPT ![p] = "lock"]
           /\ txn' = [txn EXCEPT ![p] = Restarted(txn[p])]
  <2>1. Restarted(txn[p]) \in Txn
    BY RestartedType DEF TypeOK
  <2> QED BY <1>2, <2>1 DEF TypeOK, LockTimeout, Unlocked, RowsUnlocked, Place
<1> QED BY <1>1, <1>2, RollBackCases DEF LockTimeout

LEMMA NextType ==
  ASSUME TypeOK, PlacesFit, RowDatesKnown, [Next]_vars
  PROVE  TypeOK'
<1>1. ASSUME NEW p \in Procs, Begin(p) PROVE TypeOK'
  BY <1>1, BeginType
<1>2. ASSUME NEW p \in Procs, Step(p) PROVE TypeOK'
  BY <1>2, StepType
<1>3. ASSUME NEW p \in Procs, LockTimeout(p) \/ DeadlockVictim(p) PROVE TypeOK'
  BY <1>3, TimeoutType, VictimWaits
<1>4. ASSUME NEW p \in Procs, Crash(p) PROVE TypeOK'
  BY <1>4, FinishType DEF TypeOK, Crash
<1>5. CASE Statement
  BY <1>5, StatementType
<1>6. CASE Tick
  BY <1>6 DEF TypeOK, Tick
<1>7. CASE UNCHANGED vars
  BY <1>7 DEF TypeOK, vars
<1> QED BY <1>1, <1>2, <1>3, <1>4, <1>5, <1>6, <1>7 DEF Next
-----------------------------------------------------------------------------
(* Locks. *)

\* The end of a transaction releases its locks and nobody else's.
LEMMA FinishFacts ==
  ASSUME TypeOK, NEW p \in Procs, Finish(p)
  PROVE  /\ at'[p] = "idle" /\ txn'[p] = NoTxn
         /\ \A d \in Dates : lock'[d] # p
         /\ \A i \in Ids : rowLock'[i] # p
         /\ \A r \in Procs \ {p} :
              /\ at'[r] = at[r] /\ txn'[r] = txn[r]
              /\ \A d \in Dates : lock'[d] = r <=> lock[d] = r
              /\ \A i \in Ids : rowLock'[i] = r <=> rowLock[i] = r
BY ProcessAssumption DEF TypeOK, Finish, Unlocked, RowsUnlocked

\* The next date to lock is the first of those still wanted.
LEMMA NextDayFacts ==
  ASSUME TypeOK, DayLocksHeld, PlacesFit, NEW p \in Procs, at[p] = "lock"
  PROVE  NextDay(p) \in Wanted(p) /\ \A e \in Wanted(p) : NextDay(p) <= e
<1>1. txn[p].op # "none"
  BY DEF PlacesFit
<1>2. PICK d \in Dates, e \in Dates : txn[p].days = {d, e}
  BY <1>1 DEF DayLocksHeld
<1>3. Wanted(p) \subseteq {d, e} /\ Wanted(p) # {}
  BY <1>2 DEF DayLocksHeld, Wanted
<1>4. d <= e \/ e <= d
  BY ScheduleAssumption
<1>5. \E f \in Wanted(p) : \A g \in Wanted(p) : f <= g
  <2>1. d <= d /\ e <= e
    BY ScheduleAssumption
  <2> QED BY <1>3, <1>4, <2>1
<1> QED BY <1>5 DEF NextDay

LEMMA FinishLocks ==
  ASSUME TypeOK, DayLocksHeld, RowLocksHeld, NEW p \in Procs, Finish(p)
  PROVE  DayLocksHeld' /\ RowLocksHeld'
<1>1. RowLocksHeld'
  BY FinishFacts DEF RowLocksHeld
<1>2. ASSUME NEW r \in Procs \ {p}
      PROVE  Held(r)' = Held(r) /\ Wanted(r)' = Wanted(r) /\ at'[r] = at[r] /\ txn'[r] = txn[r]
  BY FinishFacts DEF Held, Wanted
<1>3. Held(p)' = {} /\ at'[p] = "idle" /\ txn'[p].op = "none"
  BY FinishFacts DEF Held, NoTxn
<1> QED BY <1>1, <1>2, <1>3 DEF DayLocksHeld

\* A process that decides on a change locks its reservation and nothing else.
LEMMA GoLocks ==
  ASSUME TypeOK, DayLocksHeld, RowLocksHeld, NEW p \in Procs, at[p] = "decide",
         NEW place \in {"reschedule", "pay", "lapse"}, at' = [at EXCEPT ![p] = place],
         rowLock[txn[p].id] = NoProc, txn[p].id \in Ids,
         rowLock' = [rowLock EXCEPT ![txn[p].id] = p], UNCHANGED lock,
         \A r \in Procs \ {p} : txn'[r] = txn[r],
         /\ txn'[p].op = txn[p].op /\ txn'[p].id = txn[p].id
         /\ txn'[p].days = txn[p].days /\ txn'[p].date = txn[p].date
  PROVE  DayLocksHeld' /\ RowLocksHeld'
<1>1. \A r \in Procs : Held(r)' = Held(r) /\ Wanted(r)' = Wanted(r)
  BY DEF Held, Wanted
<1>2. DayLocksHeld'
  BY <1>1 DEF TypeOK, DayLocksHeld
<1>3. RowLocksHeld'
  BY ProcessAssumption DEF TypeOK, RowLocksHeld
<1> QED BY <1>2, <1>3

LEMMA LocksStep ==
  ASSUME TypeOK, DayLocksHeld, RowLocksHeld, PlacesFit, RowDatesKnown, [Next]_vars
  PROVE  DayLocksHeld' /\ RowLocksHeld'
<1>1. ASSUME NEW p \in Procs, Begin(p)
      PROVE  DayLocksHeld' /\ RowLocksHeld'
  <2>1. at[p] = "idle" /\ at' = [at EXCEPT ![p] = "lock"] /\ UNCHANGED <<lock, rowLock>>
    BY <1>1 DEF Begin, BeginCreate, BeginUpdate, BeginConfirm
  <2>2. /\ \A r \in Procs \ {p} : txn'[r] = txn[r]
        /\ txn'[p].op \in {"create", "update"} => txn'[p].date \in txn'[p].days
        /\ \E d, e \in Dates : txn'[p].days = {d, e}
    <3>1. ASSUME NEW c \in Configs, NEW q \in Requests, NEW held \in BOOLEAN,
                 BeginCreate(p, q, c, held)
          PROVE  <2>2!:
      <4>1. txn'[p].days = {q.date} /\ txn'[p].date = q.date
        BY <3>1 DEF TypeOK, BeginCreate, Begun
      <4>2. \A r \in Procs \ {p} : txn'[r] = txn[r]
        BY <3>1 DEF TypeOK, BeginCreate
      <4>3. q.date \in Dates /\ {q.date} = {q.date, q.date}
        BY ScheduleAssumption
      <4> QED BY <4>1, <4>2, <4>3
    <3>2. ASSUME NEW c \in Configs, NEW i \in Ids, NEW q \in Requests, BeginUpdate(p, i, q, c)
          PROVE  <2>2!:
      BY <3>2, ScheduleAssumption DEF TypeOK, RowDatesKnown, BeginUpdate, Begun
    <3>3. ASSUME NEW c \in Configs, NEW i \in Ids, NEW pay \in Payments, BeginConfirm(p, i, pay, c)
          PROVE  <2>2!:
      BY <3>3 DEF TypeOK, RowDatesKnown, BeginConfirm, Begun
    <3> QED BY <1>1, <3>1, <3>2, <3>3 DEF Begin
  <2>3. Held(p) = {}
    BY <2>1 DEF PlacesFit, DayLocksHeld, NoTxn
  <2>4. \A r \in Procs : Held(r)' = Held(r)
    BY <2>1 DEF Held
  <2>5. at'[p] = "lock" /\ \A r \in Procs \ {p} : at'[r] = at[r] /\ Wanted(r)' = Wanted(r)
    BY <2>1, <2>2, <2>4 DEF TypeOK, Wanted
  <2>6. Wanted(p)' # {}
    BY <2>2, <2>3, <2>4 DEF Wanted
  <2>7. DayLocksHeld'
    BY <2>2, <2>3, <2>4, <2>5, <2>6 DEF DayLocksHeld
  <2>8. RowLocksHeld'
    BY <2>1, <2>2, <2>5 DEF RowLocksHeld
  <2> QED BY <2>7, <2>8
<1>2. ASSUME NEW p \in Procs, Step(p)
      PROVE  DayLocksHeld' /\ RowLocksHeld'
  <2>1. CASE LockDay(p)
    <3> DEFINE d == NextDay(p)
    <3>1. d \in Wanted(p)
      BY <2>1, NextDayFacts DEF LockDay
    <3>2. Held(p)' = Held(p) \cup {d} /\ \A r \in Procs \ {p} : Held(r)' = Held(r)
      BY <2>1, <3>1, ProcessAssumption DEF TypeOK, LockDay, Held, Wanted, Txn
    <3>3. \A r \in Procs : /\ txn'[r].op = txn[r].op /\ txn'[r].id = txn[r].id
                           /\ txn'[r].days = txn[r].days /\ txn'[r].date = txn[r].date
      BY <2>1 DEF TypeOK, LockDay, Txn
    <3>4. \A r \in Procs \ {p} : at'[r] = at[r] /\ Wanted(r)' = Wanted(r)
      BY <2>1, <3>2, <3>3 DEF TypeOK, LockDay, Wanted
    <3>5. Wanted(p)' = Wanted(p) \ {d}
      BY <3>2, <3>3 DEF Wanted
    <3>6. at'[p] \in {"lock", "decide"} /\ (at'[p] = "lock" <=> Wanted(p)' # {})
      BY <2>1, <3>1, <3>5 DEF TypeOK, LockDay
    <3>7. DayLocksHeld'
      BY <3>1, <3>2, <3>3, <3>4, <3>5, <3>6 DEF DayLocksHeld, Wanted
    <3>8. RowLocksHeld'
      BY <2>1, <3>3, <3>4, <3>6 DEF LockDay, RowLocksHeld
    <3> QED BY <3>7, <3>8
  <2>2. CASE DecideCreate(p)
    <3>1. CASE Finish(p)
      BY <3>1, FinishLocks
    <3>2. CASE at' = [at EXCEPT ![p] = "insert"] /\ UNCHANGED <<lock, rowLock>>
               /\ \E chosen \in Placements(p), i \in NextIds(p) :
                    txn' = [txn EXCEPT ![p].chosen = chosen, ![p].id = i]
      <4>1. at[p] = "decide"
        BY <2>2 DEF DecideCreate
      <4>2. \A r \in Procs : /\ txn'[r].op = txn[r].op
                             /\ r # p => txn'[r].id = txn[r].id
                             /\ txn'[r].days = txn[r].days /\ txn'[r].date = txn[r].date
        BY <3>2 DEF TypeOK, Txn
      <4>3. \A r \in Procs : Held(r)' = Held(r) /\ Wanted(r)' = Wanted(r)
        BY <3>2, <4>2 DEF Held, Wanted
      <4>4. DayLocksHeld'
        BY <3>2, <4>1, <4>2, <4>3 DEF TypeOK, DayLocksHeld
      <4>5. RowLocksHeld'
        BY <3>2, <4>1, <4>2 DEF TypeOK, RowLocksHeld
      <4> QED BY <4>4, <4>5
    <3> QED BY <2>2, <3>1, <3>2 DEF DecideCreate
  <2>3. CASE DecideUpdate(p)
    <3>1. CASE Finish(p)
      BY <3>1, FinishLocks
    <3>2. CASE /\ at' = [at EXCEPT ![p] = "reschedule"]
               /\ rowLock' = [rowLock EXCEPT ![txn[p].id] = p] /\ UNCHANGED lock
               /\ \E chosen \in Placements(p) : txn' = [txn EXCEPT ![p].chosen = chosen]
      <4>1. at[p] = "decide" /\ txn[p].id \in Ids /\ rowLock[txn[p].id] = NoProc
        BY <2>3 DEF DecideUpdate, PlacesFit
      <4>2. \A r \in Procs : r # p => txn'[r] = txn[r]
        BY <3>2 DEF TypeOK
      <4>3. /\ txn'[p].op = txn[p].op /\ txn'[p].id = txn[p].id
            /\ txn'[p].days = txn[p].days /\ txn'[p].date = txn[p].date
        BY <3>2 DEF TypeOK, Txn
      <4> QED BY <3>2, <4>1, <4>2, <4>3, GoLocks
    <3> QED BY <2>3, <3>1, <3>2 DEF DecideUpdate
  <2>4. CASE DecideConfirm(p)
    <3>1. CASE Finish(p)
      BY <3>1, FinishLocks
    <3>2. ASSUME NEW place \in {"pay", "lapse"}, at' = [at EXCEPT ![p] = place],
                 rowLock' = [rowLock EXCEPT ![txn[p].id] = p], UNCHANGED <<lock, txn>>
          PROVE  DayLocksHeld' /\ RowLocksHeld'
      <4>1. at[p] = "decide" /\ txn[p].id \in Ids /\ rowLock[txn[p].id] = NoProc
        BY <2>4 DEF DecideConfirm, PlacesFit
      <4> QED BY <3>2, <4>1, GoLocks
    <3> QED BY <2>4, <3>1, <3>2 DEF DecideConfirm
  <2>5. ASSUME CommitCreate(p) \/ CommitUpdate(p) \/ CommitPay(p) \/ CommitLapse(p)
        PROVE  DayLocksHeld' /\ RowLocksHeld'
    BY <2>5, FinishLocks DEF CommitCreate, CommitUpdate, CommitPay, CommitLapse
  <2> QED BY <1>2, <2>1, <2>2, <2>3, <2>4, <2>5 DEF Step
<1>3. ASSUME NEW p \in Procs, LockTimeout(p) \/ DeadlockVictim(p)
      PROVE  DayLocksHeld' /\ RowLocksHeld'
  <2>1. CASE Finish(p)
    BY <2>1, FinishLocks
  <2>2. CASE /\ lock' = Unlocked(p) /\ rowLock' = RowsUnlocked(p)
             /\ at' = [at EXCEPT ![p] = "lock"]
             /\ txn' = [txn EXCEPT ![p] = Restarted(txn[p])]
    <3>1. at[p] # "idle"
      BY <1>3, VictimWaits, WaitsAt DEF LockTimeout
    <3>2. \A r \in Procs : /\ txn'[r].op = txn[r].op
                           /\ r # p => txn'[r].id = txn[r].id
                           /\ txn'[r].days = txn[r].days /\ txn'[r].date = txn[r].date
      BY <2>2, RestartedType DEF TypeOK
    <3>3. Held(p)' = {} /\ \A r \in Procs \ {p} : Held(r)' = Held(r)
      BY <2>2, ProcessAssumption DEF TypeOK, Held, Unlocked
    <3>4. Wanted(p)' # {}
      BY <3>1, <3>2, <3>3 DEF DayLocksHeld, PlacesFit, Wanted
    <3>5. DayLocksHeld'
      BY <2>2, <3>1, <3>2, <3>3, <3>4 DEF TypeOK, DayLocksHeld, Wanted
    <3>6. RowLocksHeld'
      BY <2>2, <3>1, <3>2, ProcessAssumption DEF TypeOK, RowLocksHeld, RowsUnlocked
    <3> QED BY <3>5, <3>6
  <2> QED BY <1>3, <2>1, <2>2, VictimWaits, RollBackCases DEF LockTimeout
<1>4. ASSUME NEW p \in Procs, Crash(p)
      PROVE  DayLocksHeld' /\ RowLocksHeld'
  BY <1>4, FinishLocks DEF Crash
<1>5. CASE Statement \/ Tick \/ UNCHANGED vars
  <2>1. UNCHANGED <<lock, rowLock, at, txn>>
    BY <1>5 DEF Statement, Cancel, FailPayment, ReleaseHold, ExpireHolds, Tick, vars
  <2> QED BY <2>1 DEF DayLocksHeld, RowLocksHeld, Held, Wanted
<1> QED BY <1>1, <1>2, <1>3, <1>4, <1>5 DEF Next
-----------------------------------------------------------------------------
(* What a step does to one process, and to one reservation.                *)

\* A process that goes from its decision to a commit.
Chooses(r) ==
  /\ at[r] = "decide"
  /\ \E chosen \in Placements(r) :
       \/ /\ at'[r] = "insert" /\ txn[r].op = "create"
          /\ \E i \in NextIds(r) : txn'[r] = [txn[r] EXCEPT !.chosen = chosen, !.id = i]
       \/ /\ at'[r] = "reschedule" /\ txn[r].op = "update"
          /\ txn'[r] = [txn[r] EXCEPT !.chosen = chosen]
          /\ rows[txn[r].id].status \in {"held", "confirmed"}

Judges(r) ==
  LET outcome == ConfirmOutcome(rows, txn[r].id, txn[r].payment, txn[r].now, txn[r].buffer)
  IN  /\ at[r] = "decide" /\ txn[r].op = "confirm" /\ txn'[r] = txn[r]
      /\ \/ at'[r] = "pay" /\ outcome = "pay"
         \/ at'[r] = "lapse" /\ outcome = "hold_expired" /\ rows[txn[r].id].status = "held"

Locks(r) ==
  /\ at[r] = "lock"
  /\ \/ at'[r] = "lock" /\ txn'[r] = txn[r]
     \/ /\ at'[r] = "decide"
        /\ txn'[r] = [txn[r] EXCEPT !.now = IF txn[r].op = "confirm" THEN clock ELSE @]

Retries(r) ==
  /\ at[r] \in {"lock", "decide", "insert", "reschedule"} /\ at'[r] = "lock"
  /\ txn'[r] = Restarted(txn[r])

\* A process does nothing to another one.
LEMMA OthersStay ==
  ASSUME TypeOK, NEW p \in Procs, NEW r \in Procs \ {p},
         Begin(p) \/ Step(p) \/ LockTimeout(p) \/ Crash(p)
  PROVE  at'[r] = at[r] /\ txn'[r] = txn[r]
<1>1. CASE Finish(p)
  BY <1>1, FinishFacts
<1>2. CASE ~ Finish(p)
  <2>1. at'[r] = at[r]
    BY <1>2
    DEF TypeOK, Begin, BeginCreate, BeginUpdate, BeginConfirm, Step, LockDay, DecideCreate,
        DecideUpdate, DecideConfirm, CommitCreate, CommitUpdate, CommitPay, CommitLapse,
        LockTimeout, RollBack, Crash
  <2>2. txn'[r] = txn[r]
    BY <1>2
    DEF TypeOK, Begin, BeginCreate, BeginUpdate, BeginConfirm, Step, LockDay, DecideCreate,
        DecideUpdate, DecideConfirm, CommitCreate, CommitUpdate, CommitPay, CommitLapse,
        LockTimeout, RollBack, Crash
  <2> QED BY <2>1, <2>2
<1> QED BY <1>1, <1>2

\* A process stays as it is, or its transaction ends, or it goes on while the
\* tables stay as they are.
LEMMA ProcessSteps ==
  ASSUME TypeOK, [Next]_vars, NEW r \in Procs
  PROVE  \/ at'[r] = at[r] /\ txn'[r] = txn[r]
         \/ at'[r] = "idle" /\ txn'[r] = NoTxn
         \/ /\ UNCHANGED <<clock, rows>>
            /\ Begin(r) \/ Locks(r) \/ Chooses(r) \/ Judges(r) \/ Retries(r)
<1> DEFINE Goal == \/ at'[r] = at[r] /\ txn'[r] = txn[r]
                   \/ at'[r] = "idle" /\ txn'[r] = NoTxn
                   \/ /\ UNCHANGED <<clock, rows>>
                      /\ Begin(r) \/ Locks(r) \/ Chooses(r) \/ Judges(r) \/ Retries(r)
<1>1. ASSUME NEW p \in Procs, Finish(p) PROVE Goal
  BY <1>1, FinishFacts
<1>2. ASSUME NEW p \in Procs \ {r}, Begin(p) \/ Step(p) \/ LockTimeout(p) \/ Crash(p)
      PROVE  Goal
  BY <1>2, OthersStay
<1>3. CASE Begin(r)
  BY <1>3 DEF Begin, BeginCreate, BeginUpdate, BeginConfirm
<1>4. CASE LockDay(r)
  BY <1>4 DEF TypeOK, LockDay, Locks
<1>5. CASE DecideCreate(r) \/ DecideUpdate(r)
  BY <1>1, <1>5 DEF TypeOK, DecideCreate, DecideUpdate, Chooses
<1>6. CASE DecideConfirm(r)
  BY <1>1, <1>6 DEF TypeOK, DecideConfirm, Judges
<1>7. CASE CommitCreate(r) \/ CommitUpdate(r) \/ CommitPay(r) \/ CommitLapse(r) \/ Crash(r)
  BY <1>1, <1>7 DEF CommitCreate, CommitUpdate, CommitPay, CommitLapse, Crash
<1>8. CASE LockTimeout(r)
  <2>1. CASE Finish(r)
    BY <1>1, <2>1
  <2>2. CASE at' = [at EXCEPT ![r] = "lock"] /\ txn' = [txn EXCEPT ![r] = Restarted(txn[r])]
    BY <1>8, <2>2, WaitsAt DEF TypeOK, LockTimeout, Retries
  <2> QED BY <1>8, <2>1, <2>2, RollBackCases DEF LockTimeout
<1>9. CASE Statement \/ Tick \/ UNCHANGED vars
  BY <1>9 DEF Statement, Cancel, FailPayment, ReleaseHold, ExpireHolds, Tick, vars
<1> QED BY <1>2, <1>3, <1>4, <1>5, <1>6, <1>7, <1>8, <1>9, VictimWaits DEF Next, Step

\* A reservation gives up its stations.
Ends(i) ==
  \/ /\ rows[i].status \in {"held", "confirmed"}
     /\ rows'[i] = Transition(rows[i], "cancelled")
  \/ /\ rows[i].status = "held"
     /\ \/ rows'[i] = Transition(rows[i], "expired")
        \/ rows'[i] = Transition(rows[i], "payment_failed")

\* A commit gives reservation i its stations.
Writes(p, i) ==
  /\ \/ /\ at[p] = "insert" /\ i = txn[p].id /\ rows[i].status = "none"
        /\ rows'[i] = NewRow(txn[p], txn[p].chosen, txn[p].deadline)
     \/ /\ at[p] = "reschedule" /\ i = txn[p].id
        /\ rows'[i] = Reschedule(rows[i], txn[p], txn[p].chosen)
     \/ /\ at[p] = "pay" /\ i = txn[p].id
        /\ rows'[i] = Paid(rows[i], txn[p].payment)
  /\ at'[p] = "idle" /\ txn'[p] = NoTxn

\* The reservations stay as they are, or end, except for one that a commit
\* writes; no one but the holder of its lock touches a row.
LEMMA RowSteps ==
  ASSUME TypeOK, PlacesFit, LockedRowsKept, [Next]_vars
  PROVE  \/ UNCHANGED rows /\ clock' \in {clock, clock + 1}
         \/ /\ UNCHANGED clock
            /\ \/ \A i \in Ids : rows'[i] = rows[i] \/ (rowLock[i] = NoProc /\ Ends(i))
               \/ \E p \in Procs :
                    /\ at[p] = "lapse" /\ at'[p] = "idle" /\ Ends(txn[p].id)
                    /\ \A j \in Ids \ {txn[p].id} : rows'[j] = rows[j]
               \/ \E p \in Procs, i \in Ids :
                    Writes(p, i) /\ \A j \in Ids \ {i} : rows'[j] = rows[j]
<1> DEFINE Goal == \/ UNCHANGED rows /\ clock' \in {clock, clock + 1}
                   \/ /\ UNCHANGED clock
                      /\ \/ \A i \in Ids : rows'[i] = rows[i] \/ (rowLock[i] = NoProc /\ Ends(i))
                         \/ \E p \in Procs :
                              /\ at[p] = "lapse" /\ at'[p] = "idle" /\ Ends(txn[p].id)
                              /\ \A j \in Ids \ {txn[p].id} : rows'[j] = rows[j]
                         \/ \E p \in Procs, i \in Ids :
                              Writes(p, i) /\ \A j \in Ids \ {i} : rows'[j] = rows[j]
<1>1. ASSUME NEW p \in Procs, Begin(p) \/ LockTimeout(p) \/ DeadlockVictim(p) \/ Crash(p)
                               \/ LockDay(p)
                               \/ DecideCreate(p) \/ DecideUpdate(p) \/ DecideConfirm(p)
      PROVE  Goal
  <2>1. UNCHANGED <<clock, rows>>
    BY <1>1 DEF Begin, BeginCreate, BeginUpdate, BeginConfirm, LockTimeout, DeadlockVictim,
                Crash, LockDay, DecideCreate, DecideUpdate, DecideConfirm
  <2> QED BY <2>1
<1>2. ASSUME NEW p \in Procs, CommitCreate(p) PROVE Goal
  BY <1>2, FinishFacts DEF TypeOK, CommitCreate, Writes, PlacesFit
<1>3. ASSUME NEW p \in Procs, CommitUpdate(p) PROVE Goal
  BY <1>3, FinishFacts DEF TypeOK, CommitUpdate, Writes, PlacesFit
<1>4. ASSUME NEW p \in Procs, CommitPay(p) PROVE Goal
  BY <1>4, FinishFacts DEF TypeOK, CommitPay, Writes, PlacesFit
<1>5. ASSUME NEW p \in Procs, CommitLapse(p) PROVE Goal
  BY <1>5, FinishFacts DEF TypeOK, CommitLapse, Ends, PlacesFit, LockedRowsKept
<1>6. CASE Statement
  <2>1. ASSUME NEW i \in Ids, Cancel(i) \/ FailPayment(i) \/ ReleaseHold(i) PROVE Goal
    BY <2>1 DEF TypeOK, Cancel, FailPayment, ReleaseHold, Overdue, Ends
  <2>2. ASSUME NEW now \in 0 .. clock, ExpireHolds(now) PROVE Goal
    BY <2>2 DEF TypeOK, ExpireHolds, Swept, Overdue, Ends
  <2> QED BY <1>6, <2>1, <2>2 DEF Statement
<1>7. CASE Tick \/ UNCHANGED vars
  BY <1>7 DEF Tick, vars
<1> QED BY <1>1, <1>2, <1>3, <1>4, <1>5, <1>6, <1>7 DEF Next, Step

\* The reservation a transaction has locked is not changed by anyone else.
LEMMA LockedRowUnchanged ==
  ASSUME TypeOK, RowLocksHeld, PlacesFit, LockedRowsKept, [Next]_vars,
         NEW r \in Procs, at[r] \in {"reschedule", "pay", "lapse"}, at'[r] # "idle"
  PROVE  rows'[txn[r].id] = rows[txn[r].id]
<1> DEFINE i == txn[r].id
<1>1. i \in Ids /\ rows[i].status # "none" /\ rowLock[i] = r /\ r # NoProc
  BY ProcessAssumption DEF PlacesFit, RowLocksHeld
<1>2. ASSUME NEW p \in Procs, at'[p] = "idle", at[p] \in {"reschedule", "pay", "lapse"}
      PROVE  txn[p].id # i
  BY <1>1, <1>2 DEF RowLocksHeld
<1>3. ASSUME NEW p \in Procs, NEW j \in Ids, Writes(p, j)
      PROVE  j # i
  BY <1>1, <1>2, <1>3 DEF Writes
<1> QED BY <1>1, <1>2, <1>3, RowSteps

\* A reservation stays in the table, and the clock does not go back.
LEMMA RowsStay ==
  ASSUME TypeOK, PlacesFit, LockedRowsKept, [Next]_vars
  PROVE  /\ \A i \in Ids : rows[i].status # "none" => rows'[i].status # "none"
         /\ clock <= clock'
<1>1. ASSUME NEW i \in Ids, Ends(i) PROVE rows'[i].status # "none"
  BY <1>1 DEF TypeOK, Row, Ends, Transition
<1>2. ASSUME NEW p \in Procs, NEW i \in Ids, rows[i].status # "none", Writes(p, i)
      PROVE  rows'[i].status # "none"
  <2>1. rows[i] \in Row
    BY DEF TypeOK
  <2>2. Reschedule(rows[i], txn[p], txn[p].chosen).status = rows[i].status
    BY <2>1 DEF Row, Reschedule
  <2>3. Paid(rows[i], txn[p].payment).status = "confirmed"
    BY <2>1 DEF Row, Paid, Transition
  <2> QED BY <1>2, <2>2, <2>3 DEF Writes
<1>3. \A p \in Procs : at[p] = "lapse" => txn[p].id \in Ids
  BY DEF PlacesFit
<1>4. clock <= clock'
  BY RowSteps DEF TypeOK
<1> QED BY <1>1, <1>2, <1>3, <1>4, RowSteps

\* The row a transaction has inserted is written by nobody else.
LEMMA InsertedStay ==
  ASSUME TypeOK, PlacesFit, InsertsApart, LockedRowsKept, [Next]_vars,
         NEW r \in Procs, at[r] = "insert", at'[r] = "insert"
  PROVE  rows'[txn[r].id].status = "none"
<1> DEFINE i == txn[r].id
<1>1. i \in Ids /\ rows[i].status = "none"
  BY DEF PlacesFit
<1>2. ~ Ends(i)
  BY <1>1 DEF Ends
<1>3. ASSUME NEW p \in Procs PROVE ~ Writes(p, i)
  <2>1. SUFFICES ASSUME Writes(p, i) PROVE FALSE
    OBVIOUS
  <2>2. at[p] = "insert" /\ txn[p].id = i /\ at'[p] = "idle"
    BY <1>1, <2>1 DEF Writes, LockedRowsKept
  <2> QED BY <2>2 DEF InsertsApart
<1>4. ASSUME NEW p \in Procs, at[p] = "lapse" PROVE txn[p].id # i
  BY <1>1, <1>4 DEF LockedRowsKept
<1> QED BY <1>1, <1>2, <1>3, <1>4, RowSteps

\* An id that may be given to p is free, and no other transaction has it.
LEMMA NextIdFacts ==
  ASSUME NEW p \in Procs, NEW i \in NextIds(p)
  PROVE  /\ i \in Ids /\ rows[i].status = "none"
         /\ \A r \in Procs \ {p} : at[r] = "insert" => txn[r].id # i
<1>1. i \in Ids /\ ~ (i < i)
  BY KeyAssumption DEF NextIds
<1> QED BY <1>1 DEF NextIds

LEMMA PlacesStep ==
  ASSUME TypeOK, DayLocksHeld, PlacesFit, InsertsApart, RowDatesKnown, LockedRowsKept,
         [Next]_vars
  PROVE  PlacesFit'
<1> SUFFICES ASSUME NEW r \in Procs
    PROVE  /\ at'[r] = "idle" => txn'[r] = NoTxn
           /\ at'[r] # "idle" => txn'[r].op # "none"
           /\ at'[r] = "insert" => txn'[r].op = "create"
           /\ at'[r] = "reschedule" => txn'[r].op = "update"
           /\ at'[r] \in {"pay", "lapse"} => txn'[r].op = "confirm"
           /\ txn'[r].op = "create" /\ at'[r] # "insert" => txn'[r].id = NoId
           /\ at'[r] = "insert" => txn'[r].id \in Ids /\ rows'[txn'[r].id].status = "none"
           /\ txn'[r].op \in {"update", "confirm"} =>
                txn'[r].id \in Ids /\ rows'[txn'[r].id].status # "none"
           /\ txn'[r].op = "confirm" => txn'[r].payment \in Payments
           /\ txn'[r].now <= clock'
  BY DEF PlacesFit
<1>0. txn[r] \in Txn /\ clock \in Nat /\ clock' \in Nat /\ txn[r].now \in Nat
  BY NextType DEF TypeOK, Txn
<1>1. CASE at'[r] = at[r] /\ txn'[r] = txn[r]
  <2>1. at[r] = "insert" => rows'[txn[r].id].status = "none"
    BY <1>1, InsertedStay
  <2> QED BY <1>0, <1>1, <2>1, RowsStay DEF PlacesFit
<1>2. CASE at'[r] = "idle" /\ txn'[r] = NoTxn
  BY <1>0, <1>2 DEF NoTxn
<1>3. CASE UNCHANGED <<clock, rows>> /\ Begin(r)
  <2>1. at'[r] = "lock"
    BY <1>3 DEF TypeOK, Begin, BeginCreate, BeginUpdate, BeginConfirm
  <2>2. ASSUME NEW c \in Configs, NEW q \in Requests, NEW held \in BOOLEAN,
               BeginCreate(r, q, c, held)
        PROVE  txn'[r].op = "create" /\ txn'[r].id = NoId /\ txn'[r].now = clock
    BY <2>2 DEF TypeOK, BeginCreate, Begun
  <2>3. ASSUME NEW c \in Configs, NEW i \in Ids, NEW q \in Requests, BeginUpdate(r, i, q, c)
        PROVE  /\ txn'[r].op = "update" /\ txn'[r].id = i /\ txn'[r].now = clock
               /\ rows[i].status # "none"
    BY <2>3 DEF TypeOK, BeginUpdate, Begun
  <2>4. ASSUME NEW c \in Configs, NEW i \in Ids, NEW pay \in Payments, BeginConfirm(r, i, pay, c)
        PROVE  /\ txn'[r].op = "confirm" /\ txn'[r].id = i /\ txn'[r].now = 0
               /\ txn'[r].payment = pay /\ rows[i].status # "none"
    BY <2>4 DEF TypeOK, BeginConfirm, Begun
  <2> QED BY <1>0, <1>3, <2>1, <2>2, <2>3, <2>4 DEF Begin
<1>4. ASSUME UNCHANGED <<clock, rows>>, Locks(r) \/ Chooses(r) \/ Judges(r) \/ Retries(r)
      PROVE  /\ txn'[r].op = txn[r].op
             /\ IF at'[r] = "insert"
                THEN txn'[r].id \in Ids /\ rows[txn'[r].id].status = "none"
                ELSE txn'[r].id = IF txn[r].op = "create" THEN NoId ELSE txn[r].id
             /\ txn'[r].payment = txn[r].payment /\ txn'[r].now <= clock
             /\ at[r] # "idle" /\ at'[r] # "idle"
             /\ at'[r] = "insert" => txn[r].op = "create"
             /\ at'[r] = "reschedule" => txn[r].op = "update"
             /\ at'[r] \in {"pay", "lapse"} => txn[r].op = "confirm"
  <2>1. txn[r].now <= clock
    BY DEF PlacesFit
  <2>2. CASE Locks(r)
    BY <1>0, <2>1, <2>2 DEF Txn, Locks, PlacesFit
  <2>3. CASE Chooses(r)
    <3>1. CASE at'[r] = "insert"
      <4>1. PICK chosen \in Placements(r), i \in NextIds(r) :
              txn'[r] = [txn[r] EXCEPT !.chosen = chosen, !.id = i]
        BY <2>3, <3>1 DEF Chooses
      <4>2. /\ txn'[r].op = txn[r].op /\ txn'[r].id = i /\ txn'[r].payment = txn[r].payment
            /\ txn'[r].now = txn[r].now
        BY <1>0, <4>1 DEF Txn
      <4> QED BY <2>1, <2>3, <3>1, <4>2, NextIdFacts DEF Chooses
    <3>2. CASE at'[r] = "reschedule"
      BY <1>0, <2>1, <2>3, <3>2 DEF Txn, Chooses
    <3> QED BY <2>3, <3>1, <3>2 DEF Chooses
  <2>4. CASE Judges(r)
    BY <1>0, <2>1, <2>4 DEF Txn, Judges
  <2>5. CASE Retries(r)
    BY <1>0, <2>1, <2>5, RestartedType DEF Retries
  <2> QED BY <1>4, <2>2, <2>3, <2>4, <2>5
<1>5. CASE UNCHANGED <<clock, rows>> /\ (Locks(r) \/ Chooses(r) \/ Judges(r) \/ Retries(r))
  BY <1>4, <1>5 DEF PlacesFit
<1> QED BY <1>1, <1>2, <1>3, <1>5, ProcessSteps

LEMMA InsertsApartStep ==
  ASSUME TypeOK, PlacesFit, InsertsApart, [Next]_vars
  PROVE  InsertsApart'
<1> SUFFICES ASSUME NEW p \in Procs, NEW r \in Procs, p # r,
                    at'[p] = "insert", at'[r] = "insert"
    PROVE  txn'[p].id # txn'[r].id
  BY DEF InsertsApart
<1>1. ASSUME NEW q \in Procs, at'[q] = "insert"
      PROVE  \/ at[q] = "insert" /\ txn'[q] = txn[q]
             \/ DecideCreate(q)
  <2>1. CASE at'[q] = at[q] /\ txn'[q] = txn[q]
    BY <1>1, <2>1
  <2>2. CASE DecideCreate(q)
    BY <2>2
  <2>3. ASSUME NEW s \in Procs, Begin(s) \/ Step(s) \/ LockTimeout(s) \/ Crash(s)
        PROVE  (at'[q] = at[q] /\ txn'[q] = txn[q]) \/ DecideCreate(q)
    <3>1. CASE s # q
      BY <2>3, <3>1, OthersStay
    <3>2. CASE s = q
      <4>1. CASE Finish(q)
        BY <1>1, <4>1, FinishFacts
      <4>2. CASE ~ Finish(q)
        BY <1>1, <2>3, <3>2, <4>2
        DEF TypeOK, Begin, BeginCreate, BeginUpdate, BeginConfirm, Step, LockDay,
            DecideUpdate, DecideConfirm, CommitCreate, CommitUpdate, CommitPay, CommitLapse,
            LockTimeout, RollBack, Crash
      <4> QED BY <4>1, <4>2
    <3> QED BY <3>1, <3>2
  <2>4. CASE Statement \/ Tick \/ UNCHANGED vars
    BY <1>1, <2>4 DEF Statement, Cancel, FailPayment, ReleaseHold, ExpireHolds, Tick, vars
  <2> QED BY <1>1, <2>1, <2>2, <2>3, <2>4, VictimWaits DEF Next
<1>2. ASSUME NEW q \in Procs, NEW s \in Procs \ {q}, DecideCreate(q),
             at'[q] = "insert", at'[s] = "insert"
      PROVE  txn'[q].id # txn'[s].id
  <2>1. at'[s] = at[s] /\ txn'[s] = txn[s]
    BY <1>2, OthersStay DEF Step
  <2>2. ~ Finish(q)
    BY <1>2, FinishFacts
  <2>3. txn'[q].id \in NextIds(q)
    <3>1. PICK chosen \in Placements(q), i \in NextIds(q) :
            txn' = [txn EXCEPT ![q].chosen = chosen, ![q].id = i]
      BY <1>2, <2>2 DEF DecideCreate
    <3>2. txn[q] \in Txn /\ txn \in [Procs -> Txn]
      BY DEF TypeOK
    <3>3. txn'[q] = [txn[q] EXCEPT !.chosen = chosen, !.id = i]
      BY <3>1, <3>2
    <3>4. txn'[q].id = i
      BY <3>2, <3>3 DEF Txn
    <3> QED BY <3>4
  <2> QED BY <1>2, <2>1, <2>3, NextIdFacts
<1> QED BY <1>1, <1>2 DEF InsertsApart

LEMMA RowFieldsOfWrites ==
  ASSUME TypeOK, DayLocksHeld, PlacesFit, NEW p \in Procs, NEW i \in Ids, Writes(p, i)
  PROVE  \/ /\ at[p] = "insert" /\ i = txn[p].id /\ rows[i].status = "none"
            /\ rows'[i].date = txn[p].date /\ rows'[i].date \in txn[p].days
            /\ rows'[i].start = txn[p].start /\ rows'[i].end = txn[p].end
            /\ rows'[i].stations = txn[p].chosen
            /\ rows'[i].status = "held" => rows'[i].deadline # NoDeadline
            /\ rows'[i].status \in {"held", "confirmed"}
         \/ /\ at[p] = "reschedule" /\ i = txn[p].id
            /\ rows'[i].date = txn[p].date /\ rows'[i].date \in txn[p].days
            /\ rows'[i].start = txn[p].start /\ rows'[i].end = txn[p].end
            /\ rows'[i].stations = txn[p].chosen
            /\ rows'[i].status = rows[i].status /\ rows'[i].deadline = rows[i].deadline
         \/ /\ at[p] = "pay" /\ i = txn[p].id
            /\ rows'[i].date = rows[i].date
            /\ rows'[i].start = rows[i].start /\ rows'[i].end = rows[i].end
            /\ rows'[i].stations = rows[i].stations
            /\ rows'[i].status = "confirmed"
<1>1. rows[i] \in Row
  BY DEF TypeOK
<1>2. CASE at[p] = "insert"
  <2>1. txn[p].date \in txn[p].days
    BY <1>2 DEF DayLocksHeld, PlacesFit
  <2> QED BY <1>2, <2>1 DEF Writes, NewRow
<1>3. CASE at[p] = "reschedule"
  <2>1. txn[p].date \in txn[p].days
    BY <1>3 DEF DayLocksHeld, PlacesFit
  <2> QED BY <1>1, <1>3, <2>1 DEF Writes, Row, Reschedule
<1>4. CASE at[p] = "pay"
  BY <1>1, <1>4 DEF Writes, Row, Paid, Transition
<1> QED BY <1>2, <1>3, <1>4 DEF Writes

\* A reservation that ends keeps its schedule and blocks nothing any more.
LEMMA RowFieldsOfEnds ==
  ASSUME TypeOK, NEW i \in Ids, Ends(i)
  PROVE  /\ rows'[i].date = rows[i].date
         /\ rows[i].status # "none"
         /\ rows'[i].status \in {"expired", "payment_failed", "cancelled"}
         /\ rows'[i].status = "expired" => rows[i].status = "held"
BY DEF TypeOK, Row, Ends, Transition

LEMMA RowDatesStep ==
  ASSUME TypeOK, DayLocksHeld, PlacesFit, RowDatesKnown, HoldsHaveDeadlines, LockedRowsKept,
         [Next]_vars
  PROVE  RowDatesKnown' /\ HoldsHaveDeadlines'
<1> SUFFICES ASSUME NEW i \in Ids
    PROVE  /\ rows'[i].status # "none" => rows'[i].date \in Dates
           /\ rows'[i].status = "held" => rows'[i].deadline # NoDeadline
  BY DEF RowDatesKnown, HoldsHaveDeadlines
<1>1. CASE rows'[i] = rows[i]
  BY <1>1 DEF RowDatesKnown, HoldsHaveDeadlines
<1>2. CASE Ends(i)
  BY <1>2, RowFieldsOfEnds DEF RowDatesKnown
<1>3. ASSUME NEW p \in Procs, Writes(p, i)
      PROVE  /\ rows'[i].status # "none" => rows'[i].date \in Dates
             /\ rows'[i].status = "held" => rows'[i].deadline # NoDeadline
  <2>1. txn[p].days \subseteq Dates
    BY DEF TypeOK, Txn
  <2> QED BY <1>3, <2>1, RowFieldsOfWrites DEF RowDatesKnown, HoldsHaveDeadlines, PlacesFit
<1> QED BY <1>1, <1>2, <1>3, RowSteps

LEMMA LockedRowsStep ==
  ASSUME TypeOK, RowLocksHeld, PlacesFit, LockedRowsKept, [Next]_vars
  PROVE  LockedRowsKept'
<1> SUFFICES ASSUME NEW r \in Procs, at'[r] \in {"reschedule", "pay", "lapse"}
    PROVE  /\ at'[r] = "reschedule" => rows'[txn'[r].id].status \in {"held", "confirmed"}
           /\ at'[r] = "pay" => rows'[txn'[r].id].status \in {"held", "expired"}
           /\ at'[r] = "lapse" => rows'[txn'[r].id].status = "held"
  BY DEF LockedRowsKept
<1>1. CASE at'[r] = at[r] /\ txn'[r] = txn[r]
  BY <1>1, LockedRowUnchanged DEF LockedRowsKept
<1>2. CASE UNCHANGED rows /\ Begin(r)
  BY <1>2 DEF TypeOK, Begin, BeginCreate, BeginUpdate, BeginConfirm
<1>3. CASE UNCHANGED rows /\ Chooses(r)
  BY <1>3 DEF TypeOK, Txn, Chooses
<1>4. CASE UNCHANGED rows /\ Judges(r)
  BY <1>4 DEF Judges, ConfirmOutcome
<1> QED BY <1>1, <1>2, <1>3, <1>4, ProcessSteps DEF Locks, Retries
-----------------------------------------------------------------------------
(* What holds whatever staff do. *)

LEMMA OrderlyInit == Init => Orderly
<1> SUFFICES ASSUME Init PROVE Orderly
  OBVIOUS
<1>1. TypeOK
  BY NoTxnType, NoRowType DEF Init, TypeOK, Place
<1>2. DayLocksHeld /\ RowLocksHeld
  BY ProcessAssumption DEF Init, DayLocksHeld, RowLocksHeld, Held, NoTxn
<1>3. PlacesFit /\ RowDatesKnown /\ HoldsHaveDeadlines /\ LockedRowsKept
  BY DEF Init, PlacesFit, RowDatesKnown, HoldsHaveDeadlines, LockedRowsKept, NoTxn, NoRow
<1>4. InsertsApart
  BY DEF Init, InsertsApart
<1> QED BY <1>1, <1>2, <1>3, <1>4 DEF Orderly

LEMMA OrderlyStep == Orderly /\ [Next]_vars => Orderly'
BY NextType, LocksStep, PlacesStep, InsertsApartStep, RowDatesStep, LockedRowsStep DEF Orderly

LEMMA OrderlyAlways == Spec => []Orderly
BY OrderlyInit, OrderlyStep, PTL DEF Spec

\* The variables keep their types, in every interleaving of requests,
\* statements, time-outs and crashes, whatever staff move.
THEOREM TypesKept == Spec => []TypeOK
<1>1. Orderly => TypeOK
  BY DEF Orderly
<1> QED BY <1>1, OrderlyAlways, PTL
-----------------------------------------------------------------------------
(* No double booking, while staff move held reservations only within a date. *)

\* Stations that are free of a day's blocks are free of each reservation behind them.
LEMMA FreeIsDisjoint ==
  ASSUME TypeOK, NEW now, NEW except, NEW j \in Ids \ {except}, Blocking(rows[j], now),
         NEW start \in Nat, NEW end \in Nat, NEW buffer \in Nat, NEW among,
         NEW s \in FreeStations(among, BlocksForDate(rows, rows[j].date, now, except),
                                start, end, buffer),
         s \in rows[j].stations
  PROVE  ~ (start < rows[j].end /\ rows[j].start < end)
<1> DEFINE block == [station |-> s, start |-> rows[j].start, end |-> rows[j].end]
<1>1. block \in BlocksForDate(rows, rows[j].date, now, except)
  BY DEF BlocksForDate
<1>2. ~ TooClose(start, end, block, buffer)
  BY <1>1 DEF FreeStations
<1>3. rows[j].start \in Nat /\ rows[j].end \in Nat
  BY DEF TypeOK, Row
<1> QED BY <1>2, <1>3 DEF TooClose

\* Two transactions past their locks share no date.
LEMMA DaysExclusive ==
  ASSUME DayLocksHeld, NEW p \in Procs, NEW r \in Procs \ {p},
         at[p] \notin {"idle", "lock"}, at[r] \notin {"idle", "lock"}
  PROVE  txn[p].days \cap txn[r].days = {}
BY DEF DayLocksHeld, Held

\* What another transaction commits is on another date.
LEMMA WritesElsewhere ==
  ASSUME Orderly, DatesKnown, NEW p \in Procs, NEW i \in Ids, Writes(p, i),
         NEW r \in Procs \ {p}, at[r] \notin {"idle", "lock"}
  PROVE  rows'[i].date \notin txn[r].days
<1>1. txn[p].days \cap txn[r].days = {} /\ at[p] \in {"insert", "reschedule", "pay"}
  BY DaysExclusive DEF Orderly, Writes
<1>2. at[p] = "pay" => rows[txn[p].id].date \in txn[p].days
  BY DEF Orderly, DatesKnown, LockedRowsKept, PlacesFit
<1> QED BY <1>1, <1>2, RowFieldsOfWrites DEF Orderly

\* Seen by a transaction past its locks, a reservation that blocks one of its
\* dates after a step of the others was there before.
LEMMA DatesStable ==
  ASSUME Orderly, DatesKnown, [Next]_vars, NEW r \in Procs, NEW now,
         at[r] \notin {"idle", "lock"}, at'[r] # "idle",
         NEW j \in Ids, Blocking(rows'[j], now), rows'[j].date \in txn[r].days
  PROVE  rows'[j] = rows[j]
<1>1. ~ Ends(j)
  BY RowFieldsOfEnds DEF Orderly, Blocking
<1>2. ASSUME NEW p \in Procs PROVE ~ Writes(p, j)
  BY <1>2, WritesElsewhere DEF Writes
<1> QED BY <1>1, <1>2, RowSteps DEF Orderly

LEMMA DatesKnownStep ==
  ASSUME ~ MovesHeld, Orderly, DatesKnown, [Next]_vars
  PROVE  DatesKnown'
<1> SUFFICES ASSUME NEW r \in Procs
    PROVE  /\ txn'[r].op = "update" /\ rows'[txn'[r].id].status = "held"
                => rows'[txn'[r].id].date = txn'[r].date
           /\ txn'[r].op = "confirm" /\ rows'[txn'[r].id].status \in {"held", "expired"}
                => rows'[txn'[r].id].date \in txn'[r].days
  BY DEF DatesKnown
<1>0. TypeOK /\ PlacesFit /\ DayLocksHeld /\ txn[r] \in Txn
  BY DEF Orderly, TypeOK
<1>1. CASE at'[r] = at[r] /\ txn'[r] = txn[r]
  <2> DEFINE i == txn[r].id
  <2>0. CASE txn[r].op \notin {"update", "confirm"}
    BY <1>1, <2>0
  <2>1. CASE txn[r].op \in {"update", "confirm"}
    <3>1. i \in Ids /\ rows[i].status # "none"
      BY <2>1 DEF Orderly, PlacesFit
    <3>2. ASSUME NEW p \in Procs, Writes(p, i), rows'[i].status \in {"held", "expired"}
          PROVE  rows'[i].status = rows[i].status
                 /\ (rows[i].status = "held" => rows'[i].date = rows[i].date)
      <4>1. at[p] = "reschedule" /\ i = txn[p].id /\ rows'[i].status = rows[i].status
            /\ rows'[i].date = txn[p].date
        BY <1>0, <3>1, <3>2, RowFieldsOfWrites
      <4>2. txn[p].op = "update"
        BY <1>0, <4>1 DEF PlacesFit
      <4> QED BY <4>1, <4>2 DEF DatesKnown
    <3>3. ASSUME NEW p \in Procs, Writes(p, i)
          PROVE  rows'[i].status # "expired"
      BY <1>0, <3>1, <3>2, <3>3, RowFieldsOfWrites DEF Orderly, LockedRowsKept
    <3>4. CASE rows'[i] = rows[i]
      BY <1>1, <3>4 DEF DatesKnown
    <3>5. CASE Ends(i)
      BY <1>0, <1>1, <3>1, <3>5, RowFieldsOfEnds DEF DatesKnown
    <3>6. CASE \E p \in Procs : Writes(p, i)
      BY <1>1, <3>2, <3>3, <3>6 DEF DatesKnown
    <3> QED BY <3>1, <3>4, <3>5, <3>6, RowSteps DEF Orderly
  <2> QED BY <2>0, <2>1
<1>2. CASE at'[r] = "idle" /\ txn'[r] = NoTxn
  BY <1>2 DEF NoTxn
<1>3. CASE UNCHANGED rows /\ Begin(r)
  <2>1. ASSUME NEW c \in Configs, NEW q \in Requests, NEW held \in BOOLEAN,
               BeginCreate(r, q, c, held)
        PROVE  txn'[r].op = "create"
    BY <1>0, <2>1 DEF TypeOK, BeginCreate, Begun
  <2>2. ASSUME NEW c \in Configs, NEW i \in Ids, NEW q \in Requests, BeginUpdate(r, i, q, c)
        PROVE  /\ txn'[r].op = "update" /\ txn'[r].id = i /\ txn'[r].date = q.date
               /\ rows[i].status = "held" => rows[i].date = q.date
    BY <1>0, <2>2 DEF TypeOK, BeginUpdate, Begun
  <2>3. ASSUME NEW c \in Configs, NEW i \in Ids, NEW pay \in Payments, BeginConfirm(r, i, pay, c)
        PROVE  txn'[r].op = "confirm" /\ txn'[r].id = i /\ txn'[r].days = {rows[i].date}
    BY <1>0, <2>3 DEF TypeOK, BeginConfirm, Begun
  <2> QED BY <1>3, <2>1, <2>2, <2>3 DEF Begin
<1>4. ASSUME UNCHANGED rows, Locks(r) \/ Chooses(r) \/ Judges(r) \/ Retries(r)
      PROVE  /\ txn'[r].op = txn[r].op
             /\ txn[r].op \in {"update", "confirm"} => txn'[r].id = txn[r].id
             /\ txn'[r].days = txn[r].days /\ txn'[r].date = txn[r].date
  BY <1>0, <1>4, RestartedType DEF Txn, Locks, Chooses, Judges, Retries
<1>5. CASE UNCHANGED rows /\ (Locks(r) \/ Chooses(r) \/ Judges(r) \/ Retries(r))
  BY <1>4, <1>5 DEF DatesKnown
<1> QED BY <1>1, <1>2, <1>3, <1>5, ProcessSteps DEF Orderly

\* What a transaction has chosen is free on the date it asked for.
LEMMA ChosenIsFree ==
  ASSUME TypeOK, NEW r \in Procs, NEW chosen \in Placements(r),
         NEW j \in Ids \ {txn[r].id}, Blocking(rows[j], txn[r].now), rows[j].date = txn[r].date
  PROVE  ~ /\ chosen \cap rows[j].stations # {}
           /\ txn[r].start < rows[j].end /\ rows[j].start < txn[r].end
<1>1. /\ txn[r].start \in Nat /\ txn[r].end \in Nat /\ txn[r].buffer \in Nat
  BY DEF TypeOK, Txn
<1>2. chosen \subseteq FreeStations(txn[r].active,
                          BlocksForDate(rows, txn[r].date, txn[r].now, txn[r].id),
                          txn[r].start, txn[r].end, txn[r].buffer)
  BY DEF Placements, Allocations
<1> QED BY <1>1, <1>2, FreeIsDisjoint

LEMMA ClaimsStep ==
  ASSUME Orderly, DatesKnown, ClaimsFree, LockedDateConsistent, [Next]_vars
  PROVE  ClaimsFree'
<1> SUFFICES ASSUME NEW r \in Procs, NEW j \in Ids \ {txn'[r].id},
                    Blocking(rows'[j], txn'[r].now)
    PROVE  /\ at'[r] \in {"insert", "reschedule"} => ~ Conflict(Claim(r)', rows'[j])
           /\ at'[r] = "pay" => ~ Conflict(rows'[txn'[r].id], rows'[j])
  BY DEF ClaimsFree
<1>0. TypeOK /\ PlacesFit /\ DayLocksHeld /\ txn[r] \in Txn
  BY DEF Orderly, TypeOK
<1>1. CASE at'[r] = at[r] /\ txn'[r] = txn[r] /\ at[r] \in {"insert", "reschedule"}
  <2>1. txn[r].date \in txn[r].days /\ Claim(r)' = Claim(r)
    BY <1>0, <1>1 DEF DayLocksHeld, PlacesFit, Claim
  <2>2. rows'[j].date = txn[r].date => rows'[j] = rows[j]
    BY <1>1, <2>1, DatesStable
  <2> QED BY <1>1, <2>1, <2>2 DEF ClaimsFree, Claim, Conflict
<1>2. CASE at'[r] = at[r] /\ txn'[r] = txn[r] /\ at[r] = "pay"
  <2> DEFINE i == txn[r].id
  <2>1. i \in Ids /\ rows'[i] = rows[i]
    BY <1>0, <1>2, LockedRowUnchanged DEF Orderly, PlacesFit
  <2>2. rows[i].date \in txn[r].days
    BY <1>0, <1>2 DEF Orderly, PlacesFit, LockedRowsKept, DatesKnown
  <2>3. rows'[j].date = rows[i].date => rows'[j] = rows[j]
    BY <1>2, <2>2, DatesStable
  <2> QED BY <1>2, <2>1, <2>3 DEF ClaimsFree, Conflict
<1>3. CASE at'[r] \notin {"insert", "reschedule", "pay"}
  BY <1>3
<1>4. CASE UNCHANGED rows /\ Chooses(r)
  <2>1. PICK chosen \in Placements(r), i \in Ids \cup {NoId} :
          txn'[r] = [txn[r] EXCEPT !.chosen = chosen, !.id = i]
    <3>1. CASE at'[r] = "insert"
      BY <1>4, <3>1 DEF Chooses, NextIds
    <3>2. CASE at'[r] = "reschedule"
      <4>1. PICK chosen \in Placements(r) : txn'[r] = [txn[r] EXCEPT !.chosen = chosen]
        BY <1>4, <3>2 DEF Chooses
      <4>2. /\ [txn[r] EXCEPT !.chosen = chosen]
                = [txn[r] EXCEPT !.chosen = chosen, !.id = txn[r].id]
            /\ txn[r].id \in Ids \cup {NoId}
        BY <1>0 DEF Txn
      <4> QED BY <4>1, <4>2
    <3> QED BY <1>4, <3>1, <3>2 DEF Chooses
  <2>2. /\ txn[r].op = "create" => txn[r].id = NoId
        /\ txn[r].op = "update" => txn'[r].id = txn[r].id
        /\ txn[r].op \in {"create", "update"}
    BY <1>0, <1>4 DEF Chooses, PlacesFit, Txn
  <2>4. j \in Ids \ {txn[r].id}
    BY <2>2, TableAssumption
  <2>5. /\ txn'[r].now = txn[r].now
        /\ Claim(r)' = [date |-> txn[r].date, start |-> txn[r].start, end |-> txn[r].end,
                        stations |-> chosen]
    BY <1>0, <2>1 DEF Txn, Claim
  <2>3. at'[r] # "pay"
    BY <1>4 DEF Chooses
  <2> QED BY <1>0, <1>4, <2>1, <2>3, <2>4, <2>5, ChosenIsFree DEF Conflict
<1>5. CASE UNCHANGED rows /\ Judges(r) /\ at'[r] = "pay"
  <2> DEFINE i == txn[r].id
             now == txn[r].now
  <2>0. i \in Ids /\ rows[i] \in Row /\ txn'[r] = txn[r] /\ j # i
    BY <1>0, <1>5 DEF Judges, PlacesFit, TypeOK
  <2>1. /\ rows[i].status \in {"held", "expired"}
        /\ ~ PastDue(rows[i], now) \/ StillFree(rows, i, now, txn[r].buffer)
    BY <1>5 DEF Judges, ConfirmOutcome
  <2>2. rows[i].date \in txn[r].days
    BY <1>5, <2>1 DEF DatesKnown, Judges
  <2>3. CASE StillFree(rows, i, now, txn[r].buffer)
    <3>1. /\ rows[i].start \in Nat /\ rows[i].end \in Nat /\ txn[r].buffer \in Nat
      BY <1>0, <2>0 DEF Row, Txn
    <3>2. Blocking(rows[j], now)
      BY <1>5, <2>0
    <3> QED BY <1>0, <1>5, <2>0, <2>3, <3>1, <3>2, FreeIsDisjoint DEF StillFree, Conflict
  <2>4. CASE ~ PastDue(rows[i], now)
    <3>1. rows[i].status = "held" /\ rows[i].deadline \in Nat /\ now \in Nat
      BY <1>0, <2>0, <2>1, <2>4 DEF PastDue, Orderly, HoldsHaveDeadlines, Row, Txn
    <3>2. Blocking(rows[i], now)
      BY <2>4, <3>1 DEF PastDue, Blocking, NoDeadline
    <3>3. ~ Conflict(rows[i], rows[j])
      BY <1>5, <2>0, <2>2, <3>2 DEF LockedDateConsistent, Judges
    <3> QED BY <1>5, <2>0, <3>3
  <2> QED BY <2>1, <2>3, <2>4
<1> QED BY <1>1, <1>2, <1>3, <1>4, <1>5, ProcessSteps
    DEF Orderly, Begin, BeginCreate, BeginUpdate, BeginConfirm, Locks, Judges, Retries, TypeOK

\* A reservation that blocks at some time blocked before it, too.
LEMMA BlockingEarlier ==
  ASSUME NEW row \in Row, NEW now \in Nat, NEW later \in Nat, now <= later,
         Blocking(row, later)
  PROVE  Blocking(row, now)
BY DEF Row, Blocking, NoDeadline

LEMMA LockedDateStep ==
  ASSUME Orderly, DatesKnown, LockedDateConsistent, NoDoubleBooking, [Next]_vars
  PROVE  LockedDateConsistent'
<1> SUFFICES ASSUME NEW r \in Procs, at'[r] = "decide", txn'[r].op = "confirm",
                    NEW i \in Ids, NEW j \in Ids, i # j, rows'[i].date \in txn'[r].days,
                    Blocking(rows'[i], txn'[r].now), Blocking(rows'[j], txn'[r].now)
    PROVE  ~ Conflict(rows'[i], rows'[j])
  BY DEF LockedDateConsistent
<1>0. TypeOK /\ txn[r] \in Txn
  BY DEF Orderly, TypeOK
<1>1. CASE at'[r] = at[r] /\ txn'[r] = txn[r]
  <2>1. rows'[i] = rows[i]
    BY <1>1, DatesStable
  <2>2. rows'[j].date = rows'[i].date => rows'[j] = rows[j]
    BY <1>1, DatesStable
  <2> QED BY <1>1, <2>1, <2>2 DEF LockedDateConsistent, Conflict
<1>2. CASE UNCHANGED <<clock, rows>> /\ Locks(r)
  <2>1. txn'[r].now = clock
    BY <1>0, <1>2 DEF Locks, Txn
  <2> QED BY <1>2, <2>1 DEF NoDoubleBooking
<1> QED BY <1>0, <1>1, <1>2, ProcessSteps
    DEF Begin, BeginCreate, BeginUpdate, BeginConfirm, Chooses, Judges, Retries, TypeOK

LEMMA NoDoubleBookingStep ==
  ASSUME Orderly, DatesKnown, ClaimsFree, NoDoubleBooking, [Next]_vars
  PROVE  NoDoubleBooking'
<1> SUFFICES ASSUME NEW i \in Ids, NEW j \in Ids, i # j,
                    Blocking(rows'[i], clock'), Blocking(rows'[j], clock')
    PROVE  ~ Conflict(rows'[i], rows'[j])
  BY DEF NoDoubleBooking
<1>0. /\ TypeOK /\ PlacesFit /\ DayLocksHeld
      /\ rows[i] \in Row /\ rows[j] \in Row /\ clock \in Nat /\ clock' \in Nat
      /\ \A p \in Procs : txn[p].now \in Nat /\ txn[p].now <= clock
  BY NextType DEF Orderly, TypeOK, PlacesFit, Txn
<1>1. ~ Ends(i) /\ ~ Ends(j)
  BY <1>0, RowFieldsOfEnds DEF Blocking
<1>2. CASE rows'[i] = rows[i] /\ rows'[j] = rows[j]
  <2>1. Blocking(rows[i], clock) /\ Blocking(rows[j], clock)
    BY <1>0, <1>2, RowsStay, BlockingEarlier DEF Orderly
  <2> QED BY <1>2, <2>1 DEF NoDoubleBooking
<1>3. ASSUME NEW k \in Ids, NEW m \in Ids \ {k}, NEW p \in Procs, Writes(p, k),
             rows[m] \in Row, rows'[m] = rows[m], Blocking(rows'[m], clock'), UNCHANGED clock
      PROVE  ~ Conflict(rows'[k], rows[m])
  <2>1. Blocking(rows[m], txn[p].now)
    BY <1>0, <1>3, BlockingEarlier
  <2>2. CASE at[p] = "insert"
    <3>1. m # txn[p].id
      BY <1>3, <2>2 DEF Writes
    <3>2. ~ Conflict(Claim(p), rows[m])
      BY <2>1, <2>2, <3>1 DEF ClaimsFree
    <3> QED BY <1>0, <1>3, <2>2, <3>2, RowFieldsOfWrites DEF Conflict, Claim
  <2>3. CASE at[p] = "reschedule"
    <3>1. m # txn[p].id
      BY <1>3, <2>3 DEF Writes
    <3>2. ~ Conflict(Claim(p), rows[m])
      BY <2>1, <2>3, <3>1 DEF ClaimsFree
    <3> QED BY <1>0, <1>3, <2>3, <3>2, RowFieldsOfWrites DEF Conflict, Claim
  <2>4. CASE at[p] = "pay"
    <3>1. k = txn[p].id
      BY <1>3, <2>4 DEF Writes
    <3>2. ~ Conflict(rows[k], rows[m])
      BY <2>1, <2>4, <3>1 DEF ClaimsFree
    <3> QED BY <1>0, <1>3, <2>4, <3>2, RowFieldsOfWrites DEF Conflict
  <2> QED BY <1>3, <2>2, <2>3, <2>4 DEF Writes
<1>4. Conflict(rows'[i], rows'[j]) => Conflict(rows'[j], rows'[i])
  BY DEF Conflict
<1>5. CASE UNCHANGED clock /\ \E p \in Procs, k \in Ids :
             Writes(p, k) /\ \A m \in Ids \ {k} : rows'[m] = rows[m]
  BY <1>0, <1>2, <1>3, <1>4, <1>5
<1>6. CASE rows'[i] # rows[i] \/ rows'[j] # rows[j]
  <2>1. ASSUME NEW p \in Procs, at[p] = "lapse", Ends(txn[p].id)
        PROVE  txn[p].id \notin {i, j}
    BY <1>1, <2>1
  <2> QED BY <1>1, <1>5, <1>6, <2>1, RowSteps DEF Orderly
<1> QED BY <1>2, <1>6

LEMMA InvInit == Init => Inv
<1> SUFFICES ASSUME Init PROVE Inv
  OBVIOUS
<1>1. DatesKnown /\ ClaimsFree /\ LockedDateConsistent
  BY DEF Init, NoTxn, DatesKnown, ClaimsFree, LockedDateConsistent
<1>2. NoDoubleBooking
  BY DEF Init, NoRow, NoDoubleBooking, Blocking
<1> QED BY <1>1, <1>2, OrderlyInit DEF Inv

LEMMA InvStep == ~ MovesHeld /\ Inv /\ [Next]_vars => Inv'
BY OrderlyStep, DatesKnownStep, ClaimsStep, LockedDateStep, NoDoubleBookingStep
DEF Inv

\* The inductive invariant, while staff move held reservations only within their date.
THEOREM InvariantKept == ~ MovesHeld /\ Spec => []Inv
<1>1. CASE ~ MovesHeld
  <2>1. Inv /\ [Next]_vars => Inv'
    BY <1>1, InvStep
  <2> QED BY <2>1, InvInit, PTL DEF Spec
<1>2. CASE MovesHeld
  BY <1>2
<1> QED BY <1>1, <1>2

\* While staff move held reservations only within their date, no interleaving
\* of create(), update(), confirmPayment() and the single-statement writers
\* gives a station to two reservations that overlap.
THEOREM NeverDoubleBooked == ~ MovesHeld /\ Spec => []NoDoubleBooking
<1>1. Inv => NoDoubleBooking
  BY DEF Inv
<1> QED BY <1>1, InvariantKept, PTL
-----------------------------------------------------------------------------
(* Payments. *)

\* confirmPayment() reports success when it writes the payment, or finds it written.
LEMMA AcceptedSteps ==
  ASSUME TypeOK, PlacesFit, [Next]_vars
  PROVE  \/ accepted' = accepted
         \/ \E p \in Procs :
              LET i == txn[p].id
              IN  /\ accepted' = accepted \cup {<<i, txn[p].payment>>}
                  /\ i \in Ids
                  /\ \/ /\ rows[i].status = "confirmed" /\ rows[i].payment = txn[p].payment
                        /\ UNCHANGED rows
                     \/ /\ rows'[i] = Paid(rows[i], txn[p].payment)
                        /\ \A j \in Ids \ {i} : rows'[j] = rows[j]
<1> DEFINE Goal == \/ accepted' = accepted
                   \/ \E p \in Procs :
                        LET i == txn[p].id
                        IN  /\ accepted' = accepted \cup {<<i, txn[p].payment>>}
                            /\ i \in Ids
                            /\ \/ /\ rows[i].status = "confirmed"
                                  /\ rows[i].payment = txn[p].payment
                                  /\ UNCHANGED rows
                               \/ /\ rows'[i] = Paid(rows[i], txn[p].payment)
                                  /\ \A j \in Ids \ {i} : rows'[j] = rows[j]
<1>1. ASSUME NEW p \in Procs, CommitPay(p) PROVE Goal
  BY <1>1 DEF TypeOK, PlacesFit, CommitPay
<1>2. ASSUME NEW p \in Procs, DecideConfirm(p) PROVE Goal
  <2>1. ASSUME ConfirmOutcome(rows, txn[p].id, txn[p].payment, txn[p].now, txn[p].buffer) = "repeat"
        PROVE  rows[txn[p].id].status = "confirmed" /\ rows[txn[p].id].payment = txn[p].payment
    BY <2>1 DEF ConfirmOutcome
  <2> QED BY <1>2, <2>1 DEF PlacesFit, DecideConfirm
<1>3. ASSUME NEW p \in Procs, Begin(p) \/ LockTimeout(p) \/ DeadlockVictim(p) \/ Crash(p)
                               \/ LockDay(p) \/ DecideCreate(p) \/ DecideUpdate(p)
                               \/ CommitCreate(p) \/ CommitUpdate(p) \/ CommitLapse(p)
      PROVE  accepted' = accepted
  BY <1>3 DEF Begin, BeginCreate, BeginUpdate, BeginConfirm, LockTimeout, DeadlockVictim,
              Crash, LockDay, DecideCreate, DecideUpdate, CommitCreate, CommitUpdate, CommitLapse
<1>4. CASE Statement \/ Tick \/ UNCHANGED vars
  BY <1>4 DEF Statement, Cancel, FailPayment, ReleaseHold, ExpireHolds, Tick, vars
<1> QED BY <1>1, <1>2, <1>3, <1>4 DEF Next, Step

\* A paid reservation keeps its payment, and can only be cancelled.
LEMMA PaidStays ==
  ASSUME Orderly, [Next]_vars, NEW i \in Ids, rows[i].status \in {"confirmed", "cancelled"}
  PROVE  rows'[i].payment = rows[i].payment /\ rows'[i].status \in {"confirmed", "cancelled"}
<1>1. TypeOK /\ rows[i] \in Row
  BY DEF Orderly, TypeOK
<1>2. CASE Ends(i)
  BY <1>1, <1>2 DEF Row, Ends, Transition
<1>3. ASSUME NEW p \in Procs, Writes(p, i)
      PROVE  rows'[i].payment = rows[i].payment /\ rows'[i].status = rows[i].status
  <2>1. at[p] = "reschedule"
    BY <1>3 DEF Orderly, LockedRowsKept, Writes
  <2> QED BY <1>1, <1>3, <2>1 DEF Writes, Row, Reschedule
<1> QED BY <1>1, <1>2, <1>3, RowSteps DEF Orderly

LEMMA OnePaymentStep ==
  ASSUME Orderly, OnePaymentAccepted, [Next]_vars
  PROVE  OnePaymentAccepted'
<1> SUFFICES ASSUME NEW a \in accepted'
    PROVE  rows'[a[1]].payment = a[2] /\ rows'[a[1]].status \in {"confirmed", "cancelled"}
  BY DEF OnePaymentAccepted
<1>1. TypeOK /\ PlacesFit
  BY DEF Orderly
<1>2. CASE a \in accepted
  <2>1. a[1] \in Ids
    BY <1>1, <1>2 DEF TypeOK
  <2> QED BY <1>2, <2>1, PaidStays DEF OnePaymentAccepted
<1>3. CASE a \notin accepted
  <2>1. PICK p \in Procs :
          /\ a = <<txn[p].id, txn[p].payment>> /\ txn[p].id \in Ids
          /\ \/ /\ rows[txn[p].id].status = "confirmed"
                /\ rows[txn[p].id].payment = txn[p].payment /\ UNCHANGED rows
             \/ rows'[txn[p].id] = Paid(rows[txn[p].id], txn[p].payment)
    BY <1>1, <1>3, AcceptedSteps
  <2>2. rows[txn[p].id] \in Row
    BY <1>1, <2>1 DEF TypeOK
  <2> QED BY <2>1, <2>2 DEF Row, Paid, Transition
<1> QED BY <1>2, <1>3

\* confirmPayment() never reports success for two payments of a reservation,
\* and what it reported stays on record, whatever staff and the sweep do.
THEOREM OnePaymentOnly == Spec => []OnePaymentAccepted
<1>1. Init => OnePaymentAccepted
  BY DEF Init, OnePaymentAccepted
<1>2. Orderly /\ OnePaymentAccepted /\ [Next]_vars => OnePaymentAccepted'
  BY OnePaymentStep
<1> QED BY <1>1, <1>2, OrderlyAlways, PTL DEF Spec
=============================================================================
