---------------------------- MODULE CalendarProofs ----------------------------
(***************************************************************************)
(* What the write path promises, proved from the invariants of             *)
(* ReservationsProofs and from what a transaction remembers of its         *)
(* request: it implements Calendar, statuses only move forward, the sweep  *)
(* makes no difference to a late payment, and requests wait for each other *)
(* in a circle only over the gaps of reservation_stations.                 *)
(***************************************************************************)
EXTENDS ReservationsProofs, WellFoundedInduction

-----------------------------------------------------------------------------
(* What a transaction remembers of its request. *)

\* The schedule it works with is one that was asked for, and a hold it inserts ends
\* within the longest time after the clock was read.
Asked(p) ==
  /\ txn[p].op \in {"create", "update"} =>
       \E q \in Requests : /\ txn[p].date = q.date /\ txn[p].count = q.count
                           /\ txn[p].start = q.start /\ txn[p].end = q.end
  /\ txn[p].op = "create" => txn[p].deadline = NoDeadline \/ txn[p].deadline <= txn[p].now + MaxHold
  /\ at[p] \in {"insert", "reschedule"} => Cardinality(txn[p].chosen) = txn[p].count

\* A hold that a payment came too late for is past due.
LateHold(p) ==
  at[p] = "lapse" => rows[txn[p].id].deadline # NoDeadline /\ rows[txn[p].id].deadline <= clock

\* A payment on record was reported.
Reported(i) ==
  rows[i].status = "confirmed" /\ rows[i].payment \in Payments => <<i, rows[i].payment>> \in accepted

Remembered ==
  /\ \A p \in Procs : Asked(p) /\ LateHold(p)
  /\ \A i \in Ids : Reported(i)

LEMMA AskedStep ==
  ASSUME Orderly, Remembered, [Next]_vars, NEW r \in Procs
  PROVE  Asked(r)'
<1>0. /\ TypeOK /\ txn[r] \in Txn /\ clock \in Nat /\ txn[r].now \in Nat /\ Asked(r)
      /\ txn[r].deadline \in Nat \cup {NoDeadline} /\ MaxHold \in Nat
  BY TableAssumption DEF Orderly, TypeOK, Txn, Remembered
<1>1. CASE at'[r] = at[r] /\ txn'[r] = txn[r]
  BY <1>0, <1>1 DEF Asked
<1>2. CASE at'[r] = "idle" /\ txn'[r] = NoTxn
  BY <1>2 DEF Asked, NoTxn
<1>3. CASE Begin(r)
  <2>1. at'[r] = "lock"
    BY <1>0, <1>3 DEF TypeOK, Begin, BeginCreate, BeginUpdate, BeginConfirm
  <2>2. ASSUME NEW c \in Configs, NEW q \in Requests, NEW held \in BOOLEAN, BeginCreate(r, q, c, held)
        PROVE  Asked(r)'
    <3> DEFINE t == Begun("create", NoId, {q.date}, q, c,
                          IF held THEN clock + c.hold ELSE NoDeadline, clock, NoPayment)
    <3>1. txn'[r] = t
      BY <1>0, <2>2 DEF TypeOK, BeginCreate
    <3>2. t.op = "create" /\ t.date = q.date /\ t.count = q.count /\ t.start = q.start /\ t.end = q.end
      BY DEF Begun
    <3>3. t.now = clock /\ t.deadline = IF held THEN clock + c.hold ELSE NoDeadline
      BY DEF Begun
    <3>4. c.hold \in 1 .. MaxHold
      BY ConfigAssumption
    <3> HIDE DEF t
    <3>5. t.deadline = NoDeadline \/ t.deadline <= t.now + MaxHold
      BY <1>0, <3>3, <3>4
    <3> QED BY <2>1, <3>1, <3>2, <3>5 DEF Asked
  <2>3. ASSUME NEW c \in Configs, NEW i \in Ids, NEW q \in Requests, BeginUpdate(r, i, q, c)
        PROVE  Asked(r)'
    <3>1. /\ txn'[r].op = "update" /\ txn'[r].date = q.date /\ txn'[r].count = q.count
          /\ txn'[r].start = q.start /\ txn'[r].end = q.end
      BY <1>0, <2>3 DEF TypeOK, BeginUpdate, Begun
    <3> QED BY <2>1, <3>1 DEF Asked
  <2>4. ASSUME NEW c \in Configs, NEW i \in Ids, NEW pay \in Payments, BeginConfirm(r, i, pay, c)
        PROVE  txn'[r].op = "confirm"
    BY <1>0, <2>4 DEF TypeOK, BeginConfirm, Begun
  <2> QED BY <1>3, <2>1, <2>2, <2>3, <2>4 DEF Begin, Asked
<1>4. CASE Locks(r)
  <2>1. /\ txn'[r].op = txn[r].op /\ txn'[r].date = txn[r].date /\ txn'[r].count = txn[r].count
        /\ txn'[r].start = txn[r].start /\ txn'[r].end = txn[r].end
        /\ txn'[r].deadline = txn[r].deadline /\ at'[r] \in {"lock", "decide"}
        /\ txn[r].op = "create" => txn'[r].now = txn[r].now
    BY <1>0, <1>4 DEF Locks, Txn
  <2> QED BY <1>0, <2>1 DEF Asked
<1>5. CASE Chooses(r)
  <2>1. PICK chosen \in Placements(r) :
          \/ txn'[r] = [txn[r] EXCEPT !.chosen = chosen]
          \/ \E i \in NextIds(r) : txn'[r] = [txn[r] EXCEPT !.chosen = chosen, !.id = i]
    BY <1>5 DEF Chooses
  <2>2. /\ txn'[r].op = txn[r].op /\ txn'[r].date = txn[r].date /\ txn'[r].count = txn[r].count
        /\ txn'[r].start = txn[r].start /\ txn'[r].end = txn[r].end
        /\ txn'[r].deadline = txn[r].deadline /\ txn'[r].now = txn[r].now
        /\ txn'[r].chosen = chosen
    BY <1>0, <2>1 DEF Txn
  <2>3. Cardinality(chosen) = txn[r].count
    BY DEF Placements, Allocations
  <2> QED BY <1>0, <2>2, <2>3 DEF Asked
<1>6. CASE Judges(r)
  BY <1>0, <1>6 DEF Judges, Asked
<1>7. CASE Retries(r)
  <2>1. /\ txn'[r].op = txn[r].op /\ txn'[r].date = txn[r].date /\ txn'[r].count = txn[r].count
        /\ txn'[r].start = txn[r].start /\ txn'[r].end = txn[r].end
        /\ txn'[r].deadline = txn[r].deadline /\ txn'[r].now = txn[r].now
        /\ at'[r] = "lock"
    BY <1>0, <1>7 DEF Retries, Restarted, Txn
  <2> QED BY <1>0, <2>1 DEF Asked
<1> QED BY <1>0, <1>1, <1>2, <1>3, <1>4, <1>5, <1>6, <1>7, ProcessSteps

LEMMA LateHoldStep ==
  ASSUME Orderly, Remembered, [Next]_vars, NEW r \in Procs
  PROVE  LateHold(r)'
<1> SUFFICES ASSUME at'[r] = "lapse"
             PROVE  rows'[txn'[r].id].deadline # NoDeadline /\ rows'[txn'[r].id].deadline <= clock'
  BY DEF LateHold
<1>0. /\ TypeOK /\ PlacesFit /\ txn[r] \in Txn /\ clock \in Nat /\ clock' \in Nat /\ clock <= clock'
      /\ txn[r].now \in Nat /\ txn[r].now <= clock
  BY NextType, RowsStay DEF Orderly, TypeOK, Txn, PlacesFit
<1>1. CASE at'[r] = at[r] /\ txn'[r] = txn[r]
  <2>1. txn[r].id \in Ids /\ rows'[txn[r].id] = rows[txn[r].id] /\ rows[txn[r].id] \in Row
    BY <1>0, <1>1, LockedRowUnchanged DEF Orderly, PlacesFit, TypeOK
  <2>2. rows[txn[r].id].deadline \in Nat
    BY <1>1, <2>1 DEF Remembered, LateHold, Row
  <2> QED BY <1>0, <1>1, <2>1, <2>2 DEF Remembered, LateHold
<1>2. CASE UNCHANGED <<clock, rows>> /\ Judges(r)
  <2> DEFINE i == txn[r].id
  <2>1. ConfirmOutcome(rows, i, txn[r].payment, txn[r].now, txn[r].buffer) = "hold_expired"
        /\ rows[i].status = "held" /\ txn'[r] = txn[r]
    BY <1>2 DEF Judges
  <2>2. i \in Ids /\ rows[i] \in Row
    BY <1>0, <1>2 DEF Judges, PlacesFit, TypeOK
  <2> QED BY <1>0, <1>2, <2>1, <2>2 DEF ConfirmOutcome, PastDue, Row
<1> QED BY <1>0, <1>1, <1>2, ProcessSteps
        DEF TypeOK, Begin, BeginCreate, BeginUpdate, BeginConfirm, Locks, Chooses, Retries

\* The steps that write the table of reservations.
LEMMA TableSteps ==
  ASSUME [Next]_vars
  PROVE  \/ UNCHANGED rows
         \/ \E p \in Procs : CommitCreate(p) \/ CommitUpdate(p) \/ CommitPay(p) \/ CommitLapse(p)
         \/ Statement
<1>1. ASSUME NEW p \in Procs, Begin(p) \/ LockTimeout(p) \/ DeadlockVictim(p) \/ Crash(p)
                               \/ LockDay(p)
                               \/ DecideCreate(p) \/ DecideUpdate(p) \/ DecideConfirm(p)
      PROVE  UNCHANGED rows
  BY <1>1 DEF Begin, BeginCreate, BeginUpdate, BeginConfirm, LockTimeout, DeadlockVictim, Crash, LockDay,
              DecideCreate, DecideUpdate, DecideConfirm
<1>2. CASE Tick \/ UNCHANGED vars
  BY <1>2 DEF Tick, vars
<1> QED BY <1>1, <1>2 DEF Next, Step

\* A statement leaves a row as it is or ends the reservation.
LEMMA StatementEnds ==
  ASSUME TypeOK, Statement, NEW i \in Ids
  PROVE  /\ rows'[i] = rows[i] \/ Ends(i)
         /\ UNCHANGED <<clock, lock, rowLock, at, txn, accepted>>
<1>1. ASSUME NEW k \in Ids, Cancel(k) \/ FailPayment(k) \/ ReleaseHold(k)
      PROVE  rows'[i] = rows[i] \/ Ends(i)
  BY <1>1 DEF TypeOK, Cancel, FailPayment, ReleaseHold, Overdue, Ends
<1>2. ASSUME NEW now \in 0 .. clock, ExpireHolds(now)
      PROVE  rows'[i] = rows[i] \/ Ends(i)
  BY <1>2 DEF TypeOK, ExpireHolds, Swept, Overdue, Ends
<1>3. UNCHANGED <<clock, lock, rowLock, at, txn, accepted>>
  BY DEF Statement, Cancel, FailPayment, ReleaseHold, ExpireHolds
<1> QED BY <1>1, <1>2, <1>3 DEF Statement

LEMMA ReportedStep ==
  ASSUME Orderly, Remembered, [Next]_vars, NEW i \in Ids
  PROVE  Reported(i)'
<1> SUFFICES ASSUME rows'[i].status = "confirmed", rows'[i].payment \in Payments
             PROVE  <<i, rows'[i].payment>> \in accepted'
  BY DEF Reported
<1>0. /\ TypeOK /\ PlacesFit /\ rows[i] \in Row /\ Reported(i)
  BY DEF Orderly, TypeOK, Remembered
<1>1. accepted \subseteq accepted'
  BY <1>0, AcceptedSteps
<1>2. CASE rows'[i].status = rows[i].status /\ rows'[i].payment = rows[i].payment
  BY <1>0, <1>1, <1>2 DEF Reported
<1>3. ~ Ends(i)
  BY <1>0, RowFieldsOfEnds
<1>4. ASSUME NEW p \in Procs, CommitCreate(p) PROVE rows'[i] = rows[i]
  BY <1>0, <1>4, TableAssumption DEF TypeOK, CommitCreate, NewRow
<1>5. ASSUME NEW p \in Procs, CommitUpdate(p)
      PROVE  rows'[i].status = rows[i].status /\ rows'[i].payment = rows[i].payment
  BY <1>0, <1>5 DEF TypeOK, CommitUpdate, Row, Reschedule
<1>6. ASSUME NEW p \in Procs, CommitPay(p)
      PROVE  rows'[i] = rows[i] \/ <<i, rows'[i].payment>> \in accepted'
  BY <1>0, <1>6 DEF TypeOK, CommitPay, Row, Paid, Transition
<1>7. ASSUME NEW p \in Procs, CommitLapse(p)
      PROVE  rows'[i] = rows[i]
  BY <1>0, <1>7 DEF TypeOK, CommitLapse, Row, Transition
<1> QED BY <1>0, <1>2, <1>3, <1>4, <1>5, <1>6, <1>7, TableSteps, StatementEnds

LEMMA RememberedInit == Init => Remembered
<1> SUFFICES ASSUME Init PROVE Remembered
  OBVIOUS
<1>1. \A p \in Procs : at[p] = "idle" /\ txn[p] = NoTxn
  BY DEF Init
<1>2. \A i \in Ids : rows[i].status = "none"
  BY DEF Init, NoRow
<1> QED BY <1>1, <1>2 DEF Remembered, Asked, LateHold, Reported, NoTxn

LEMMA RememberedStep == Orderly /\ Remembered /\ [Next]_vars => Remembered'
BY AskedStep, LateHoldStep, ReportedStep DEF Remembered

LEMMA RememberedAlways == Spec => [](Orderly /\ Remembered)
BY OrderlyInit, OrderlyStep, RememberedInit, RememberedStep, PTL DEF Spec
-----------------------------------------------------------------------------
(* What the sweep and the steps do to a reservation. *)

\* A payment that comes too late is decided on alike whether the sweep of
\* expireHolds() came before it or not: an overdue hold blocks nobody.
THEOREM SweepIsHarmless == Spec => []SweepMakesNoDifference
<1>1. ASSUME Orderly
      PROVE  SweepMakesNoDifference
  <2> SUFFICES ASSUME NEW i \in Overdue(rows, clock), NEW pay \in Payments, NEW c \in Configs
               PROVE  ConfirmOutcome(rows, i, pay, clock, c.buffer)
                        = ConfirmOutcome(Swept(clock), i, pay, clock, c.buffer)
    BY DEF SweepMakesNoDifference
  <2> DEFINE swept == Swept(clock)
  <2>0. clock \in Nat /\ \A j \in Ids : rows[j] \in Row
    BY <1>1 DEF Orderly, TypeOK
  <2>1. \A j \in Ids : swept[j] = IF j \in Overdue(rows, clock) THEN Transition(rows[j], "expired") ELSE rows[j]
    BY DEF Swept
  <2> HIDE DEF swept
  <2>2. \A j \in Ids :
          /\ Blocking(swept[j], clock) <=> Blocking(rows[j], clock)
          /\ swept[j].date = rows[j].date /\ swept[j].start = rows[j].start
          /\ swept[j].end = rows[j].end /\ swept[j].stations = rows[j].stations
    <3> TAKE j \in Ids
    <3>1. CASE j \notin Overdue(rows, clock)
      BY <2>1, <3>1
    <3>2. CASE j \in Overdue(rows, clock)
      <4>1. swept[j] = Transition(rows[j], "expired") /\ rows[j] \in Row
        BY <2>0, <2>1, <3>2
      <4>2. ~ Blocking(rows[j], clock)
        BY <2>0, <3>2 DEF Overdue, Blocking, Row, NoDeadline
      <4>3. ~ Blocking(swept[j], clock)
        BY <4>1 DEF Blocking, Transition, Row
      <4> QED BY <4>1, <4>2, <4>3 DEF Transition, Row
    <3> QED BY <3>1, <3>2
  <2>3. i \in Ids /\ rows[i].status = "held" /\ rows[i].deadline <= clock
    BY DEF Overdue
  <2>4. PastDue(rows[i], clock)
    BY <1>1, <2>3 DEF Orderly, HoldsHaveDeadlines, PastDue
  <2>5. swept[i].status = "expired"
    BY <2>0, <2>1, <2>3 DEF Transition, Row
  <2>6. BlocksForDate(swept, swept[i].date, clock, i) = BlocksForDate(rows, rows[i].date, clock, i)
    <3>1. {j \in Ids \ {i} : swept[j].date = swept[i].date /\ Blocking(swept[j], clock)}
            = {j \in Ids \ {i} : rows[j].date = rows[i].date /\ Blocking(rows[j], clock)}
      BY <2>2, <2>3
    <3>2. \A j \in Ids :
            {[station |-> s, start |-> swept[j].start, end |-> swept[j].end] : s \in swept[j].stations}
              = {[station |-> s, start |-> rows[j].start, end |-> rows[j].end] : s \in rows[j].stations}
      BY <2>2
    <3> QED BY <3>1, <3>2 DEF BlocksForDate
  <2>7. StillFree(swept, i, clock, c.buffer) <=> StillFree(rows, i, clock, c.buffer)
    BY <2>2, <2>3, <2>6 DEF StillFree
  <2>8. ConfirmOutcome(rows, i, pay, clock, c.buffer)
          = IF StillFree(rows, i, clock, c.buffer) THEN "pay" ELSE "hold_expired"
    BY <2>3, <2>4 DEF ConfirmOutcome
  <2>9. ConfirmOutcome(swept, i, pay, clock, c.buffer)
          = IF StillFree(swept, i, clock, c.buffer) THEN "pay" ELSE "hold_expired"
    BY <2>5 DEF ConfirmOutcome, PastDue
  <2> QED BY <2>7, <2>8, <2>9 DEF swept
<1> QED BY <1>1, OrderlyAlways, PTL

LEMMA StatusStepped ==
  ASSUME Orderly, Remembered, [Next]_vars, NEW i \in Ids
  PROVE  StatusStep(rows[i], rows'[i])
<1>0. TypeOK /\ PlacesFit /\ LockedRowsKept /\ rows[i] \in Row
  BY DEF Orderly, TypeOK
<1>1. CASE rows'[i] = rows[i]
  BY <1>1 DEF StatusStep
<1>2. ASSUME NEW p \in Procs, CommitCreate(p)
      PROVE  StatusStep(rows[i], rows'[i])
  <2>1. PICK k \in Ids : /\ rows[k].status = "none"
                         /\ rows' = [rows EXCEPT ![k] = NewRow(txn[p], txn[p].chosen, txn[p].deadline)]
    BY <1>0, <1>2 DEF CommitCreate, PlacesFit
  <2>2. CASE i = k
    <3>1. rows'[i].status \in {"held", "confirmed"}
      BY <1>0, <2>1, <2>2 DEF TypeOK, NewRow
    <3> QED BY <2>1, <2>2, <3>1 DEF StatusStep
  <2> QED BY <1>0, <1>1, <2>1, <2>2 DEF TypeOK
<1>3. ASSUME NEW p \in Procs, CommitUpdate(p)
      PROVE  StatusStep(rows[i], rows'[i])
  <2>1. rows'[i].status = rows[i].status /\ rows'[i].payment = rows[i].payment
    BY <1>0, <1>3 DEF TypeOK, CommitUpdate, Row, Reschedule
  <2> QED BY <2>1 DEF StatusStep
<1>4. ASSUME NEW p \in Procs, CommitPay(p), i = txn[p].id
      PROVE  StatusStep(rows[i], rows'[i])
  <2>1. rows[i].status \in {"held", "expired"} /\ txn[p].payment \in Payments
    BY <1>0, <1>4 DEF CommitPay, LockedRowsKept, PlacesFit
  <2>2. rows'[i].status = "confirmed" /\ rows'[i].payment = txn[p].payment
    BY <1>0, <1>4 DEF TypeOK, CommitPay, Row, Paid, Transition
  <2> QED BY <2>1, <2>2, TableAssumption DEF StatusStep
<1>5. ASSUME NEW p \in Procs, CommitLapse(p), i = txn[p].id
      PROVE  StatusStep(rows[i], rows'[i])
  <2>1. rows[i].status = "held" /\ rows[i].deadline <= clock
    BY <1>0, <1>5 DEF CommitLapse, LockedRowsKept, Remembered, LateHold
  <2>2. rows'[i].status = "expired"
    BY <1>0, <1>5 DEF TypeOK, CommitLapse, Row, Transition
  <2> QED BY <2>1, <2>2 DEF StatusStep
<1>6. ASSUME NEW p \in Procs, CommitPay(p) \/ CommitLapse(p), i # txn[p].id
      PROVE  rows'[i] = rows[i]
  BY <1>0, <1>6 DEF TypeOK, CommitPay, CommitLapse
<1>7. ASSUME NEW k \in Ids, Cancel(k) \/ FailPayment(k) \/ ReleaseHold(k)
      PROVE  StatusStep(rows[i], rows'[i])
  <2>1. CASE i # k
    BY <1>0, <1>1, <1>7, <2>1 DEF TypeOK, Cancel, FailPayment, ReleaseHold
  <2>2. CASE i = k /\ Cancel(k)
    <3>1. rows[i].status \in {"held", "confirmed"} /\ rows'[i].status = "cancelled"
          /\ rows'[i].payment = rows[i].payment
      BY <1>0, <2>2 DEF TypeOK, Cancel, Row, Transition
    <3> QED BY <3>1 DEF StatusStep
  <2>3. CASE i = k /\ FailPayment(k)
    <3>1. rows[i].status = "held" /\ rows'[i].status = "payment_failed"
      BY <1>0, <2>3 DEF TypeOK, FailPayment, Row, Transition
    <3> QED BY <3>1 DEF StatusStep
  <2>4. CASE i = k /\ ReleaseHold(k)
    <3>1. rows[i].status = "held" /\ rows[i].deadline <= clock /\ rows'[i].status = "expired"
      BY <1>0, <2>4 DEF TypeOK, ReleaseHold, Overdue, Row, Transition
    <3> QED BY <3>1 DEF StatusStep
  <2> QED BY <1>7, <2>1, <2>2, <2>3, <2>4
<1>8. ASSUME NEW now \in 0 .. clock, ExpireHolds(now), i \in Overdue(rows, now)
      PROVE  StatusStep(rows[i], rows'[i])
  <2>1. rows[i].status = "held" /\ rows[i].deadline <= now
    BY <1>8 DEF Overdue
  <2>2. rows[i].deadline <= clock
    BY <1>0, <2>1 DEF TypeOK, Row, NoDeadline
  <2>3. rows'[i].status = "expired"
    BY <1>0, <1>8 DEF ExpireHolds, Swept, Row, Transition
  <2> QED BY <2>1, <2>2, <2>3 DEF StatusStep
<1>9. ASSUME NEW now \in 0 .. clock, ExpireHolds(now), i \notin Overdue(rows, now)
      PROVE  rows'[i] = rows[i]
  BY <1>9 DEF ExpireHolds, Swept
<1> QED BY <1>1, <1>2, <1>3, <1>4, <1>5, <1>6, <1>7, <1>8, <1>9, TableSteps DEF Statement

\* Holds are given up only when they are past due, a swept hold comes back only
\* with a payment, and what is cancelled or failed stays so.
THEOREM StatusesMoveForward == Spec => StatusesAdvance
<1>1. Orderly /\ Remembered /\ [Next]_vars => [\A i \in Ids : StatusStep(rows[i], rows'[i])]_vars
  BY StatusStepped
<1> QED BY <1>1, RememberedAlways, PTL DEF Spec, StatusesAdvance
-----------------------------------------------------------------------------
(* The write path implements Calendar. *)

\* Calendar means the same as Reservations by the words they share.
LEMMA SameWords ==
  /\ \A row, now : Promise!Blocking(row, now) <=> Blocking(row, now)
  /\ \A r, s : Promise!Conflict(r, s) <=> Conflict(r, s)
  /\ \A row, to : Promise!Transition(row, to) = Transition(row, to)
  /\ \A row, q, stations : Promise!Reschedule(row, q, stations) = Reschedule(row, q, stations)
  /\ \A q, stations, deadline : Promise!NewRow(q, stations, deadline) = NewRow(q, stations, deadline)
  /\ \A row, pay : Promise!Paid(row, pay) = Paid(row, pay)
  /\ \A table, now : Promise!Overdue(table, now) = Overdue(table, now)
  /\ \A stations : Promise!Cardinality(stations) = Cardinality(stations)
<1>1. \A row, now : Promise!Blocking(row, now) <=> Blocking(row, now)
  BY DEF Promise!Blocking, Blocking
<1>2. \A r, s : Promise!Conflict(r, s) <=> Conflict(r, s)
  BY DEF Promise!Conflict, Conflict
<1>3. \A row, to : Promise!Transition(row, to) = Transition(row, to)
  BY DEF Promise!Transition, Transition, Promise!NoDeadline, NoDeadline
<1>4. \A row, q, stations : Promise!Reschedule(row, q, stations) = Reschedule(row, q, stations)
  BY DEF Promise!Reschedule, Reschedule
<1>5. \A q, stations, deadline : Promise!NewRow(q, stations, deadline) = NewRow(q, stations, deadline)
  BY DEF Promise!NewRow, NewRow, Promise!NoDeadline, NoDeadline
<1>6. \A row, pay : Promise!Paid(row, pay) = Paid(row, pay)
  BY <1>3 DEF Promise!Paid, Paid
<1>7. \A table, now : Promise!Overdue(table, now) = Overdue(table, now)
  BY DEF Promise!Overdue, Overdue
<1>8. \A stations : Promise!Cardinality(stations) = Cardinality(stations)
  BY DEF Promise!Cardinality, Cardinality, Promise!IsFiniteSet, IsFiniteSet
<1> QED BY <1>1, <1>2, <1>3, <1>4, <1>5, <1>6, <1>7, <1>8

LEMMA StartsEmpty == Init => Promise!CalendarInit
BY DEF Init, Promise!CalendarInit, NoRow, Promise!NoRow, NoDeadline, Promise!NoDeadline

\* What a transaction decided on is free when it commits: what blocks now did
\* so when it read the clock.
LEMMA ClaimFits ==
  ASSUME Inv, NEW p \in Procs, at[p] \in {"insert", "reschedule"}, NEW i, NEW row,
         i = txn[p].id,
         row.date = txn[p].date, row.start = txn[p].start, row.end = txn[p].end,
         row.stations = txn[p].chosen
  PROVE  Promise!Fits(i, row)
<1> SUFFICES ASSUME NEW j \in Ids \ {i}, Blocking(rows[j], clock)
             PROVE  ~ Conflict(row, rows[j])
  BY SameWords DEF Promise!Fits
<1>1. /\ rows[j] \in Row /\ txn[p].now \in Nat /\ clock \in Nat /\ txn[p].now <= clock
  BY DEF Inv, Orderly, TypeOK, Txn, PlacesFit
<1>2. Blocking(rows[j], txn[p].now)
  BY <1>1, BlockingEarlier
<1>3. ~ Conflict(Claim(p), rows[j])
  BY <1>2 DEF Inv, ClaimsFree
<1> QED BY <1>3 DEF Conflict, Claim

LEMMA CreateBooks ==
  ASSUME Inv, Remembered, NEW p \in Procs, CommitCreate(p)
  PROVE  Promise!CalendarNext
<1> DEFINE t == txn[p]
           i == t.id
<1>1. /\ at[p] = "insert" /\ t.op = "create" /\ i \in Ids /\ t \in Txn
      /\ UNCHANGED <<clock, accepted>> /\ clock \in Nat /\ t.now \in Nat /\ t.now <= clock
      /\ MaxHold \in Nat
  BY TableAssumption DEF CommitCreate, Inv, Orderly, TypeOK, PlacesFit, Txn
<1>2. rows[i].status = "none" /\ rows' = [rows EXCEPT ![i] = NewRow(t, t.chosen, t.deadline)]
  BY DEF CommitCreate, Inv, Orderly, PlacesFit
<1>3. PICK q \in Requests : /\ t.date = q.date /\ t.count = q.count
                            /\ t.start = q.start /\ t.end = q.end
  BY <1>1 DEF Remembered, Asked
<1>4. t.chosen \in SUBSET Stations /\ Cardinality(t.chosen) = q.count
  BY <1>1, <1>3 DEF Txn, Remembered, Asked
<1>5. t.deadline \in {NoDeadline} \cup 0 .. clock + MaxHold
  BY <1>1 DEF Remembered, Asked, Txn, NoDeadline
<1>6. NewRow(t, t.chosen, t.deadline) = NewRow(q, t.chosen, t.deadline)
  BY <1>3 DEF NewRow
<1>7. Promise!Fits(i, NewRow(q, t.chosen, t.deadline))
  BY <1>1, <1>3, ClaimFits DEF NewRow
<1>8. Promise!Book(i, q, t.chosen, t.deadline)
  BY <1>1, <1>2, <1>4, <1>6, <1>7, SameWords DEF Promise!Book
<1> QED BY <1>1, <1>4, <1>5, <1>8 DEF Promise!CalendarNext, NoDeadline, Promise!NoDeadline

LEMMA UpdateMoves ==
  ASSUME Inv, Remembered, NEW p \in Procs, CommitUpdate(p)
  PROVE  Promise!CalendarNext
<1> DEFINE t == txn[p]
           i == t.id
<1>1. /\ at[p] = "reschedule" /\ t.op = "update" /\ t \in Txn /\ i \in Ids /\ rows[i] \in Row
      /\ rows[i].status \in {"held", "confirmed"} /\ UNCHANGED <<clock, accepted>>
      /\ rows' = [rows EXCEPT ![i] = Reschedule(@, t, t.chosen)]
  BY DEF CommitUpdate, Inv, Orderly, TypeOK, PlacesFit, LockedRowsKept
<1>2. PICK q \in Requests : /\ t.date = q.date /\ t.count = q.count
                            /\ t.start = q.start /\ t.end = q.end
  BY <1>1 DEF Remembered, Asked
<1>3. t.chosen \in SUBSET Stations /\ Cardinality(t.chosen) = q.count
  BY <1>1, <1>2 DEF Txn, Remembered, Asked
<1>4. Reschedule(rows[i], t, t.chosen) = Reschedule(rows[i], q, t.chosen)
  BY <1>2 DEF Reschedule
<1>5. rows' = [rows EXCEPT ![i] = Reschedule(rows[i], q, t.chosen)]
  BY <1>1, <1>4
<1> DEFINE moved == Reschedule(rows[i], q, t.chosen)
<1>6. /\ moved.date = t.date /\ moved.start = t.start /\ moved.end = t.end
      /\ moved.stations = t.chosen
  BY <1>1, <1>2 DEF Reschedule, Row
<1>7. Promise!Fits(i, moved)
  <2> HIDE DEF moved
  <2> QED BY <1>1, <1>6, ClaimFits
<1>8. Promise!Move(i, q, t.chosen)
  BY <1>1, <1>3, <1>5, <1>7, SameWords DEF Promise!Move
<1> QED BY <1>1, <1>3, <1>8 DEF Promise!CalendarNext

LEMMA PayAccepts ==
  ASSUME Inv, NEW p \in Procs, CommitPay(p)
  PROVE  Promise!CalendarNext
<1> DEFINE t == txn[p]
           i == t.id
<1>1. /\ at[p] = "pay" /\ t \in Txn /\ i \in Ids /\ t.payment \in Payments /\ UNCHANGED clock
      /\ rows[i].status \in {"held", "expired"} /\ accepted' = accepted \cup {<<i, t.payment>>}
      /\ rows' = [rows EXCEPT ![i] = Paid(@, t.payment)]
  BY DEF CommitPay, Inv, Orderly, TypeOK, PlacesFit, LockedRowsKept
<1>2. Promise!Fits(i, rows[i])
  <2> SUFFICES ASSUME NEW j \in Ids \ {i}, Blocking(rows[j], clock)
               PROVE  ~ Conflict(rows[i], rows[j])
    BY SameWords DEF Promise!Fits
  <2>1. /\ rows[j] \in Row /\ t.now \in Nat /\ clock \in Nat /\ t.now <= clock
    BY DEF Inv, Orderly, TypeOK, Txn, PlacesFit
  <2>2. Blocking(rows[j], t.now)
    BY <2>1, BlockingEarlier
  <2> QED BY <1>1, <2>2 DEF Inv, ClaimsFree
<1>3. Promise!Accept(i, t.payment)
  BY <1>1, <1>2, SameWords DEF Promise!Accept
<1> QED BY <1>1, <1>3 DEF Promise!CalendarNext

\* Reservations that lapse are past due.
LEMMA HoldsLapse ==
  ASSUME TypeOK, NEW holds \in SUBSET Overdue(rows, clock), UNCHANGED <<clock, accepted>>,
         rows' = [i \in Ids |-> IF i \in holds THEN Transition(rows[i], "expired") ELSE rows[i]]
  PROVE  Promise!CalendarNext
<1>1. Promise!Lapse(holds)
  BY SameWords DEF Promise!Lapse
<1>2. holds \in SUBSET Promise!Overdue(rows, clock)
  BY SameWords
<1> QED BY <1>1, <1>2 DEF Promise!CalendarNext

LEMMA HoldLapses ==
  ASSUME TypeOK, NEW i \in Overdue(rows, clock), UNCHANGED <<clock, accepted>>,
         rows' = [rows EXCEPT ![i] = Transition(@, "expired")]
  PROVE  Promise!CalendarNext
<1>1. rows' = [k \in Ids |-> IF k \in {i} THEN Transition(rows[k], "expired") ELSE rows[k]]
  BY DEF TypeOK
<1>2. {i} \in SUBSET Overdue(rows, clock)
  OBVIOUS
<1> QED BY <1>1, <1>2, HoldsLapse

LEMMA StatementPromised ==
  ASSUME TypeOK, HoldsHaveDeadlines, Statement
  PROVE  Promise!CalendarNext
<1>1. ASSUME NEW i \in Ids, Cancel(i) \/ FailPayment(i)
      PROVE  Promise!CalendarNext
  <2>1. Promise!Drop(i)
    BY <1>1, SameWords DEF Cancel, FailPayment, Promise!Drop
  <2> QED BY <2>1 DEF Promise!CalendarNext
<1>2. ASSUME NEW i \in Ids, ReleaseHold(i)
      PROVE  Promise!CalendarNext
  BY <1>2, HoldLapses DEF ReleaseHold
<1>3. ASSUME NEW now \in 0 .. clock, ExpireHolds(now)
      PROVE  Promise!CalendarNext
  <2>1. Overdue(rows, now) \in SUBSET Overdue(rows, clock)
    BY DEF TypeOK, Row, Overdue, NoDeadline
  <2> QED BY <1>3, <2>1, HoldsLapse DEF ExpireHolds, Swept
<1> QED BY <1>1, <1>2, <1>3 DEF Statement

\* A confirmation that finds its payment on record changes nothing: it was
\* reported before.
LEMMA DecisionStutters ==
  ASSUME Inv, Remembered, NEW p \in Procs, DecideConfirm(p)
  PROVE  UNCHANGED <<clock, rows, accepted>>
<1> DEFINE t == txn[p]
           i == t.id
<1>1. i \in Ids /\ t.payment \in Payments
  BY DEF DecideConfirm, Inv, Orderly, PlacesFit
<1>2. ASSUME ConfirmOutcome(rows, i, t.payment, t.now, t.buffer) = "repeat"
      PROVE  <<i, t.payment>> \in accepted
  <2>1. rows[i].status = "confirmed" /\ rows[i].payment = t.payment
    BY <1>2 DEF ConfirmOutcome
  <2> QED BY <1>1, <2>1 DEF Remembered, Reported
<1> QED BY <1>2 DEF DecideConfirm

\* Every step is a step of Calendar, or none.
LEMMA StepIsPromised ==
  ASSUME Inv, Remembered, [Next]_vars
  PROVE  [Promise!CalendarNext]_(Promise!calendarVars)
<1>0. TypeOK /\ HoldsHaveDeadlines
  BY DEF Inv, Orderly
<1>1. ASSUME NEW p \in Procs, Begin(p) \/ LockTimeout(p) \/ DeadlockVictim(p) \/ Crash(p)
                               \/ LockDay(p) \/ DecideCreate(p) \/ DecideUpdate(p)
      PROVE  UNCHANGED <<clock, rows, accepted>>
  BY <1>1 DEF Begin, BeginCreate, BeginUpdate, BeginConfirm, LockTimeout, DeadlockVictim, Crash, LockDay,
              DecideCreate, DecideUpdate
<1>2. ASSUME NEW p \in Procs, CommitLapse(p)
      PROVE  Promise!CalendarNext
  <2>1. txn[p].id \in Overdue(rows, clock)
    BY <1>0, <1>2 DEF CommitLapse, Inv, Orderly, PlacesFit, LockedRowsKept, Remembered, LateHold, Overdue
  <2> QED BY <1>0, <1>2, <2>1, HoldLapses DEF CommitLapse
<1>3. CASE Tick
  <2>1. Promise!Advance
    BY <1>3 DEF Tick, Promise!Advance
  <2> QED BY <2>1 DEF Promise!CalendarNext
<1>4. CASE UNCHANGED vars
  BY <1>4 DEF vars, Promise!calendarVars
<1> QED BY <1>0, <1>1, <1>2, <1>3, <1>4, CreateBooks, UpdateMoves, PayAccepts, DecisionStutters,
           StatementPromised
        DEF Next, Step, Promise!calendarVars

\* While staff move held reservations only within their date, requests that
\* interleave, time out, crash and retry do what the calendar promises, one
\* operation at a time, each of them without a double booking.
THEOREM CalendarIsImplemented == ~ MovesHeld /\ Spec => ImplementsCalendar
<1>1. CASE ~ MovesHeld
  <2>1. Inv /\ [Next]_vars => Inv'
    BY <1>1, InvStep
  <2>2. Inv /\ Remembered /\ [Next]_vars => [Promise!CalendarNext]_(Promise!calendarVars)
    BY StepIsPromised
  <2>3. Spec => Promise!CalendarSpec
    BY <2>1, <2>2, InvInit, StartsEmpty, RememberedAlways, PTL DEF Spec, Promise!CalendarSpec
  <2> QED BY <2>3 DEF ImplementsCalendar
<1>2. CASE MovesHeld
  BY <1>2
<1> QED BY <1>1, <1>2, ProcessAssumption
-----------------------------------------------------------------------------
(* Only the gaps close a circle. *)

\* A transaction that still wants dates has locked only earlier ones.
LockedInOrder(p) == at[p] = "lock" => \A d \in Held(p), e \in Wanted(p) : d < e

LEMMA LockedInOrderStep ==
  ASSUME Orderly, \A p \in Procs : LockedInOrder(p), [Next]_vars, NEW r \in Procs
  PROVE  LockedInOrder(r)'
<1> SUFFICES ASSUME at'[r] = "lock"
             PROVE  \A d \in Held(r)', e \in Wanted(r)' : d < e
  BY DEF LockedInOrder
<1>0. TypeOK /\ DayLocksHeld /\ PlacesFit /\ LockedInOrder(r) /\ \A p \in Procs : txn[p] \in Txn
  BY DEF Orderly, TypeOK
<1>1. CASE Held(r)' = {}
  BY <1>1
<1>2. CASE at[r] = "lock" /\ Held(r)' = Held(r) /\ txn'[r].days = txn[r].days
  BY <1>0, <1>2 DEF LockedInOrder, Wanted
<1> DEFINE Kept == Held(r)' = {} \/ (at[r] = "lock" /\ Held(r)' = Held(r) /\ txn'[r].days = txn[r].days)
<1>3. ASSUME NEW p \in Procs, Finish(p)
      PROVE  Kept
  BY <1>0, <1>3, FinishFacts DEF Held
<1>4. ASSUME NEW p \in Procs, Begin(p)
      PROVE  Kept
  <2>1. at[p] = "idle" /\ at' = [at EXCEPT ![p] = "lock"] /\ UNCHANGED lock
    BY <1>4 DEF Begin, BeginCreate, BeginUpdate, BeginConfirm
  <2>2. \A u \in Procs \ {p} : txn'[u] = txn[u]
    BY <1>0, <1>4 DEF TypeOK, Begin, BeginCreate, BeginUpdate, BeginConfirm
  <2>3. Held(p) = {}
    BY <1>0, <2>1 DEF PlacesFit, DayLocksHeld, NoTxn
  <2> QED BY <1>0, <2>1, <2>2, <2>3 DEF TypeOK, Held
<1>5. ASSUME NEW p \in Procs, LockTimeout(p) \/ DeadlockVictim(p)
      PROVE  Kept
  <2>1. CASE Finish(p)
    BY <1>3, <2>1
  <2>2. CASE /\ lock' = Unlocked(p) /\ at' = [at EXCEPT ![p] = "lock"]
             /\ txn' = [txn EXCEPT ![p] = Restarted(txn[p])]
    <3>1. Held(p)' = {} /\ \A u \in Procs \ {p} : Held(u)' = Held(u)
      BY <2>2, ProcessAssumption DEF Held, Unlocked
    <3>2. \A u \in Procs \ {p} : at'[u] = at[u] /\ txn'[u] = txn[u]
      BY <1>0, <2>2 DEF TypeOK
    <3> QED BY <3>1, <3>2
  <2> QED BY <1>0, <1>5, <2>1, <2>2, VictimWaits, RollBackCases DEF LockTimeout
<1>6. ASSUME NEW p \in Procs, LockDay(p)
      PROVE  \A d \in Held(r)', e \in Wanted(r)' : d < e
  <2> DEFINE n == NextDay(p)
  <2>1. at[p] = "lock" /\ n \in Wanted(p) /\ \A e \in Wanted(p) : n <= e
    BY <1>0, <1>6, NextDayFacts DEF LockDay
  <2>2. Held(p)' = Held(p) \cup {n} /\ \A u \in Procs \ {p} : Held(u)' = Held(u)
    BY <1>0, <1>6, <2>1, ProcessAssumption DEF TypeOK, LockDay, Held, Wanted, Txn
  <2>3. txn'[r].days = txn[r].days /\ at[r] = "lock"
    BY <1>0, <1>6, <2>1 DEF TypeOK, LockDay, Txn
  <2>4. CASE r # p
    BY <1>0, <2>2, <2>3, <2>4 DEF LockedInOrder, Wanted
  <2>5. CASE r = p
    <3>1. Wanted(r)' = Wanted(r) \ {n}
      BY <2>2, <2>3, <2>5 DEF Wanted
    <3>2. Wanted(r) \subseteq Nat
      BY <1>0, ScheduleAssumption DEF Wanted, Txn
    <3>3. \A e \in Wanted(r) \ {n} : n < e
      BY <2>1, <2>5, <3>2
    <3>4. \A d \in Held(r), e \in Wanted(r) : d < e
      BY <1>0, <2>3 DEF LockedInOrder
    <3> QED BY <2>2, <2>5, <3>1, <3>3, <3>4
  <2> QED BY <2>4, <2>5
<1>7. ASSUME NEW p \in Procs, DecideCreate(p) \/ DecideUpdate(p) \/ DecideConfirm(p), ~ Finish(p)
      PROVE  Kept
  <2>1. r # p /\ at'[r] = at[r] /\ txn'[r] = txn[r] /\ UNCHANGED lock
    BY <1>0, <1>7 DEF TypeOK, DecideCreate, DecideUpdate, DecideConfirm
  <2> QED BY <2>1 DEF Held
<1>8. ASSUME Statement \/ Tick \/ UNCHANGED vars
      PROVE  Kept
  BY <1>8 DEF Statement, Cancel, FailPayment, ReleaseHold, ExpireHolds, Tick, vars, Held
<1>9. ASSUME NEW p \in Procs, CommitCreate(p) \/ CommitUpdate(p) \/ CommitPay(p) \/ CommitLapse(p) \/ Crash(p)
      PROVE  Finish(p)
  BY <1>9 DEF CommitCreate, CommitUpdate, CommitPay, CommitLapse, Crash
<1> QED BY <1>1, <1>2, <1>3, <1>4, <1>5, <1>6, <1>7, <1>8, <1>9 DEF Next, Step

LEMMA LockedInOrderAlways == Spec => [](Orderly /\ \A p \in Procs : LockedInOrder(p))
<1>1. Init => \A p \in Procs : LockedInOrder(p)
  BY DEF Init, LockedInOrder
<1>2. Orderly /\ (\A p \in Procs : LockedInOrder(p)) /\ [Next]_vars => (\A p \in Procs : LockedInOrder(p))'
  BY LockedInOrderStep
<1> QED BY <1>1, <1>2, OrderlyInit, OrderlyStep, PTL DEF Spec

\* A nonempty set of naturals with a bound has a greatest member.
LEMMA Greatest ==
  ASSUME NEW T \in SUBSET Nat, T # {}, NEW last \in Nat, \A n \in T : n <= last
  PROVE  \E n \in T : \A m \in T : m <= n
<1> DEFINE U == {last - n : n \in T}
<1>1. U \in SUBSET Nat /\ U # {}
  <2>1. \A n \in T : last - n \in Nat
    OBVIOUS
  <2> QED BY <2>1
<1>2. PICK u \in U : \A v \in U : ~ (<<v, u>> \in OpToRel(<, Nat))
  <2> HIDE DEF U
  <2> QED BY <1>1, NatLessThanWellFounded, WFMin
<1>3. \A v \in U : ~ (v < u)
  BY <1>1, <1>2 DEF OpToRel
<1>4. PICK n \in T : u = last - n
  BY <1>2
<1>5. ASSUME NEW m \in T
      PROVE  m <= n
  <2>1. last - m \in U
    OBVIOUS
  <2>2. ~ (last - m < last - n)
    BY <1>3, <1>4, <2>1
  <2>3. m \in Nat /\ n \in Nat
    OBVIOUS
  <2> QED BY <2>2, <2>3
<1> QED BY <1>5

\* What a transaction waits for tells where it is, and whom it waits for where they are.
LEMMA WhoWaits ==
  ASSUME RowLocksHeld, PlacesFit, NEW p \in Procs, Waits(p)
  PROVE  \/ at[p] = "lock" /\ ~ WaitsForGap(p) /\ WaitsFor(p) = {lock[NextDay(p)]}
         \/ /\ at[p] = "decide" /\ ~ WaitsForGap(p)
            /\ \A r \in Procs \cap WaitsFor(p) : at[r] \in {"reschedule", "pay", "lapse"}
         \/ /\ at[p] \in {"insert", "reschedule"} /\ WaitsForGap(p)
            /\ \A r \in WaitsFor(p) : at[r] \in {"insert", "reschedule"}
<1>1. CASE WaitsForDay(p)
  <2>1. at[p] = "lock" /\ GapsInTheWay(p) = {}
    BY <1>1 DEF WaitsForDay, GapsInTheWay
  <2>2. ~ WaitsForRow(p) /\ ~ WaitsForGap(p)
    BY <2>1 DEF WaitsForRow, WaitsForGap
  <2>3. WaitsFor(p) = {lock[NextDay(p)]}
    BY <1>1, <2>2 DEF WaitsFor
  <2> QED BY <2>1, <2>2, <2>3
<1>2. CASE WaitsForRow(p)
  <2>1. /\ at[p] = "decide" /\ txn[p].id \in Ids /\ WaitsFor(p) = {rowLock[txn[p].id]}
        /\ ~ WaitsForGap(p)
    BY <1>2 DEF WaitsForDay, WaitsForRow, WaitsFor, WaitsForGap, GapsInTheWay, PlacesFit
  <2> QED BY <2>1 DEF RowLocksHeld
<1>3. CASE WaitsForGap(p)
  <2>1. at[p] \in {"insert", "reschedule"} /\ \A r \in GapsInTheWay(p) : at[r] \in {"insert", "reschedule"}
    BY <1>3 DEF WaitsForGap, GapsInTheWay
  <2>2. WaitsFor(p) = GapsInTheWay(p)
    BY <2>1 DEF WaitsFor, WaitsForDay, WaitsForRow
  <2> QED BY <1>3, <2>1, <2>2
<1> QED BY <1>1, <1>2, <1>3 DEF Waits

\* While the dates have an end, transactions wait for each other in a circle only over
\* gaps: among others, the one that waits for the last date waits for somebody who
\* does not wait.
THEOREM OnlyGapsCloseACircle ==
  ASSUME NEW last \in Nat, \A d \in Dates : d <= last
  PROVE  Spec => []OnlyGapsDeadlock
<1>1. ASSUME Orderly, \A p \in Procs : LockedInOrder(p)
      PROVE  OnlyGapsDeadlock
  <2> SUFFICES ASSUME NEW S \in SUBSET Procs, Circle(S)
               PROVE  Circle({p \in S : WaitsForGap(p)})
    BY DEF OnlyGapsDeadlock
  <2>0. TypeOK /\ DayLocksHeld /\ RowLocksHeld /\ PlacesFit
    BY <1>1 DEF Orderly
  <2>01. \A p \in S : p \in Procs /\ Waits(p) /\ WaitsFor(p) \cap S # {}
    BY DEF Circle
  <2>02. ASSUME NEW p \in S, WaitsForGap(p)
         PROVE  WaitsFor(p) \cap {q \in S : WaitsForGap(q)} # {}
    <3>1. PICK q \in S : q \in WaitsFor(p)
      BY <2>01
    <3>2. at[q] \in {"insert", "reschedule"}
      BY <2>0, <2>01, <2>02, <3>1, WhoWaits
    <3>3. WaitsForGap(q)
      BY <2>0, <2>01, <3>2, WhoWaits
    <3> QED BY <3>1, <3>3
  <2>03. SUFFICES ASSUME \A p \in S : ~ WaitsForGap(p)
                  PROVE  FALSE
    BY <2>01, <2>02 DEF Circle
  <2>1. ASSUME NEW p \in S
        PROVE  at[p] = "lock" /\ lock[NextDay(p)] \in S
    <3>1. PICK q \in S : q \in WaitsFor(p)
      BY <2>01
    <3>2. at[q] \in {"lock", "decide"}
      BY <2>0, <2>01, <2>03, WhoWaits
    <3>3. at[p] = "lock" /\ WaitsFor(p) = {lock[NextDay(p)]}
      BY <2>0, <2>01, <2>03, <3>1, <3>2, WhoWaits
    <3> QED BY <3>1, <3>3
  <2>2. ASSUME NEW p \in S
        PROVE  NextDay(p) \in Wanted(p) /\ NextDay(p) \in Dates
    BY <2>0, <2>1, NextDayFacts DEF TypeOK, Txn, Wanted
  <2>3. ASSUME NEW p \in S
        PROVE  \E q \in S : NextDay(p) < NextDay(q)
    <3>1. lock[NextDay(p)] \in S /\ NextDay(p) \in Held(lock[NextDay(p)])
      BY <2>1, <2>2 DEF Held
    <3>2. \A q \in S : \A d \in Held(q), e \in Wanted(q) : d < e
      BY <1>1, <2>1 DEF LockedInOrder
    <3> QED BY <2>2, <3>1, <3>2
  <2> DEFINE T == {NextDay(p) : p \in S}
  <2>4. T \in SUBSET Nat /\ T # {} /\ \A n \in T : n <= last
    BY <2>2, ScheduleAssumption DEF Circle
  <2>5. PICK n \in T : \A m \in T : m <= n
    <3> HIDE DEF T
    <3> QED BY <2>4, Greatest
  <2>6. PICK p \in S : n = NextDay(p)
    OBVIOUS
  <2>7. PICK q \in S : n < NextDay(q)
    BY <2>3, <2>6
  <2>8. NextDay(q) <= n
    BY <2>5
  <2>9. n \in Nat /\ NextDay(q) \in Nat
    BY <2>2, <2>6, ScheduleAssumption
  <2> QED BY <2>7, <2>8, <2>9
<1> QED BY <1>1, LockedInOrderAlways, PTL
=============================================================================
