-------------------------- MODULE BookingFlowProofs --------------------------
(***************************************************************************)
(* Theorems about BookingFlow, for any number of customers, cron runs and  *)
(* reservations, any schedules and any length of a hold.                   *)
(***************************************************************************)
EXTENDS BookingFlow, TLAPS

-----------------------------------------------------------------------------
(* The inductive invariant, whatever happens. *)

\* A reservation made for a request has a row; confirmed, it is by its own payment;
\* a hold is always one of those, and only they are charged for.
KeyOK(i) ==
  /\ key[i] # NoKey =>
       rows[i].status # "none" /\ (rows[i].status = "confirmed" => rows[i].payment = i)
  /\ rows[i].status = "held" => key[i] # NoKey /\ rows[i].deadline \in Nat
  /\ key[i] = NoKey => charge[i] = "none"

\* A request works on the reservation that its request_id stands for.
Reserved == {"repeat", "charge", "wait", "confirm", "fail", "refund", "confirmed"}

WebOK(w) ==
  /\ web[w].at \in Reserved => web[w].id \in Ids /\ key[web[w].id] = requestId[w]
  /\ web[w].at = "confirmed" =>
       rows[web[w].id].status \in {"confirmed", "cancelled"} /\ rows[web[w].id].payment = web[w].id

\* A run of cron works on holds that were past their deadline when it began.
CronOK(c) ==
  /\ cron[c].now <= clock
  /\ \A h \in cron[c].list :
       /\ h.due <= cron[c].now /\ key[h.id] # NoKey
       /\ rows[h.id].status = "held" => rows[h.id].deadline = h.due
  /\ cron[c].at \in {"release", "confirm", "refund"} =>
       /\ cron[c].id \in Ids /\ key[cron[c].id] # NoKey
       /\ rows[cron[c].id].status = "held" => rows[cron[c].id].deadline <= clock

\* The column request_id is unique.
KeysUnique == \A i, j \in Ids : key[i] # NoKey /\ key[i] = key[j] => i = j

\* Request w sends charges, or is about to send its first.
IsCharger(w) == web[w].at = "charge" \/ web[w].attempt > 0

\* It does so for the reservation of its request_id, at most twice, and no other
\* request with that request_id does.
ChargerOK(w) ==
  /\ web[w].at \in {"new", "create", "repeat"} => web[w].attempt = 0
  /\ web[w].at = "charge" => web[w].attempt \in 0 .. 1
  /\ IsCharger(w) =>
       /\ web[w].id \in Ids /\ key[web[w].id] = requestId[w]
       /\ \A v \in Customers : IsCharger(v) /\ requestId[v] = requestId[w] => v = w

AnyInv ==
  /\ TypeOK /\ KeysUnique
  /\ \A i \in Ids : KeyOK(i)
  /\ \A w \in Customers : ChargerOK(w)
  /\ \A w \in Customers : WebOK(w)
  /\ \A c \in Crons : CronOK(c)
-----------------------------------------------------------------------------
(* And when nothing breaks. *)

Paying == {"charge", "wait", "confirm", "fail", "refund"}

\* No money is taken for i, or the provider may have refused a retry all the same.
Untaken(i) == charge[i] \in {"none", "declined"} \/ "retry refused" \in Events

\* A request charges while its hold lasts, and alone.
ChargingOK(w) ==
  /\ web[w].at \in {"charge", "wait"} =>
       rows[web[w].id].status = "held" /\ clock < rows[web[w].id].deadline
  /\ web[w].at = "fail" => Untaken(web[w].id)
  /\ \A v \in Customers :
       web[w].at \in Paying /\ web[v].at \in Paying /\ web[v].id = web[w].id => v = w

\* What has been sent is waited for.
SentOK(i) == charge[i] = "sent" => \E w \in Customers : web[w].at = "wait" /\ web[w].id = i

\* Somebody will still see to the payment of i.
Obliged(i) ==
  \/ rows[i].status = "held"
  \/ \E w \in Customers : web[w].id = i /\ web[w].at \in {"charge", "wait", "confirm", "refund"}
  \/ \E c \in Crons : cron[c].id = i /\ cron[c].at \in {"confirm", "refund"}

PaidOK(i) ==
  /\ rows[i].status # "cancelled"
  /\ rows[i].status = "payment_failed" => Untaken(i)
  /\ charge[i] = "completed" =>
       rows[i].payment = i \/ i \in refunded \/ Obliged(i) \/ rows[i].status = "payment_failed"

\* No payment comes in for a hold that cron is about to release.
ReleaseOK(c) ==
  cron[c].at = "release" /\ rows[cron[c].id].status = "held" =>
    /\ charge[cron[c].id] # "completed"
    /\ charge[cron[c].id] = "pending" => rows[cron[c].id].deadline + Day <= clock

QuietInv ==
  /\ \A w \in Customers : ChargingOK(w)
  /\ \A i \in Ids : SentOK(i) /\ PaidOK(i)
  /\ \A c \in Crons : ReleaseOK(c)

IInv == AnyInv /\ (Settling => QuietInv)
-----------------------------------------------------------------------------
(* What a step leaves of the rest. *)

WebPlaces == [at : {"new"} \cup Working \cup Answers, id : Ids \cup {NoId}, attempt : 0 .. 2]

LEMMA GoesTo ==
  ASSUME TypeOK, NEW w \in Customers, NEW place \in {"new"} \cup Working \cup Answers,
         Goes(w, place)
  PROVE  /\ web' \in [Customers -> WebPlaces]
         /\ web'[w].at = place /\ web'[w].id = web[w].id /\ web'[w].attempt = web[w].attempt
         /\ \A v \in Customers \ {w} : web'[v] = web[v]
BY DEF TypeOK, WebPlaces, Goes

\* The same for a request that turns to reservation i.
Turns(w, place, i) == web' = [web EXCEPT ![w].at = place, ![w].id = i]

LEMMA TurnsTo ==
  ASSUME TypeOK, NEW w \in Customers, NEW i \in Ids,
         NEW place \in {"new"} \cup Working \cup Answers,
         Turns(w, place, i)
  PROVE  /\ web' \in [Customers -> WebPlaces]
         /\ web'[w].at = place /\ web'[w].id = i /\ web'[w].attempt = web[w].attempt
         /\ \A v \in Customers \ {w} : web'[v] = web[v]
<1> DEFINE to == [[web[w] EXCEPT !.at = place] EXCEPT !.id = i]
<1>1. web \in [Customers -> WebPlaces]
  BY DEF TypeOK, WebPlaces
<1>2. to \in WebPlaces /\ to.at = place /\ to.id = i /\ to.attempt = web[w].attempt
  BY <1>1 DEF WebPlaces
<1>3. web' = [web EXCEPT ![w] = to]
  BY DEF Turns
<1> HIDE DEF to
<1> QED BY <1>1, <1>2, <1>3

\* What may become of a reservation that is there.
Fate(i) ==
  \/ rows'[i] = rows[i]
  \/ /\ rows[i].status \in {"held", "expired"}
     /\ rows'[i].status = "confirmed" /\ rows'[i].payment = i
  \/ rows[i].status = "held" /\ rows'[i].status \in {"expired", "payment_failed"}
  \/ /\ rows[i].status \in {"held", "confirmed"}
     /\ rows'[i].status = "cancelled" /\ rows'[i].payment = rows[i].payment

\* Requests and cron runs that do nothing are as right as they were.
LEMMA Unaffected ==
  ASSUME AnyInv, UNCHANGED <<clock, key, charge, scenario>>, \A i \in Ids : Fate(i)
  PROVE  /\ KeysUnique'
         /\ \A i \in Ids : KeyOK(i)'
         /\ \A w \in Customers : web'[w] = web[w] => WebOK(w)'
         /\ web' = web => \A w \in Customers : ChargerOK(w)'
         /\ \A c \in Crons : cron'[c] = cron[c] => CronOK(c)'
<1>1. KeysUnique'
  BY DEF AnyInv, KeysUnique
<1>2. \A i \in Ids : KeyOK(i)'
  BY DEF AnyInv, KeyOK, Fate
<1>3. ASSUME NEW w \in Customers, web'[w] = web[w]
      PROVE  WebOK(w)'
  <2>1. web'[w].at = "confirmed" => web[w].id \in Ids
    BY <1>3 DEF AnyInv, WebOK, Reserved
  <2> QED BY <1>3, <2>1 DEF AnyInv, WebOK, Fate, requestId
<1>4. ASSUME NEW c \in Crons, cron'[c] = cron[c]
      PROVE  CronOK(c)'
  <2>1. \A h \in cron[c].list : h.id \in Ids
    BY DEF AnyInv, TypeOK
  <2> QED BY <1>4, <2>1 DEF AnyInv, CronOK, Fate
<1>5. web' = web => \A w \in Customers : ChargerOK(w)'
  BY DEF AnyInv, ChargerOK, IsCharger, requestId
<1> QED BY <1>1, <1>2, <1>3, <1>4, <1>5

\* Request w sends charges for the reservation it did, or does not begin to.
KeepsCharging(w) ==
  /\ web'[w].attempt = web[w].attempt /\ web'[w].at # "new"
  /\ web[w].attempt > 0 => web'[w].id = web[w].id
  /\ web'[w].at \in {"create", "repeat"} => web[w].attempt = 0
  /\ web'[w].at = "charge" => web[w].attempt = 1

LEMMA SameChargers ==
  ASSUME AnyInv, NEW w \in Customers, UNCHANGED <<key, scenario>>,
         \A v \in Customers \ {w} : web'[v] = web[v], KeepsCharging(w)
  PROVE  \A v \in Customers : ChargerOK(v)'
<1>1. \A v \in Customers : IsCharger(v)' => IsCharger(v) /\ web'[v].id = web[v].id
  BY DEF KeepsCharging, IsCharger
<1>2. requestId' = requestId
  BY DEF requestId
<1>3. \A v \in Customers :
        /\ web'[v].at \in {"new", "create", "repeat"} => web'[v].attempt = 0
        /\ web'[v].at = "charge" => web'[v].attempt \in 0 .. 1
  BY DEF KeepsCharging, AnyInv, ChargerOK
<1> QED BY <1>1, <1>2, <1>3 DEF AnyInv, ChargerOK

\* One row is written.
LEMMA RowWritten ==
  ASSUME TypeOK, NEW i \in Ids, NEW row \in Row, rows' = [rows EXCEPT ![i] = row]
  PROVE  rows' \in [Ids -> Row] /\ rows'[i] = row /\ \A j \in Ids \ {i} : rows'[j] = rows[j]
BY DEF TypeOK

LEMMA RowsMade ==
  /\ \A row \in Row, to \in Status :
       /\ Transition(row, to) \in Row /\ Transition(row, to).status = to
       /\ Transition(row, to).payment = row.payment
  /\ \A row \in Row, i \in Ids :
       Paid(row, i) \in Row /\ Paid(row, i).status = "confirmed" /\ Paid(row, i).payment = i
  /\ NoRow \in Row /\ NoRow.status = "none"
BY FlowAssumption DEF Row, Status, Transition, Paid, NoRow, NoDeadline

LEMMA NewRowMade ==
  ASSUME NEW q \in Requests, NEW chosen \in Placements(q), NEW deadline \in Nat \cup {NoDeadline}
  PROVE  /\ NewRow(q, chosen, deadline) \in Row
         /\ NewRow(q, chosen, deadline).status = IF deadline = NoDeadline THEN "confirmed" ELSE "held"
         /\ NewRow(q, chosen, deadline).deadline = deadline
<1>1. chosen \in SUBSET Stations
  BY FlowAssumption DEF Placements, Allocations, FreeStations
<1> QED BY <1>1, ScheduleAssumption DEF NewRow, Row, Status

\* What confirmPayment does to the reservation of a request.
LEMMA ConfirmPaymentFacts ==
  ASSUME AnyInv, NEW i \in Ids, key[i] # NoKey, ConfirmPayment(i)
  PROVE  /\ rows' \in [Ids -> Row] /\ \A j \in Ids \ {i} : rows'[j] = rows[j]
         /\ \A j \in Ids : Fate(j)
         /\ rows'[i].status # "held"
         /\ Outcome(i) \in {"pay", "repeat"} => rows'[i].status = "confirmed" /\ rows'[i].payment = i
         /\ Outcome(i) \in {"pay", "repeat", "hold_expired", "wrong_status"}
         /\ Outcome(i) = "wrong_status" => rows[i].status \in {"payment_failed", "cancelled"}
         /\ Outcome(i) # "pay" /\ rows[i].status = "held" =>
              rows'[i].status = "expired" /\ ~ StillFree(rows, i, clock, Buffer)
         /\ Outcome(i) # "pay" /\ rows[i].status # "held" => rows'[i] = rows[i]
<1>1. rows[i] \in Row /\ KeyOK(i) /\ rows[i].status # "none"
  BY DEF AnyInv, TypeOK, KeyOK
<1>2. rows[i].status \in {"held", "confirmed", "expired", "payment_failed", "cancelled"}
  BY <1>1 DEF Row, Status
<1>3. rows[i].status = "confirmed" => rows[i].payment = i
  BY <1>1 DEF KeyOK
<1>4. CASE Outcome(i) = "pay"
  <2>1. rows[i].status \in {"held", "expired"}
    BY <1>2, <1>4 DEF Outcome, ConfirmOutcome
  <2>2. rows' = [rows EXCEPT ![i] = Paid(rows[i], i)]
    BY <1>4 DEF ConfirmPayment
  <2>3. /\ rows' \in [Ids -> Row] /\ \A j \in Ids \ {i} : rows'[j] = rows[j]
        /\ rows'[i].status = "confirmed" /\ rows'[i].payment = i
    <3> DEFINE row == Paid(rows[i], i)
    <3>1. row \in Row /\ row.status = "confirmed" /\ row.payment = i
      BY <1>1, RowsMade
    <3>2. rows' = [rows EXCEPT ![i] = row]
      BY <2>2
    <3> HIDE DEF row
    <3> QED BY <3>1, <3>2, RowWritten DEF AnyInv
  <2> QED BY <1>4, <2>1, <2>3 DEF Fate
<1>5. CASE Outcome(i) = "hold_expired" /\ rows[i].status = "held"
  <2>1. ~ StillFree(rows, i, clock, Buffer)
    BY <1>5 DEF Outcome, ConfirmOutcome
  <2>2. rows' = [rows EXCEPT ![i] = Transition(rows[i], "expired")]
    BY <1>5 DEF ConfirmPayment
  <2>3. /\ rows' \in [Ids -> Row] /\ \A j \in Ids \ {i} : rows'[j] = rows[j]
        /\ rows'[i].status = "expired"
    BY <1>1, <2>2, RowsMade, RowWritten DEF AnyInv, Status
  <2> QED BY <1>5, <2>1, <2>3 DEF Fate
<1>6. CASE Outcome(i) # "pay" /\ ~ (Outcome(i) = "hold_expired" /\ rows[i].status = "held")
  <2>1. rows' = rows
    BY <1>6 DEF ConfirmPayment
  <2>2. rows[i].status \in {"held", "expired"} => Outcome(i) = "hold_expired"
    BY <1>6 DEF Outcome, ConfirmOutcome
  <2>3. rows[i].status = "confirmed" => Outcome(i) = "repeat"
    BY <1>3 DEF Outcome, ConfirmOutcome
  <2>4. rows[i].status \in {"payment_failed", "cancelled"} => Outcome(i) = "wrong_status"
    BY DEF Outcome, ConfirmOutcome
  <2> QED BY <1>2, <1>3, <1>6, <2>1, <2>2, <2>3, <2>4 DEF Fate, AnyInv, TypeOK
<1> QED BY <1>4, <1>5, <1>6

\* A request goes on, and nothing but it and what is refunded changes.
LEMMA QuietRequest ==
  ASSUME QuietInv, NEW w \in Customers, \A v \in Customers \ {w} : web'[v] = web[v],
         UNCHANGED <<clock, rows, key, charge, cron, scenario>>, refunded \subseteq refunded',
         web'[w].at \in Paying => web[w].at \in Paying /\ web'[w].id = web[w].id,
         web'[w].at \in {"charge", "wait"} => web[w].at \in {"charge", "wait"},
         web'[w].at = "fail" => Untaken(web[w].id),
         web[w].at = "wait" => charge[web[w].id] # "sent",
         web[w].at \in {"charge", "wait", "confirm", "refund"} /\ charge[web[w].id] = "completed" =>
           \/ web'[w].at \in {"charge", "wait", "confirm", "refund"}
           \/ rows[web[w].id].status = "held" \/ web[w].id \in refunded'
  PROVE  QuietInv'
<1>1. ASSUME NEW v \in Customers PROVE ChargingOK(v)'
  <2>1. (web[v].at = "fail" => Untaken(web[v].id))'
    <3>1. (web[v].at = "fail")' => Untaken(web[v].id) /\ web'[v].id = web[v].id
      BY DEF QuietInv, ChargingOK, Paying
    <3> QED BY <3>1 DEF Untaken, Events
  <2> QED BY <2>1 DEF QuietInv, ChargingOK, Paying
<1>2. \A i \in Ids : SentOK(i)'
  BY DEF QuietInv, SentOK
<1>3. ASSUME NEW i \in Ids
      PROVE  PaidOK(i)'
  <2>1. PaidOK(i)
    BY DEF QuietInv
  <2>2. charge[i] = "completed" /\ Obliged(i) => Obliged(i)' \/ i \in refunded'
    BY DEF Obliged, Paying
  <2> QED BY <2>1, <2>2 DEF PaidOK, Untaken, Events
<1>4. \A c \in Crons : ReleaseOK(c)'
  BY DEF QuietInv, ReleaseOK
<1> QED BY <1>1, <1>2, <1>3, <1>4 DEF QuietInv

\* A run of cron goes on, and nothing but it and what is refunded changes.
LEMMA QuietCron ==
  ASSUME QuietInv, NEW c \in Crons, \A d \in Crons \ {c} : cron'[d] = cron[d],
         UNCHANGED <<clock, rows, key, charge, web, scenario>>, refunded \subseteq refunded',
         ReleaseOK(c)',
         cron[c].at \in {"confirm", "refund"} =>
           \/ cron'[c].at \in {"confirm", "refund"} /\ cron'[c].id = cron[c].id
           \/ cron[c].id \in refunded'
  PROVE  QuietInv'
<1>1. \A v \in Customers : ChargingOK(v)'
  BY DEF QuietInv, ChargingOK, Untaken, Events
<1>2. \A i \in Ids : SentOK(i)'
  BY DEF QuietInv, SentOK
<1>3. ASSUME NEW i \in Ids
      PROVE  PaidOK(i)'
  <2>1. PaidOK(i)
    BY DEF QuietInv
  <2>2. Obliged(i) => Obliged(i)' \/ i \in refunded'
    BY DEF Obliged
  <2> QED BY <2>1, <2>2 DEF PaidOK, Untaken, Events
<1>4. \A d \in Crons : ReleaseOK(d)'
  BY DEF QuietInv, ReleaseOK
<1> QED BY <1>1, <1>2, <1>3, <1>4 DEF QuietInv

\* What somebody will still see to, though nothing holds it.
Owed(i) ==
  \/ \E w \in Customers : web'[w].id = i /\ web'[w].at \in {"charge", "wait", "confirm", "refund"}
  \/ \E c \in Crons : cron'[c].id = i /\ cron'[c].at \in {"confirm", "refund"}

\* The reservation i is settled: nobody charges for it, and it is paid, or refused,
\* or somebody has still to refund it.
LEMMA QuietRow ==
  ASSUME AnyInv, QuietInv, NEW i \in Ids, UNCHANGED <<clock, key, charge, refunded, scenario>>,
         \A j \in Ids \ {i} : rows'[j] = rows[j],
         \A w \in Customers : web[w].id # i => web'[w] = web[w],
         \A w \in Customers :
           \/ web'[w] = web[w]
           \/ /\ web[w].at \in {"confirm", "fail"} /\ web'[w].id = i
              /\ web'[w].at \notin {"charge", "wait", "confirm", "fail"},
         \A c \in Crons :
           \/ cron'[c] = cron[c]
           \/ /\ cron[c].id = i /\ cron'[c].at # "release"
              /\ cron'[c].at = "refund" => cron'[c].id = i,
         \A w \in Customers : web[w].id = i => web'[w].at \notin {"charge", "wait"},
         rows'[i].status \notin {"held", "cancelled"},
         rows'[i].status = "payment_failed" => Untaken(i),
         charge[i] = "completed" =>
           rows'[i].payment = i \/ i \in refunded \/ Owed(i) \/ rows'[i].status = "payment_failed"
  PROVE  QuietInv'
<1>1. \A w \in Customers : ChargingOK(w)'
  <2> SUFFICES ASSUME NEW w \in Customers PROVE ChargingOK(w)'
    OBVIOUS
  <2>1. web'[w].at \in {"charge", "wait"} => web'[w] = web[w] /\ web[w].id # i
    OBVIOUS
  <2>2. web'[w].at \in {"charge", "wait"} => web[w].id \in Ids
    BY <2>1 DEF AnyInv, WebOK, Reserved
  <2>3. web'[w].at \in {"charge", "wait"} =>
          rows'[web'[w].id].status = "held" /\ clock' < rows'[web'[w].id].deadline
    BY <2>1, <2>2 DEF QuietInv, ChargingOK
  <2>4. (web[w].at = "fail" => Untaken(web[w].id))'
    <3>1. web'[w].at = "fail" => Untaken(web[w].id) /\ web'[w].id = web[w].id
      BY DEF QuietInv, ChargingOK
    <3> QED BY <3>1 DEF Untaken, Events
  <2>5. \A v \in Customers : web'[v].at \in Paying => web[v].at \in Paying /\ web'[v].id = web[v].id
    BY DEF Paying
  <2>6. \A v \in Customers :
          web'[w].at \in Paying /\ web'[v].at \in Paying /\ web'[v].id = web'[w].id => v = w
    BY <2>5 DEF QuietInv, ChargingOK
  <2> QED BY <2>3, <2>4, <2>6 DEF ChargingOK
<1>2. \A j \in Ids : SentOK(j)'
  BY DEF QuietInv, SentOK
<1>3. ASSUME NEW j \in Ids
      PROVE  PaidOK(j)'
  <2>1. CASE j = i
    <3>1. Owed(i) => Obliged(i)'
      BY DEF Owed, Obliged
    <3> QED BY <2>1, <3>1 DEF PaidOK, Untaken, Events
  <2>2. CASE j # i
    <3>1. PaidOK(j)
      BY DEF QuietInv
    <3>2. Obliged(j) => Obliged(j)'
      BY <2>2 DEF Obliged
    <3> QED BY <2>2, <3>1, <3>2 DEF PaidOK, Untaken, Events
  <2> QED BY <2>1, <2>2
<1>4. \A c \in Crons : ReleaseOK(c)'
  <2> SUFFICES ASSUME NEW c \in Crons, cron'[c].at = "release", rows'[cron'[c].id].status = "held"
               PROVE  ReleaseOK(c)'
    BY DEF ReleaseOK
  <2>1. cron'[c] = cron[c] /\ cron[c].id \in Ids \ {i}
    BY DEF AnyInv, CronOK
  <2> QED BY <2>1 DEF QuietInv, ReleaseOK
<1> QED BY <1>1, <1>2, <1>3, <1>4 DEF QuietInv
-----------------------------------------------------------------------------
(* The request. *)

\* A request that changes nothing but where it is.
LEMMA RequestGoes ==
  ASSUME AnyInv, NEW w \in Customers, UNCHANGED <<clock, rows, key, charge, cron, scenario>>,
         refunded' \subseteq Ids, web' \in [Customers -> WebPlaces],
         \A v \in Customers \ {w} : web'[v] = web[v], WebOK(w)', KeepsCharging(w)
  PROVE  AnyInv'
<1>1. TypeOK'
  BY DEF AnyInv, TypeOK, WebPlaces
<1>2. \A i \in Ids : Fate(i)
  BY DEF Fate
<1> QED BY <1>1, <1>2, Unaffected, SameChargers DEF AnyInv

LEMMA SubmitStep ==
  ASSUME IInv, NEW w \in Customers, Submit(w), UNCHANGED scenario
  PROVE  IInv'
<1>1. /\ web[w].at = "new" /\ UNCHANGED <<clock, rows, key, charge, refunded, cron>>
      /\ TypeOK /\ AnyInv /\ web[w].attempt = 0
  BY DEF Submit, IInv, AnyInv, ChargerOK
<1>2. /\ web' \in [Customers -> WebPlaces] /\ \A v \in Customers \ {w} : web'[v] = web[v]
      /\ web'[w].attempt = web[w].attempt
      /\ \/ web'[w].at = "create"
         \/ web'[w].at = "repeat" /\ web'[w].id \in Taken(requestId[w])
  <2>1. CASE Goes(w, "create")
    BY <1>1, <2>1, GoesTo DEF Working
  <2>2. ASSUME NEW i \in Taken(requestId[w]), web' = [web EXCEPT ![w].at = "repeat", ![w].id = i]
        PROVE  /\ web' \in [Customers -> WebPlaces] /\ \A v \in Customers \ {w} : web'[v] = web[v]
               /\ web'[w].at = "repeat" /\ web'[w].id = i /\ web'[w].attempt = web[w].attempt
    <3>1. "repeat" \in {"new"} \cup Working \cup Answers /\ i \in Ids /\ Turns(w, "repeat", i)
      BY <2>2 DEF Working, Taken, Turns
    <3> QED BY <1>1, <3>1, TurnsTo
  <2> QED BY <2>1, <2>2 DEF Submit
<1>3. WebOK(w)'
  BY <1>1, <1>2 DEF WebOK, Reserved, Taken, requestId
<1>4. AnyInv'
  <2>1. KeepsCharging(w)
    BY <1>1, <1>2 DEF KeepsCharging
  <2> QED BY <1>1, <1>2, <1>3, <2>1, RequestGoes DEF TypeOK
<1>5. QuietInv => QuietInv'
  BY <1>1, <1>2, QuietRequest DEF Paying
<1> QED BY <1>4, <1>5 DEF IInv, Settling, Events

LEMMA RepeatStep ==
  ASSUME IInv, NEW w \in Customers, Repeat(w), UNCHANGED scenario
  PROVE  IInv'
<1>1. /\ web[w].at = "repeat" /\ UNCHANGED <<clock, rows, key, charge, refunded, cron>>
      /\ TypeOK /\ AnyInv /\ WebOK(w) /\ web[w].id \in Ids
  BY DEF Repeat, IInv, AnyInv, WebOK, Reserved
<1>2. PICK place \in {"confirmed", "payment_unknown", "request_used"} :
        Goes(w, place) /\ (place = "confirmed" => rows[web[w].id].status = "confirmed")
  BY DEF Repeat
<1>3. /\ web' \in [Customers -> WebPlaces] /\ \A v \in Customers \ {w} : web'[v] = web[v]
      /\ web'[w].at = place /\ web'[w].id = web[w].id /\ web'[w].attempt = web[w].attempt
  BY <1>1, <1>2, GoesTo DEF Answers
<1>4. WebOK(w)'
  <2>1. place = "confirmed" => rows[web[w].id].payment = web[w].id /\ key[web[w].id] = requestId[w]
    <3>1. requestId[w] # NoKey
      BY FlowAssumption DEF AnyInv, TypeOK, requestId, IInv
    <3> QED BY <1>1, <1>2, <3>1 DEF AnyInv, KeyOK, WebOK, Reserved
  <2> QED BY <1>1, <1>2, <1>3, <2>1 DEF WebOK, Reserved, requestId
<1>5. AnyInv'
  <2>1. KeepsCharging(w)
    BY <1>3 DEF KeepsCharging
  <2> QED BY <1>1, <1>3, <1>4, <2>1, RequestGoes DEF TypeOK
<1>6. QuietInv => QuietInv'
  BY <1>1, <1>3, QuietRequest DEF Paying
<1> QED BY <1>5, <1>6 DEF IInv, Settling, Events

\* A request that was charging goes on with its reservation.
LEMMA ChargingGoes ==
  ASSUME IInv, NEW w \in Customers,
         UNCHANGED <<clock, rows, key, charge, cron, refunded, scenario>>,
         web[w].at = "wait", web' \in [Customers -> WebPlaces],
         \A v \in Customers \ {w} : web'[v] = web[v], web'[w].id = web[w].id,
         web'[w].attempt = web[w].attempt,
         web'[w].at \in {"charge", "confirm", "fail", "payment_unknown"},
         web'[w].at = "charge" => web[w].attempt = 1,
         web'[w].at = "fail" => Untaken(web[w].id),
         Settling => charge[web[w].id] # "sent"
  PROVE  IInv'
<1>1. AnyInv /\ TypeOK /\ WebOK(w)
  BY DEF IInv, AnyInv
<1>2. WebOK(w)'
  BY <1>1 DEF WebOK, Reserved, requestId
<1>3. AnyInv'
  <2>1. KeepsCharging(w)
    BY DEF KeepsCharging
  <2> QED BY <1>1, <1>2, <2>1, RequestGoes DEF TypeOK
<1>4. ASSUME Settling, QuietInv
      PROVE  QuietInv'
  <2>1. rows[web[w].id].status = "held"
    BY <1>4 DEF QuietInv, ChargingOK
  <2> QED BY <1>4, <2>1, QuietRequest DEF Paying
<1> QED BY <1>3, <1>4 DEF IInv, Settling, Events

LEMMA AnsweredStep ==
  ASSUME IInv, NEW w \in Customers, Answered(w) \/ Unanswered(w), UNCHANGED scenario
  PROVE  IInv'
<1>1. /\ web[w].at = "wait" /\ UNCHANGED <<clock, rows, key, charge, cron, refunded, scenario>>
      /\ TypeOK
  BY DEF Answered, Unanswered, IInv, AnyInv
<1>2. ASSUME NEW place \in {"charge", "confirm", "fail", "payment_unknown"}, Goes(w, place),
             place = "charge" => web[w].attempt = 1,
             place = "fail" => Untaken(web[w].id),
             Settling => charge[web[w].id] # "sent"
      PROVE  IInv'
  <2>1. /\ web' \in [Customers -> WebPlaces] /\ \A v \in Customers \ {w} : web'[v] = web[v]
        /\ web'[w].at = place /\ web'[w].id = web[w].id /\ web'[w].attempt = web[w].attempt
    BY <1>1, <1>2, GoesTo DEF Answers, Working
  <2> QED BY <1>1, <1>2, <2>1, ChargingGoes
<1>3. CASE Answered(w)
  BY <1>2, <1>3 DEF Answered, Untaken
<1>4. CASE Unanswered(w)
  BY <1>2, <1>4 DEF Unanswered, Arrived, Settling
<1> QED BY <1>3, <1>4

\* A refused request takes nothing, or was the retry of one that went through.
LEMMA RefusedStep ==
  ASSUME IInv, NEW w \in Customers, Refused(w), UNCHANGED scenario
  PROVE  IInv'
<1> DEFINE i == web[w].id
<1>1. /\ web[w].at = "wait" /\ UNCHANGED <<clock, rows, key, refunded, cron, scenario>>
      /\ TypeOK /\ AnyInv /\ WebOK(w) /\ i \in Ids /\ key[i] = requestId[w] /\ Goes(w, "fail")
  <2>1. /\ web[w].at = "wait" /\ UNCHANGED <<clock, rows, key, refunded, cron, scenario>>
        /\ Goes(w, "fail")
    BY DEF Refused
  <2> QED BY <2>1 DEF IInv, AnyInv, WebOK, Reserved
<1>2. /\ web' \in [Customers -> WebPlaces] /\ \A v \in Customers \ {w} : web'[v] = web[v]
      /\ web'[w].at = "fail" /\ web'[w].id = i /\ web'[w].attempt = web[w].attempt
  BY <1>1, GoesTo DEF Working
<1>3. CASE "retry refused" \in Events /\ Arrived(i) /\ UNCHANGED charge
  <2>1. Untaken(i) /\ (Settling => charge[i] # "sent")
    BY <1>3 DEF Untaken, Arrived, Settling
  <2> QED BY <1>1, <1>2, <1>3, <2>1, ChargingGoes
<1>4. CASE charge[i] = "sent" /\ charge' = [charge EXCEPT ![i] = "none"]
  <2> HIDE DEF i
  <2>1. charge' \in [Ids -> Charges] /\ charge'[i] = "none" /\ \A j \in Ids \ {i} : charge'[j] = charge[j]
    BY <1>1, <1>4 DEF TypeOK, Charges
  <2>2. TypeOK'
    BY <1>1, <1>2, <2>1 DEF TypeOK, WebPlaces
  <2>3. KeysUnique' /\ \A j \in Ids : KeyOK(j)'
    BY <1>1, <2>1 DEF AnyInv, KeysUnique, KeyOK
  <2>4. (\A v \in Customers : WebOK(v)') /\ \A v \in Customers : ChargerOK(v)'
    <3>1. KeepsCharging(w)
      BY <1>2 DEF KeepsCharging, i
    <3>2. \A v \in Customers : ChargerOK(v)'
      BY <1>1, <1>2, <3>1, SameChargers
    <3> QED BY <1>1, <1>2, <3>2 DEF AnyInv, WebOK, Reserved, requestId
  <2>5. \A c \in Crons : CronOK(c)'
    BY <1>1 DEF AnyInv, CronOK
  <2>6. ASSUME QuietInv PROVE QuietInv'
    <3>1. rows[i].status = "held" /\ \A v \in Customers \ {w} : web[v].at \in Paying => web[v].id # i
      BY <1>1, <2>6 DEF QuietInv, ChargingOK, Paying, i
    <3>2. ASSUME NEW v \in Customers PROVE ChargingOK(v)'
      <4>1. (web[v].at = "fail" => Untaken(web[v].id))'
        <5>1. CASE v = w
          BY <1>2, <2>1, <5>1 DEF Untaken
        <5>2. CASE v # w
          <6>1. web'[v].at = "fail" => web'[v] = web[v] /\ web[v].id \in Ids \ {i} /\ Untaken(web[v].id)
            BY <1>1, <1>2, <2>6, <3>1, <5>2
               DEF QuietInv, ChargingOK, Paying, AnyInv, WebOK, Reserved
          <6> QED BY <1>1, <2>1, <6>1 DEF Untaken, Events
        <5> QED BY <5>1, <5>2
      <4>2. web'[v].at \in {"charge", "wait"} => web'[v] = web[v]
        BY <1>2
      <4>3. \A u \in Customers : web'[u].at \in Paying => web[u].at \in Paying /\ web'[u].id = web[u].id
        BY <1>1, <1>2 DEF Paying, i
      <4> QED BY <1>1, <2>6, <4>1, <4>2, <4>3 DEF QuietInv, ChargingOK
    <3>3. \A j \in Ids : SentOK(j)'
      BY <1>1, <1>2, <2>1, <2>6 DEF QuietInv, SentOK, i
    <3>4. ASSUME NEW j \in Ids PROVE PaidOK(j)'
      <4>1. PaidOK(j)
        BY <2>6 DEF QuietInv
      <4>2. Obliged(j) => Obliged(j)'
        BY <1>1, <1>2, <3>1 DEF Obliged, i
      <4> QED BY <1>1, <2>1, <4>1, <4>2 DEF PaidOK, Untaken, Events
    <3>5. ASSUME NEW c \in Crons PROVE ReleaseOK(c)'
      <4>1. cron[c].at = "release" => cron[c].id \in Ids
        BY <1>1 DEF AnyInv, CronOK
      <4> QED BY <1>1, <2>1, <2>6, <4>1 DEF QuietInv, ReleaseOK
    <3> QED BY <3>2, <3>3, <3>4, <3>5 DEF QuietInv
  <2> QED BY <1>1, <2>2, <2>3, <2>4, <2>5, <2>6 DEF IInv, AnyInv, Settling, Events
<1> QED BY <1>3, <1>4 DEF Refused

LEMMA RefundStep ==
  ASSUME IInv, NEW w \in Customers, Refund(w), UNCHANGED scenario
  PROVE  IInv'
<1>1. /\ web[w].at = "refund" /\ UNCHANGED <<clock, rows, key, charge, cron>>
      /\ TypeOK /\ AnyInv /\ WebOK(w) /\ web[w].id \in Ids /\ refunded \subseteq Ids
      /\ Goes(w, "refunded") /\ RefundsTo(web[w].id)
  BY DEF Refund, IInv, AnyInv, TypeOK, WebOK, Reserved
<1>2. /\ web' \in [Customers -> WebPlaces] /\ \A v \in Customers \ {w} : web'[v] = web[v]
      /\ web'[w].at = "refunded" /\ KeepsCharging(w)
  BY <1>1, GoesTo DEF Answers, KeepsCharging
<1>3. /\ refunded \subseteq refunded' /\ refunded' \subseteq Ids
      /\ Settling => web[w].id \in refunded'
  BY <1>1 DEF RefundsTo, Settling
<1>4. WebOK(w)'
  BY <1>2 DEF WebOK, Reserved
<1>5. AnyInv'
  BY <1>1, <1>2, <1>3, <1>4, RequestGoes
<1>6. Settling /\ QuietInv => QuietInv'
  BY <1>1, <1>2, <1>3, QuietRequest DEF Paying
<1> QED BY <1>5, <1>6 DEF IInv, Settling, Events

LEMMA DieStep ==
  ASSUME IInv, NEW w \in Customers, Die(w), UNCHANGED scenario
  PROVE  IInv'
<1>1. /\ UNCHANGED <<clock, rows, key, charge, refunded, cron>> /\ ~ Settling
      /\ TypeOK /\ AnyInv /\ Goes(w, "no answer")
  BY DEF Die, IInv, AnyInv, Settling
<1>2. /\ web' \in [Customers -> WebPlaces] /\ \A v \in Customers \ {w} : web'[v] = web[v]
      /\ web'[w].at = "no answer" /\ KeepsCharging(w)
  <2>1. "no answer" \in {"new"} \cup Working \cup Answers
    BY DEF Answers
  <2> QED BY <1>1, <2>1, GoesTo DEF KeepsCharging
<1>3. WebOK(w)'
  BY <1>2 DEF WebOK, Reserved
<1>4. AnyInv'
  BY <1>1, <1>2, <1>3, RequestGoes DEF TypeOK
<1> QED BY <1>1, <1>4 DEF IInv, Settling, Events

LEMMA ConfirmStep ==
  ASSUME IInv, NEW w \in Customers, Confirm(w), UNCHANGED scenario
  PROVE  IInv'
<1> DEFINE i == web[w].id
<1>1. /\ web[w].at = "confirm" /\ UNCHANGED <<clock, key, charge, refunded, cron>>
      /\ TypeOK /\ AnyInv /\ WebOK(w) /\ i \in Ids /\ key[i] = requestId[w] /\ requestId[w] # NoKey
      /\ ConfirmPayment(i)
  BY FlowAssumption DEF Confirm, IInv, AnyInv, TypeOK, WebOK, Reserved, requestId
<1>2. PICK place \in {"confirmed", "refund"} :
        Goes(w, place) /\ (place = "confirmed" <=> Outcome(i) \in {"pay", "repeat"})
  BY DEF Confirm
<1>3. /\ web' \in [Customers -> WebPlaces] /\ \A v \in Customers \ {w} : web'[v] = web[v]
      /\ web'[w].at = place /\ web'[w].id = i /\ KeepsCharging(w)
  BY <1>1, <1>2, GoesTo DEF Answers, Working, KeepsCharging
<1> HIDE DEF i
<1>4. /\ rows' \in [Ids -> Row] /\ \A j \in Ids \ {i} : rows'[j] = rows[j]
      /\ \A j \in Ids : Fate(j)
      /\ rows'[i].status # "held"
      /\ place = "confirmed" => rows'[i].status = "confirmed" /\ rows'[i].payment = i
      /\ rows'[i].status \in {"payment_failed", "cancelled"} => rows'[i] = rows[i]
  BY <1>1, <1>2, ConfirmPaymentFacts
<1>5. WebOK(w)'
  BY <1>1, <1>3, <1>4 DEF WebOK, Reserved, requestId
<1>6. AnyInv'
  <2>1. TypeOK'
    BY <1>1, <1>3, <1>4 DEF TypeOK, WebPlaces
  <2>2. \A v \in Customers : ChargerOK(v)'
    BY <1>1, <1>3, SameChargers
  <2> QED BY <1>1, <1>3, <1>4, <1>5, <2>1, <2>2, Unaffected DEF AnyInv
<1>7. QuietInv => QuietInv'
  <2> SUFFICES ASSUME QuietInv PROVE QuietInv'
    OBVIOUS
  <2>1. \A v \in Customers : web[v].id = i => web'[v].at \notin {"charge", "wait"}
    BY <1>1, <1>2, <1>3 DEF QuietInv, ChargingOK, Paying, i
  <2>2. rows'[i].status # "cancelled" /\ (rows'[i].status = "payment_failed" => Untaken(i))
    BY <1>1, <1>4 DEF QuietInv, PaidOK
  <2>3. \A v \in Customers : web[v].id # i => web'[v] = web[v]
    BY <1>3 DEF i
  <2>4. rows'[i].payment = i \/ Owed(i)
    BY <1>3, <1>4 DEF Owed
  <2>5. \A v \in Customers :
          \/ web'[v] = web[v]
          \/ /\ web[v].at \in {"confirm", "fail"} /\ web'[v].id = i
             /\ web'[v].at \notin {"charge", "wait", "confirm", "fail"}
    BY <1>1, <1>2, <1>3
  <2>6. \A c \in Crons : cron'[c] = cron[c]
    BY <1>1
  <2> QED BY <1>1, <1>4, <2>1, <2>2, <2>3, <2>4, <2>5, <2>6, QuietRow
<1> QED BY <1>6, <1>7 DEF IInv, Settling, Events

LEMMA FailPaymentStep ==
  ASSUME IInv, NEW w \in Customers, FailPayment(w), UNCHANGED scenario
  PROVE  IInv'
<1> DEFINE i == web[w].id
<1>1. /\ web[w].at = "fail" /\ UNCHANGED <<clock, key, charge, refunded, cron>>
      /\ TypeOK /\ AnyInv /\ WebOK(w) /\ i \in Ids /\ rows[i] \in Row
      /\ Goes(w, "payment_declined")
      /\ rows' = IF rows[i].status = "held"
                 THEN [rows EXCEPT ![i] = Transition(rows[i], "payment_failed")] ELSE rows
  BY DEF FailPayment, IInv, AnyInv, TypeOK, WebOK, Reserved
<1>2. /\ web' \in [Customers -> WebPlaces] /\ \A v \in Customers \ {w} : web'[v] = web[v]
      /\ web'[w].at = "payment_declined" /\ web'[w].id = i /\ KeepsCharging(w)
  BY <1>1, GoesTo DEF Answers, KeepsCharging
<1>3. /\ rows' \in [Ids -> Row] /\ \A j \in Ids \ {i} : rows'[j] = rows[j]
      /\ IF rows[i].status = "held" THEN rows'[i].status = "payment_failed" ELSE rows'[i] = rows[i]
  <2> DEFINE row == Transition(rows[i], "payment_failed")
  <2>1. row \in Row /\ row.status = "payment_failed"
    BY <1>1, RowsMade DEF Status
  <2>2. CASE rows[i].status = "held"
    <3>1. rows' = [rows EXCEPT ![i] = row]
      BY <1>1, <2>2
    <3> HIDE DEF row, i
    <3> QED BY <1>1, <2>1, <2>2, <3>1, RowWritten
  <2> QED BY <1>1, <2>2 DEF TypeOK
<1> HIDE DEF i
<1>4. \A j \in Ids : Fate(j)
  BY <1>3 DEF Fate
<1>5. WebOK(w)'
  BY <1>2 DEF WebOK, Reserved
<1>6. AnyInv'
  <2>1. TypeOK'
    BY <1>1, <1>2, <1>3 DEF TypeOK, WebPlaces
  <2>2. \A v \in Customers : ChargerOK(v)'
    BY <1>1, <1>2, SameChargers
  <2> QED BY <1>1, <1>2, <1>4, <1>5, <2>1, <2>2, Unaffected DEF AnyInv
<1>7. QuietInv => QuietInv'
  <2> SUFFICES ASSUME QuietInv PROVE QuietInv'
    OBVIOUS
  <2>1. \A v \in Customers : web[v].id = i => web'[v].at \notin {"charge", "wait"}
    BY <1>1, <1>2 DEF QuietInv, ChargingOK, Paying, i
  <2>2. Untaken(i) /\ rows'[i].status \notin {"held", "cancelled"}
    BY <1>1, <1>3 DEF QuietInv, PaidOK, ChargingOK, i
  <2>3. \A v \in Customers : web[v].id # i => web'[v] = web[v]
    BY <1>2 DEF i
  <2>4. \A v \in Customers :
          \/ web'[v] = web[v]
          \/ /\ web[v].at \in {"confirm", "fail"} /\ web'[v].id = i
             /\ web'[v].at \notin {"charge", "wait", "confirm", "fail"}
    BY <1>1, <1>2
  <2>5. \A c \in Crons : cron'[c] = cron[c]
    BY <1>1
  <2>6. charge[i] = "completed" =>
          rows'[i].payment = i \/ i \in refunded \/ Owed(i) \/ rows'[i].status = "payment_failed"
    <3>1. rows[i].status # "held" /\ Obliged(i) => Owed(i)
      <4>1. \A v \in Customers : web[v].at # "fail" => web'[v] = web[v]
        BY <1>1, <1>2
      <4> QED BY <1>1, <4>1 DEF Obliged, Owed
    <3> QED BY <1>1, <1>3, <3>1 DEF QuietInv, PaidOK
  <2> QED BY <1>1, <1>3, <2>1, <2>2, <2>3, <2>4, <2>5, <2>6, QuietRow
<1> QED BY <1>6, <1>7 DEF IInv, Settling, Events
\* A request that was not under way takes a new id, which no one works on.
LEMMA CreateStep ==
  ASSUME IInv, NEW w \in Customers, Create(w), UNCHANGED scenario
  PROVE  IInv'
<1>1. /\ web[w].at = "create" /\ UNCHANGED <<clock, charge, refunded, cron>>
      /\ TypeOK /\ AnyInv /\ requestId[w] \in Keys /\ requestId[w] # NoKey /\ web[w].attempt = 0
  BY FlowAssumption DEF Create, IInv, AnyInv, TypeOK, requestId, ChargerOK
<1>2. ASSUME Goes(w, "slot_unavailable"), UNCHANGED <<rows, key>>
      PROVE  IInv'
  <2>1. /\ web' \in [Customers -> WebPlaces] /\ \A v \in Customers \ {w} : web'[v] = web[v]
        /\ web'[w].at = "slot_unavailable" /\ KeepsCharging(w)
    BY <1>1, <1>2, GoesTo DEF Answers, KeepsCharging
  <2>2. WebOK(w)'
    BY <2>1 DEF WebOK, Reserved
  <2>3. AnyInv'
    BY <1>1, <1>2, <2>1, <2>2, RequestGoes DEF TypeOK
  <2>4. QuietInv => QuietInv'
    BY <1>1, <1>2, <2>1, QuietRequest DEF Paying
  <2> QED BY <2>3, <2>4 DEF IInv, Settling, Events
<1>3. ASSUME NEW i \in Taken(requestId[w]), UNCHANGED <<rows, key>>,
             web' = [web EXCEPT ![w].at = "repeat", ![w].id = i]
      PROVE  IInv'
  <2>1. /\ "repeat" \in {"new"} \cup Working \cup Answers /\ i \in Ids /\ key[i] = requestId[w]
        /\ Turns(w, "repeat", i)
    BY <1>3 DEF Working, Taken, Turns
  <2>2. /\ web' \in [Customers -> WebPlaces] /\ \A v \in Customers \ {w} : web'[v] = web[v]
        /\ web'[w].at = "repeat" /\ web'[w].id = i /\ KeepsCharging(w)
    BY <1>1, <2>1, TurnsTo DEF KeepsCharging
  <2>3. WebOK(w)'
    BY <1>3, <2>1, <2>2 DEF WebOK, Reserved, requestId
  <2>4. AnyInv'
    BY <1>1, <1>3, <2>2, <2>3, RequestGoes DEF TypeOK
  <2>5. QuietInv => QuietInv'
    BY <1>1, <1>3, <2>2, QuietRequest DEF Paying
  <2> QED BY <2>4, <2>5 DEF IInv, Settling, Events
<1>4. ASSUME NEW i \in Ids, NEW chosen \in Placements(wants[w]), Taken(requestId[w]) = {},
             rows[i].status = "none",
             rows' = [rows EXCEPT ![i] = NewRow(wants[w], chosen, clock + Hold)],
             key' = [key EXCEPT ![i] = requestId[w]],
             web' = [web EXCEPT ![w].at = "charge", ![w].id = i]
      PROVE  IInv'
  <2>1. key[i] = NoKey /\ charge[i] = "none"
    BY <1>1, <1>4 DEF AnyInv, KeyOK
  <2>2. /\ rows' \in [Ids -> Row] /\ \A j \in Ids \ {i} : rows'[j] = rows[j]
        /\ rows'[i].status = "held" /\ rows'[i].deadline \in Nat /\ clock < rows'[i].deadline
    <3> DEFINE row == NewRow(wants[w], chosen, clock + Hold)
    <3>1. clock + Hold \in Nat /\ clock + Hold # NoDeadline /\ clock < clock + Hold
      BY <1>1, FlowAssumption, TableAssumption DEF TypeOK, NoDeadline
    <3>2. row \in Row /\ row.status = "held" /\ row.deadline = clock + Hold
      BY <3>1, NewRowMade, FlowAssumption
    <3>3. rows' = [rows EXCEPT ![i] = row]
      BY <1>4
    <3> HIDE DEF row
    <3> QED BY <1>1, <3>1, <3>2, <3>3, RowWritten
  <2>3. /\ key' \in [Ids -> Keys \cup {NoKey}] /\ key'[i] = requestId[w]
        /\ \A j \in Ids \ {i} : key'[j] = key[j]
    BY <1>1, <1>4 DEF TypeOK
  <2>4. /\ web' \in [Customers -> WebPlaces] /\ \A v \in Customers \ {w} : web'[v] = web[v]
        /\ web'[w].at = "charge" /\ web'[w].id = i /\ web'[w].attempt = 0
    <3>1. "charge" \in {"new"} \cup Working \cup Answers /\ Turns(w, "charge", i)
      BY <1>4 DEF Working, Turns
    <3> QED BY <1>1, <3>1, TurnsTo
  <2>5. TypeOK'
    BY <1>1, <2>2, <2>3, <2>4 DEF TypeOK, WebPlaces
  <2>6. KeysUnique'
    BY <1>1, <1>4, <2>1, <2>3 DEF AnyInv, KeysUnique, Taken
  <2>7. \A j \in Ids : KeyOK(j)'
    BY <1>1, <2>1, <2>2, <2>3 DEF AnyInv, KeyOK
  <2>8. ASSUME NEW v \in Customers PROVE WebOK(v)'
    <3>1. CASE v = w
      BY <2>3, <2>4, <3>1 DEF WebOK, Reserved, requestId
    <3>2. CASE v # w
      <4>1. web'[v] = web[v] /\ WebOK(v) /\ requestId[v] # NoKey
        BY <1>1, <2>4, <3>2, FlowAssumption DEF AnyInv, TypeOK, requestId
      <4>2. web[v].at \in Reserved => web[v].id \in Ids \ {i}
        BY <2>1, <4>1 DEF WebOK
      <4> QED BY <1>1, <2>2, <2>3, <4>1, <4>2 DEF WebOK, Reserved, requestId
    <3> QED BY <3>1, <3>2
  <2>9. ASSUME NEW c \in Crons PROVE CronOK(c)'
    <3>1. CronOK(c) /\ cron'[c] = cron[c] /\ \A h \in cron[c].list : h.id \in Ids
      BY <1>1 DEF AnyInv, TypeOK
    <3>2. \A h \in cron[c].list : h.id \in Ids \ {i}
      BY <2>1, <3>1 DEF CronOK
    <3>3. cron[c].at \in {"release", "confirm", "refund"} => cron[c].id \in Ids \ {i}
      BY <2>1, <3>1 DEF CronOK
    <3> QED BY <1>1, <2>2, <2>3, <3>1, <3>2, <3>3 DEF CronOK
  <2>10. ASSUME QuietInv PROVE QuietInv'
    <3>1. \A v \in Customers : v # w => (web[v].at \in Paying => web[v].id \in Ids \ {i})
      BY <1>1, <2>1, FlowAssumption DEF AnyInv, WebOK, TypeOK, requestId, Paying, Reserved
    <3>2. ASSUME NEW v \in Customers PROVE ChargingOK(v)'
      <4>1. (web[v].at = "fail" => Untaken(web[v].id))'
        <5>1. web'[v].at = "fail" => Untaken(web[v].id) /\ web'[v] = web[v]
          BY <2>4, <2>10 DEF QuietInv, ChargingOK
        <5> QED BY <1>1, <5>1 DEF Untaken, Events
      <4> QED BY <1>1, <2>2, <2>4, <2>10, <3>1, <4>1 DEF QuietInv, ChargingOK, Paying
    <3>3. \A j \in Ids : SentOK(j)'
      BY <1>1, <2>4, <2>10 DEF QuietInv, SentOK
    <3>4. \A j \in Ids : PaidOK(j)'
      <4> SUFFICES ASSUME NEW j \in Ids PROVE PaidOK(j)'
        OBVIOUS
      <4>1. j # i /\ Obliged(j) => Obliged(j)'
        BY <1>1, <2>2, <2>4 DEF Obliged
      <4>2. PaidOK(j)
        BY <2>10 DEF QuietInv
      <4>3. j = i => PaidOK(j)'
        BY <1>1, <2>1, <2>2 DEF PaidOK
      <4> QED BY <1>1, <2>2, <4>1, <4>2, <4>3 DEF PaidOK, Untaken, Events
    <3>5. \A c \in Crons : ReleaseOK(c)'
      <4> SUFFICES ASSUME NEW c \in Crons PROVE ReleaseOK(c)'
        OBVIOUS
      <4>1. cron[c].at = "release" => cron[c].id \in Ids \ {i}
        BY <1>1, <2>1 DEF AnyInv, CronOK
      <4> QED BY <1>1, <2>2, <2>10, <4>1 DEF QuietInv, ReleaseOK
    <3> QED BY <3>2, <3>3, <3>4, <3>5 DEF QuietInv
  <2>11. ASSUME NEW v \in Customers PROVE ChargerOK(v)'
    <3>1. requestId' = requestId
      BY <1>1 DEF requestId
    <3>2. \A u \in Customers \ {w} : IsCharger(u) =>
            requestId[u] # requestId[w] /\ web[u].id \in Ids \ {i} /\ key'[web[u].id] = requestId[u]
      BY <1>1, <1>4, <2>1, <2>3, FlowAssumption DEF AnyInv, ChargerOK, Taken, TypeOK, requestId
    <3>3. \A u \in Customers \ {w} : IsCharger(u)' <=> IsCharger(u)
      BY <2>4 DEF IsCharger
    <3>4. CASE v = w
      <4>1. \A u \in Customers : IsCharger(u)' /\ requestId'[u] = requestId'[w] => u = w
        BY <3>1, <3>2, <3>3
      <4>2. web'[w].id \in Ids /\ key'[web'[w].id] = requestId'[w]
        BY <2>3, <2>4, <3>1
      <4> QED BY <2>4, <3>4, <4>1, <4>2 DEF ChargerOK
    <3>5. CASE v # w
      <4>1. web'[v] = web[v] /\ ChargerOK(v)
        BY <1>1, <2>4, <3>5 DEF AnyInv
      <4> QED BY <3>1, <3>2, <3>3, <3>5, <4>1 DEF ChargerOK
    <3> QED BY <3>4, <3>5
  <2> QED BY <1>1, <2>5, <2>6, <2>7, <2>8, <2>9, <2>10, <2>11 DEF IInv, AnyInv, Settling, Events
<1> QED BY <1>2, <1>3, <1>4 DEF Create

LEMMA ChargeStep ==
  ASSUME IInv, NEW w \in Customers, Charge(w), UNCHANGED scenario
  PROVE  IInv'
<1> DEFINE i == web[w].id
<1>1. /\ web[w].at = "charge" /\ UNCHANGED <<clock, rows, key, refunded, cron>>
      /\ TypeOK /\ AnyInv /\ WebOK(w) /\ i \in Ids /\ key[i] = requestId[w] /\ requestId[w] # NoKey
      /\ ChargerOK(w) /\ web[w].attempt \in 0 .. 1
      /\ web' = [web EXCEPT ![w].at = "wait", ![w].attempt = web[w].attempt + 1]
  BY FlowAssumption DEF Charge, IInv, AnyInv, TypeOK, WebOK, Reserved, requestId, ChargerOK
<1>2. /\ web' \in [Customers -> WebPlaces] /\ \A v \in Customers \ {w} : web'[v] = web[v]
      /\ web'[w].at = "wait" /\ web'[w].id = i /\ web'[w].attempt = web[w].attempt + 1
  <2> DEFINE to == [[web[w] EXCEPT !.at = "wait"] EXCEPT !.attempt = web[w].attempt + 1]
  <2>1. web[w] \in WebPlaces /\ web \in [Customers -> WebPlaces]
    BY <1>1 DEF TypeOK, WebPlaces
  <2>2. "wait" \in {"new"} \cup Working \cup Answers /\ web[w].attempt + 1 \in 0 .. 2
    BY <1>1 DEF Working
  <2>3. to \in WebPlaces /\ to.at = "wait" /\ to.id = i /\ to.attempt = web[w].attempt + 1
    BY <2>1, <2>2 DEF WebPlaces
  <2>4. web' = [web EXCEPT ![w] = to]
    BY <1>1
  <2> HIDE DEF to, i
  <2> QED BY <2>1, <2>3, <2>4
<1> HIDE DEF i
<1>3. /\ charge' \in [Ids -> Charges] /\ \A j \in Ids \ {i} : charge'[j] = charge[j]
      /\ charge'[i] = charge[i] \/ (charge[i] = "none" /\ charge'[i] = "sent")
  <2>1. charge' = [charge EXCEPT ![i] = IF charge[i] = "none" THEN "sent" ELSE charge[i]]
    BY DEF Charge, i
  <2> QED BY <1>1, <2>1 DEF TypeOK, Charges
<1>4. TypeOK'
  BY <1>1, <1>2, <1>3 DEF TypeOK, WebPlaces
<1>5. KeysUnique' /\ \A j \in Ids : KeyOK(j)'
  BY <1>1, <1>3 DEF AnyInv, KeysUnique, KeyOK
<1>6. \A v \in Customers : WebOK(v)'
  BY <1>1, <1>2 DEF AnyInv, WebOK, Reserved, requestId
<1>7. \A c \in Crons : CronOK(c)'
  BY <1>1 DEF AnyInv, CronOK
<1>8. ASSUME QuietInv PROVE QuietInv'
  <2>1. ChargingOK(w) /\ rows[i].status = "held" /\ clock < rows[i].deadline
    BY <1>1, <1>8 DEF QuietInv, ChargingOK, i
  <2>2. ASSUME NEW v \in Customers PROVE ChargingOK(v)'
    <3>1. web'[v].at \in {"charge", "wait"} =>
            web[v].at \in {"charge", "wait"} /\ web'[v].id = web[v].id
      BY <1>1, <1>2 DEF i
    <3>2. (web[v].at = "fail" => Untaken(web[v].id))'
      <4>1. web'[v].at = "fail" => web[v].id # i /\ web[v].id \in Ids /\ web'[v] = web[v]
        BY <1>1, <1>2, <1>8 DEF QuietInv, ChargingOK, Paying, i, AnyInv, WebOK, Reserved
      <4>2. web'[v].at = "fail" => Untaken(web[v].id)
        BY <1>8, <4>1 DEF QuietInv, ChargingOK
      <4> QED BY <1>3, <4>1, <4>2 DEF Untaken, Events
    <3>3. \A u \in Customers : web'[u].at \in Paying => web[u].at \in Paying /\ web'[u].id = web[u].id
      BY <1>1, <1>2 DEF Paying, i
    <3> QED BY <1>1, <1>3, <1>8, <3>1, <3>2, <3>3 DEF QuietInv, ChargingOK
  <2>3. \A j \in Ids : SentOK(j)'
    BY <1>1, <1>2, <1>3, <1>8 DEF QuietInv, SentOK
  <2>4. ASSUME NEW j \in Ids PROVE PaidOK(j)'
    <3>1. PaidOK(j)
      BY <1>8 DEF QuietInv
    <3>2. Obliged(j) => Obliged(j)'
      BY <1>1, <1>2 DEF Obliged, i
    <3>3. j = i => PaidOK(j)'
      BY <1>1, <2>1 DEF PaidOK, Obliged
    <3> QED BY <1>1, <1>3, <3>1, <3>2, <3>3 DEF PaidOK, Untaken, Events
  <2>5. ASSUME NEW c \in Crons PROVE ReleaseOK(c)'
    <3>1. cron[c].at = "release" => cron[c].id \in Ids \ {i}
      <4>1. CronOK(c)
        BY <1>1 DEF AnyInv
      <4>2. cron[c].at = "release" /\ cron[c].id = i => rows[i].deadline <= clock
        BY <2>1, <4>1 DEF CronOK
      <4>3. clock \in Nat /\ rows[i].deadline \in Nat
        BY <1>1, <2>1 DEF AnyInv, TypeOK, KeyOK
      <4> QED BY <2>1, <4>1, <4>2, <4>3 DEF CronOK
    <3> QED BY <1>1, <1>3, <1>8, <3>1 DEF QuietInv, ReleaseOK
  <2> QED BY <2>2, <2>3, <2>4, <2>5 DEF QuietInv
<1>9. \A v \in Customers : ChargerOK(v)'
  <2>1. \A v \in Customers : IsCharger(v)' => IsCharger(v) /\ web'[v].id = web[v].id
    BY <1>1, <1>2 DEF IsCharger, i
  <2>2. requestId' = requestId
    BY DEF requestId
  <2>3. \A v \in Customers :
          /\ web'[v].at \in {"new", "create", "repeat"} => web'[v].attempt = 0
          /\ web'[v].at = "charge" => web'[v].attempt \in 0 .. 1
    BY <1>1, <1>2 DEF AnyInv, ChargerOK
  <2> QED BY <1>1, <2>1, <2>2, <2>3 DEF AnyInv, ChargerOK
<1> QED BY <1>1, <1>4, <1>5, <1>6, <1>7, <1>8, <1>9 DEF IInv, AnyInv, Settling, Events
-----------------------------------------------------------------------------
(* The provider, and time. *)

\* The provider makes up its mind about payment i.
LEMMA ChargeDecided ==
  ASSUME AnyInv, NEW i \in Ids, charge[i] # "none", NEW outcome \in Charges,
         charge' = [charge EXCEPT ![i] = outcome],
         UNCHANGED <<clock, rows, key, refunded, web, cron, scenario>>
  PROVE  /\ AnyInv' /\ charge'[i] = outcome /\ \A j \in Ids \ {i} : charge'[j] = charge[j]
<1>1. /\ charge' \in [Ids -> Charges] /\ charge'[i] = outcome
      /\ \A j \in Ids \ {i} : charge'[j] = charge[j]
  BY DEF AnyInv, TypeOK
<1>2. TypeOK'
  BY <1>1 DEF AnyInv, TypeOK
<1>3. KeysUnique' /\ \A j \in Ids : KeyOK(j)'
  BY <1>1 DEF AnyInv, KeysUnique, KeyOK
<1>4. (\A w \in Customers : WebOK(w)') /\ \A w \in Customers : ChargerOK(w)'
  BY DEF AnyInv, WebOK, ChargerOK, IsCharger, requestId
<1>5. \A c \in Crons : CronOK(c)'
  BY DEF AnyInv, CronOK
<1> QED BY <1>1, <1>2, <1>3, <1>4, <1>5 DEF AnyInv

\* What is right of a payment that is still sent or pending is right of its outcome.
LEMMA QuietOutcome ==
  ASSUME AnyInv, QuietInv, NEW i \in Ids, charge[i] \in {"sent", "pending"},
         NEW outcome \in Charges \ {"sent"},
         charge'[i] = outcome, \A j \in Ids \ {i} : charge'[j] = charge[j],
         UNCHANGED <<clock, rows, key, refunded, web, cron, scenario>>,
         rows[i].status = "held",
         \A c \in Crons : cron[c].at = "release" => cron[c].id # i
  PROVE  QuietInv'
<1>1. ASSUME NEW w \in Customers PROVE ChargingOK(w)'
  <2>1. web[w].at = "fail" => web[w].id \in Ids /\ Untaken(web[w].id)
    BY DEF AnyInv, QuietInv, ChargingOK, WebOK, Reserved
  <2>2. web[w].at = "fail" => Untaken(web[w].id)'
    BY <2>1 DEF Untaken, Events
  <2> QED BY <2>2 DEF QuietInv, ChargingOK
<1>2. \A j \in Ids : SentOK(j)'
  BY DEF QuietInv, SentOK
<1>3. ASSUME NEW j \in Ids PROVE PaidOK(j)'
  <2>1. PaidOK(j) /\ (Obliged(j) => Obliged(j)')
    BY DEF QuietInv, Obliged
  <2>2. j = i => PaidOK(j)'
    BY DEF PaidOK, Obliged
  <2> QED BY <2>1, <2>2 DEF PaidOK, Untaken, Events
<1>4. ASSUME NEW c \in Crons PROVE ReleaseOK(c)'
  <2>1. cron[c].at = "release" => cron[c].id \in Ids \ {i}
    BY DEF AnyInv, CronOK
  <2> QED BY <2>1 DEF QuietInv, ReleaseOK
<1> QED BY <1>1, <1>2, <1>3, <1>4 DEF QuietInv

LEMMA ReceiveStep ==
  ASSUME IInv, NEW i \in Ids, Receive(i), UNCHANGED scenario
  PROVE  IInv'
<1>1. /\ AnyInv /\ charge[i] = "sent" /\ UNCHANGED <<clock, rows, key, refunded, web, cron, scenario>>
  BY DEF IInv, Receive
<1>2. PICK outcome \in Charges \ {"sent"} : charge' = [charge EXCEPT ![i] = outcome]
  BY DEF Receive, Charges
<1>3. /\ AnyInv' /\ charge'[i] = outcome /\ \A j \in Ids \ {i} : charge'[j] = charge[j]
  BY <1>1, <1>2, ChargeDecided
<1>4. ASSUME QuietInv PROVE QuietInv'
  <2>1. PICK w \in Customers : web[w].at = "wait" /\ web[w].id = i
    BY <1>1, <1>4 DEF QuietInv, SentOK
  <2>2. rows[i].status = "held" /\ clock < rows[i].deadline
    BY <1>4, <2>1 DEF QuietInv, ChargingOK
  <2>3. \A c \in Crons : cron[c].at = "release" => cron[c].id # i
    <3> SUFFICES ASSUME NEW c \in Crons, cron[c].at = "release", cron[c].id = i PROVE FALSE
      OBVIOUS
    <3>1. rows[i].deadline <= clock
      BY <1>1, <2>2 DEF AnyInv, CronOK
    <3>2. clock \in Nat /\ rows[i].deadline \in Nat
      BY <1>1, <2>2 DEF AnyInv, TypeOK, KeyOK
    <3> QED BY <2>2, <3>1, <3>2
  <2> QED BY <1>1, <1>3, <1>4, <2>2, <2>3, QuietOutcome
<1> QED BY <1>1, <1>3, <1>4 DEF IInv, Settling, Events

LEMMA SettleStep ==
  ASSUME IInv, NEW i \in Ids, Settle(i), UNCHANGED scenario
  PROVE  IInv'
<1>1. /\ AnyInv /\ charge[i] = "pending" /\ UNCHANGED <<clock, rows, key, refunded, web, cron, scenario>>
  BY DEF IInv, Settle
<1>2. PICK outcome \in Charges \ {"sent"} : charge' = [charge EXCEPT ![i] = outcome]
  BY DEF Settle, Charges
<1>3. /\ AnyInv' /\ charge'[i] = outcome /\ \A j \in Ids \ {i} : charge'[j] = charge[j]
  BY <1>1, <1>2, ChargeDecided
<1>4. ASSUME Settling, QuietInv PROVE QuietInv'
  <2>1. rows[i].status = "held" /\ clock < rows[i].deadline + Day
    BY <1>4 DEF Settle, Settling
  <2>2. \A c \in Crons : cron[c].at = "release" => cron[c].id # i
    <3> SUFFICES ASSUME NEW c \in Crons, cron[c].at = "release", cron[c].id = i PROVE FALSE
      OBVIOUS
    <3>1. rows[i].deadline + Day <= clock
      BY <1>1, <1>4, <2>1 DEF QuietInv, ReleaseOK
    <3>2. clock \in Nat /\ rows[i].deadline \in Nat /\ Day \in Nat
      BY <1>1, <2>1, FlowAssumption DEF AnyInv, TypeOK, KeyOK
    <3> QED BY <2>1, <3>1, <3>2
  <2> QED BY <1>1, <1>3, <1>4, <2>1, <2>2, QuietOutcome
<1> QED BY <1>1, <1>3, <1>4 DEF IInv, Settling, Events

LEMMA TickStep ==
  ASSUME IInv, Tick, UNCHANGED scenario
  PROVE  IInv'
<1>1. /\ UNCHANGED <<rows, key, charge, refunded, web, cron, scenario>> /\ clock' = clock + 1
      /\ TypeOK /\ AnyInv /\ clock \in Nat
  BY DEF Tick, IInv, AnyInv, TypeOK
<1>2. TypeOK'
  BY <1>1 DEF TypeOK
<1>3. /\ KeysUnique' /\ \A i \in Ids : KeyOK(i)'
      /\ \A w \in Customers : WebOK(w)' /\ ChargerOK(w)'
  BY <1>1 DEF AnyInv, KeysUnique, KeyOK, WebOK, ChargerOK, IsCharger, requestId
<1>4. ASSUME NEW c \in Crons PROVE CronOK(c)'
  <2>1. CronOK(c) /\ cron[c].now \in Nat
    BY <1>1 DEF AnyInv, TypeOK
  <2>2. cron[c].id \in Ids /\ rows[cron[c].id].status = "held" => rows[cron[c].id].deadline \in Nat
    BY <1>1 DEF AnyInv, KeyOK
  <2> QED BY <1>1, <2>1, <2>2 DEF CronOK
<1>5. ASSUME Settling, QuietInv PROVE QuietInv'
  <2>1. \A w \in Customers : web[w].at \in {"charge", "wait"} => clock + 1 < rows[web[w].id].deadline
    BY <1>5 DEF Tick, Settling
  <2>2. \A w \in Customers : ChargingOK(w)'
    BY <1>1, <1>5, <2>1 DEF QuietInv, ChargingOK, Untaken, Events
  <2>3. (\A i \in Ids : SentOK(i)') /\ \A i \in Ids : PaidOK(i)'
    BY <1>1, <1>5 DEF QuietInv, SentOK, PaidOK, Obliged, Untaken, Events
  <2>4. ASSUME NEW c \in Crons PROVE ReleaseOK(c)'
    <3>1. cron[c].at = "release" => cron[c].id \in Ids
      BY <1>1 DEF AnyInv, CronOK
    <3>2. cron[c].id \in Ids /\ rows[cron[c].id].status = "held" =>
            rows[cron[c].id].deadline + Day \in Nat
      BY <1>1, FlowAssumption DEF AnyInv, KeyOK
    <3> QED BY <1>1, <1>5, <3>1, <3>2 DEF QuietInv, ReleaseOK
  <2> QED BY <2>2, <2>3, <2>4 DEF QuietInv
<1> QED BY <1>1, <1>2, <1>3, <1>4, <1>5 DEF IInv, AnyInv, Settling, Events
-----------------------------------------------------------------------------
(* Cron. *)

CronPlaces == [at : {"idle", "look", "release", "confirm", "refund"},
               list : SUBSET [id : Ids, due : Nat], now : Nat, id : Ids \cup {NoId}]

\* A run of cron that is done with a reservation has no other in hand.
LEMMA DoneWithFacts ==
  ASSUME TypeOK, NEW c \in Crons, NEW i, DoneWith(c, i)
  PROVE  /\ cron' \in [Crons -> CronPlaces] /\ \A d \in Crons \ {c} : cron'[d] = cron[d]
         /\ cron'[c].at \in {"idle", "look"} /\ cron'[c].id = NoId
         /\ cron'[c].now = cron[c].now /\ cron'[c].list \subseteq cron[c].list
<1> DEFINE rest == {h \in cron[c].list : h.id # i}
           to == [at |-> IF rest = {} THEN "idle" ELSE "look", list |-> rest,
                  now |-> cron[c].now, id |-> NoId]
<1>1. cron \in [Crons -> CronPlaces]
  BY DEF TypeOK, CronPlaces
<1>2. /\ to \in CronPlaces /\ to.at \in {"idle", "look"} /\ to.id = NoId /\ to.now = cron[c].now
      /\ to.list \subseteq cron[c].list
  BY <1>1 DEF CronPlaces
<1>3. cron' = [cron EXCEPT ![c] = to]
  BY DEF DoneWith
<1> HIDE DEF to
<1> QED BY <1>1, <1>2, <1>3

\* A run of cron turns to reservation i of its list.
LEMMA CronTo ==
  ASSUME TypeOK, NEW c \in Crons, NEW i \in Ids, NEW place \in {"release", "confirm"},
         cron' = [cron EXCEPT ![c].at = place, ![c].id = i]
  PROVE  /\ cron' \in [Crons -> CronPlaces] /\ \A d \in Crons \ {c} : cron'[d] = cron[d]
         /\ cron'[c].at = place /\ cron'[c].id = i
         /\ cron'[c].now = cron[c].now /\ cron'[c].list = cron[c].list
<1> DEFINE to == [[cron[c] EXCEPT !.at = place] EXCEPT !.id = i]
<1>1. cron \in [Crons -> CronPlaces]
  BY DEF TypeOK, CronPlaces
<1>2. /\ to \in CronPlaces /\ to.at = place /\ to.id = i
      /\ to.now = cron[c].now /\ to.list = cron[c].list
  BY <1>1 DEF CronPlaces
<1>3. cron' = [cron EXCEPT ![c] = to]
  OBVIOUS
<1> HIDE DEF to
<1> QED BY <1>1, <1>2, <1>3

\* A run that is as right as before when it goes on with what it had.
LEMMA CronKept ==
  ASSUME AnyInv, NEW c \in Crons, UNCHANGED <<clock, key>>, \A i \in Ids : Fate(i),
         cron'[c].now = cron[c].now, cron'[c].list \subseteq cron[c].list,
         cron'[c].at \in {"release", "confirm", "refund"} =>
           /\ cron'[c].id \in Ids /\ key[cron'[c].id] # NoKey
           /\ rows'[cron'[c].id].status = "held" => rows'[cron'[c].id].deadline <= clock
  PROVE  CronOK(c)'
<1>1. \A h \in cron[c].list : h.id \in Ids
  BY DEF AnyInv, TypeOK
<1> QED BY <1>1 DEF AnyInv, CronOK, Fate

\* A run that changes nothing but itself.
LEMMA CronGoes ==
  ASSUME AnyInv, NEW c \in Crons, UNCHANGED <<clock, rows, key, charge, web, scenario>>,
         refunded' \subseteq Ids, cron' \in [Crons -> CronPlaces],
         \A d \in Crons \ {c} : cron'[d] = cron[d], CronOK(c)'
  PROVE  AnyInv'
<1>1. TypeOK'
  BY DEF AnyInv, TypeOK, CronPlaces
<1>2. \A i \in Ids : Fate(i)
  BY DEF Fate
<1> QED BY <1>1, <1>2, Unaffected DEF AnyInv

LEMMA ListOverdueStep ==
  ASSUME IInv, NEW c \in Crons, ListOverdue(c), UNCHANGED scenario
  PROVE  IInv'
<1>1. /\ cron[c].at = "idle" /\ UNCHANGED <<clock, rows, key, charge, refunded, web>>
      /\ TypeOK /\ AnyInv
  BY DEF ListOverdue, IInv, AnyInv
<1>2. \A i \in Overdue(rows, clock) :
        /\ i \in Ids /\ rows[i].deadline \in Nat /\ rows[i].deadline <= clock
        /\ key[i] # NoKey
  BY <1>1 DEF Overdue, AnyInv, KeyOK
<1>3. /\ cron' \in [Crons -> CronPlaces] /\ \A d \in Crons \ {c} : cron'[d] = cron[d]
      /\ cron'[c].at = "look" /\ cron'[c].now = clock
      /\ cron'[c].list = {[id |-> i, due |-> rows[i].deadline] : i \in Overdue(rows, clock)}
  <2> DEFINE list == {[id |-> i, due |-> rows[i].deadline] : i \in Overdue(rows, clock)}
             to == [at |-> "look", now |-> clock, id |-> NoId, list |-> list]
  <2>1. list \subseteq [id : Ids, due : Nat]
    BY <1>2
  <2>2. cron' = [cron EXCEPT ![c] = to]
    BY DEF ListOverdue
  <2>3. cron \in [Crons -> CronPlaces] /\ clock \in Nat
    BY <1>1 DEF TypeOK, CronPlaces
  <2>4. to.at = "look" /\ to.now = clock /\ to.list = list
    OBVIOUS
  <2>5. to \in CronPlaces
    <3> HIDE DEF list
    <3> QED BY <2>1, <2>3 DEF CronPlaces
  <2> HIDE DEF to
  <2>6. cron' \in [Crons -> CronPlaces] /\ (\A d \in Crons \ {c} : cron'[d] = cron[d]) /\ cron'[c] = to
    BY <2>2, <2>3, <2>5
  <2> QED BY <2>4, <2>6
<1>4. CronOK(c)'
  <2>1. \A h \in cron'[c].list : \E i \in Overdue(rows, clock) : h.id = i /\ h.due = rows[i].deadline
    BY <1>3
  <2>2. clock' <= clock'
    BY <1>1 DEF TypeOK
  <2> QED BY <1>1, <1>2, <1>3, <2>1, <2>2 DEF CronOK
<1>5. AnyInv'
  BY <1>1, <1>3, <1>4, CronGoes DEF TypeOK
<1>6. QuietInv => QuietInv'
  <2>1. ReleaseOK(c)'
    BY <1>3 DEF ReleaseOK
  <2> QED BY <1>1, <1>3, <2>1, QuietCron
<1> QED BY <1>1, <1>5, <1>6 DEF IInv, Settling, Events

LEMMA LookUpStep ==
  ASSUME IInv, NEW c \in Crons, NEW i \in Ids, LookUp(c, i) \/ LookUpFails(c, i), UNCHANGED scenario
  PROVE  IInv'
<1>1. /\ cron[c].at = "look" /\ UNCHANGED <<clock, rows, key, charge, refunded, web>>
      /\ TypeOK /\ AnyInv /\ CronOK(c) /\ refunded \subseteq Ids
  BY DEF LookUp, LookUpFails, IInv, AnyInv, TypeOK
<1>2. \A j \in Ids : Fate(j)
  BY <1>1 DEF Fate
<1>3. ASSUME DoneWith(c, i) PROVE IInv'
  <2>1. /\ cron' \in [Crons -> CronPlaces] /\ \A d \in Crons \ {c} : cron'[d] = cron[d]
        /\ cron'[c].at \in {"idle", "look"}
        /\ cron'[c].now = cron[c].now /\ cron'[c].list \subseteq cron[c].list
    BY <1>1, <1>3, DoneWithFacts
  <2>2. CronOK(c)'
    BY <1>1, <1>2, <2>1, CronKept
  <2>3. AnyInv'
    BY <1>1, <2>1, <2>2, CronGoes
  <2>4. QuietInv => QuietInv'
    <3>1. ReleaseOK(c)'
      BY <2>1 DEF ReleaseOK
    <3> QED BY <1>1, <2>1, <3>1, QuietCron
  <2> QED BY <1>1, <2>3, <2>4 DEF IInv, Settling, Events
<1>4. ASSUME NEW h \in cron[c].list, h.id = i, NEW place \in {"release", "confirm"},
             cron' = [cron EXCEPT ![c].at = place, ![c].id = i],
             place = "release" =>
               charge[i] # "completed" /\ (charge[i] = "pending" => h.due + Day <= cron[c].now)
      PROVE  IInv'
  <2>1. /\ cron' \in [Crons -> CronPlaces] /\ \A d \in Crons \ {c} : cron'[d] = cron[d]
        /\ cron'[c].at = place /\ cron'[c].id = i
        /\ cron'[c].now = cron[c].now /\ cron'[c].list \subseteq cron[c].list
    BY <1>1, <1>4, CronTo
  <2>2. /\ key[i] # NoKey /\ h.due <= cron[c].now /\ cron[c].now <= clock
        /\ rows[i].status = "held" => rows[i].deadline = h.due
    BY <1>1, <1>4 DEF CronOK
  <2>3. h.due \in Nat /\ cron[c].now \in Nat /\ clock \in Nat /\ Day \in Nat
    BY <1>1, FlowAssumption DEF TypeOK
  <2>4. CronOK(c)'
    BY <1>1, <1>2, <2>1, <2>2, <2>3, CronKept
  <2>5. AnyInv'
    BY <1>1, <2>1, <2>4, CronGoes
  <2>6. QuietInv => QuietInv'
    <3>1. ReleaseOK(c)'
      BY <1>1, <1>4, <2>1, <2>2, <2>3 DEF ReleaseOK
    <3> QED BY <1>1, <2>1, <3>1, QuietCron
  <2> QED BY <1>1, <2>5, <2>6 DEF IInv, Settling, Events
<1>5. CASE LookUpFails(c, i)
  BY <1>3, <1>5 DEF LookUpFails
<1>6. CASE LookUp(c, i)
  BY <1>3, <1>4, <1>6 DEF LookUp
<1> QED BY <1>5, <1>6

LEMMA CronRefundStep ==
  ASSUME IInv, NEW c \in Crons, CronRefund(c), UNCHANGED scenario
  PROVE  IInv'
<1>1. /\ cron[c].at = "refund" /\ UNCHANGED <<clock, rows, key, charge, web>>
      /\ TypeOK /\ AnyInv /\ CronOK(c) /\ refunded \subseteq Ids /\ cron[c].id \in Ids
      /\ RefundsTo(cron[c].id) /\ DoneWith(c, cron[c].id)
  BY DEF CronRefund, IInv, AnyInv, TypeOK, CronOK
<1>2. \A j \in Ids : Fate(j)
  BY <1>1 DEF Fate
<1>3. /\ refunded \subseteq refunded' /\ refunded' \subseteq Ids
      /\ Settling => cron[c].id \in refunded'
  BY <1>1 DEF RefundsTo, Settling
<1>4. /\ cron' \in [Crons -> CronPlaces] /\ \A d \in Crons \ {c} : cron'[d] = cron[d]
      /\ cron'[c].at \in {"idle", "look"}
      /\ cron'[c].now = cron[c].now /\ cron'[c].list \subseteq cron[c].list
  BY <1>1, DoneWithFacts
<1>5. CronOK(c)'
  BY <1>1, <1>2, <1>4, CronKept
<1>6. AnyInv'
  BY <1>1, <1>3, <1>4, <1>5, CronGoes
<1>7. Settling /\ QuietInv => QuietInv'
  <2>1. ReleaseOK(c)'
    BY <1>4 DEF ReleaseOK
  <2> QED BY <1>1, <1>3, <1>4, <2>1, QuietCron
<1> QED BY <1>6, <1>7 DEF IInv, Settling, Events

LEMMA CronDiesStep ==
  ASSUME IInv, NEW c \in Crons, CronDies(c), UNCHANGED scenario
  PROVE  IInv'
<1>1. /\ UNCHANGED <<clock, rows, key, charge, refunded, web>> /\ ~ Settling
      /\ TypeOK /\ AnyInv /\ clock \in Nat /\ refunded \subseteq Ids
  BY DEF CronDies, IInv, AnyInv, TypeOK, Settling
<1>2. /\ cron' \in [Crons -> CronPlaces] /\ \A d \in Crons \ {c} : cron'[d] = cron[d]
      /\ cron'[c].at = "idle" /\ cron'[c].list = {} /\ cron'[c].now = 0
  <2> DEFINE to == [at |-> "idle", list |-> {}, now |-> 0, id |-> NoId]
  <2>1. to \in CronPlaces /\ to.at = "idle" /\ to.list = {} /\ to.now = 0
    BY DEF CronPlaces
  <2>2. cron' = [cron EXCEPT ![c] = to] /\ cron \in [Crons -> CronPlaces]
    BY <1>1 DEF CronDies, TypeOK, CronPlaces
  <2> HIDE DEF to
  <2> QED BY <2>1, <2>2
<1>3. CronOK(c)'
  BY <1>1, <1>2 DEF CronOK
<1>4. AnyInv'
  BY <1>1, <1>2, <1>3, CronGoes
<1> QED BY <1>1, <1>4 DEF IInv, Settling, Events

\* No request charges for a hold that a run of cron has in hand.
LEMMA NobodyCharges ==
  ASSUME AnyInv, QuietInv, NEW c \in Crons, cron[c].at \in {"release", "confirm", "refund"},
         NEW w \in Customers, web[w].id = cron[c].id
  PROVE  web[w].at \notin {"charge", "wait"}
<1> SUFFICES ASSUME web[w].at \in {"charge", "wait"} PROVE FALSE
  OBVIOUS
<1> DEFINE i == cron[c].id
<1>1. i \in Ids /\ rows[i].status = "held" /\ clock < rows[i].deadline
  BY DEF AnyInv, CronOK, QuietInv, ChargingOK
<1>2. rows[i].deadline <= clock /\ rows[i].deadline \in Nat /\ clock \in Nat
  BY <1>1 DEF AnyInv, CronOK, KeyOK, TypeOK
<1> QED BY <1>1, <1>2

LEMMA ReleaseStep ==
  ASSUME IInv, NEW c \in Crons, Release(c), UNCHANGED scenario
  PROVE  IInv'
<1> DEFINE i == cron[c].id
<1>1. /\ cron[c].at = "release" /\ UNCHANGED <<clock, key, charge, refunded, web>>
      /\ TypeOK /\ AnyInv /\ CronOK(c) /\ i \in Ids /\ rows[i] \in Row /\ DoneWith(c, i)
      /\ rows' = IF rows[i].status = "held"
                 THEN [rows EXCEPT ![i] = Transition(rows[i], "expired")] ELSE rows
  BY DEF Release, IInv, AnyInv, TypeOK, CronOK
<1>2. /\ cron' \in [Crons -> CronPlaces] /\ \A d \in Crons \ {c} : cron'[d] = cron[d]
      /\ cron'[c].at \in {"idle", "look"}
      /\ cron'[c].now = cron[c].now /\ cron'[c].list \subseteq cron[c].list
  BY <1>1, DoneWithFacts
<1> HIDE DEF i
<1>3. /\ rows' \in [Ids -> Row] /\ \A j \in Ids \ {i} : rows'[j] = rows[j]
      /\ IF rows[i].status = "held" THEN rows'[i].status = "expired" ELSE rows' = rows
  <2> DEFINE row == Transition(rows[i], "expired")
  <2>1. row \in Row /\ row.status = "expired"
    BY <1>1, RowsMade DEF Status
  <2>2. CASE rows[i].status = "held"
    <3>1. rows' = [rows EXCEPT ![i] = row]
      BY <1>1, <2>2
    <3> HIDE DEF row
    <3> QED BY <1>1, <2>1, <2>2, <3>1, RowWritten
  <2> QED BY <1>1, <2>2 DEF TypeOK
<1>4. \A j \in Ids : Fate(j)
  BY <1>3 DEF Fate
<1>5. CronOK(c)'
  BY <1>1, <1>2, <1>4, CronKept
<1>6. AnyInv'
  <2>1. TypeOK'
    BY <1>1, <1>2, <1>3 DEF TypeOK, CronPlaces
  <2> QED BY <1>1, <1>2, <1>4, <1>5, <2>1, Unaffected DEF AnyInv
<1>7. ASSUME QuietInv PROVE QuietInv'
  <2>1. CASE rows[i].status = "held"
    <3>1. charge[i] # "completed"
      BY <1>1, <1>7, <2>1 DEF QuietInv, ReleaseOK, i
    <3>2. \A w \in Customers : web[w].id = i => web'[w].at \notin {"charge", "wait"}
      BY <1>1, <1>7, NobodyCharges DEF i
    <3>3. \A d \in Crons :
            \/ cron'[d] = cron[d]
            \/ /\ cron[d].id = i /\ cron'[d].at # "release"
               /\ cron'[d].at = "refund" => cron'[d].id = i
      BY <1>2 DEF i
    <3>4. rows'[i].status = "expired"
      BY <1>3, <2>1
    <3>5. \A w \in Customers : web'[w] = web[w]
      BY <1>1
    <3> QED BY <1>1, <1>3, <1>7, <3>1, <3>2, <3>3, <3>4, <3>5, QuietRow
  <2>2. CASE rows[i].status # "held"
    <3>1. rows' = rows /\ ReleaseOK(c)'
      BY <1>2, <1>3, <2>2 DEF ReleaseOK
    <3> QED BY <1>1, <1>2, <1>7, <3>1, QuietCron
  <2> QED BY <2>1, <2>2
<1> QED BY <1>1, <1>6, <1>7 DEF IInv, Settling, Events

LEMMA ReconcileStep ==
  ASSUME IInv, NEW c \in Crons, Reconcile(c), UNCHANGED scenario
  PROVE  IInv'
<1> DEFINE i == cron[c].id
<1>1. /\ cron[c].at = "confirm" /\ UNCHANGED <<clock, key, charge, refunded, web>>
      /\ TypeOK /\ AnyInv /\ CronOK(c) /\ i \in Ids /\ key[i] # NoKey /\ ConfirmPayment(i)
      /\ IF Outcome(i) = "hold_expired" THEN cron' = [cron EXCEPT ![c].at = "refund"]
                                        ELSE DoneWith(c, i)
  BY DEF Reconcile, IInv, AnyInv, CronOK
<1>2. /\ cron' \in [Crons -> CronPlaces] /\ \A d \in Crons \ {c} : cron'[d] = cron[d]
      /\ cron'[c].now = cron[c].now /\ cron'[c].list \subseteq cron[c].list
      /\ IF Outcome(i) = "hold_expired" THEN cron'[c].at = "refund" /\ cron'[c].id = i
                                        ELSE cron'[c].at \in {"idle", "look"}
  <2>1. CASE Outcome(i) = "hold_expired"
    <3> DEFINE to == [cron[c] EXCEPT !.at = "refund"]
    <3>1. cron \in [Crons -> CronPlaces] /\ cron' = [cron EXCEPT ![c] = to]
      BY <1>1, <2>1 DEF TypeOK, CronPlaces
    <3>2. /\ to \in CronPlaces /\ to.at = "refund" /\ to.id = i /\ to.now = cron[c].now
          /\ to.list = cron[c].list
      BY <3>1 DEF CronPlaces
    <3> HIDE DEF to, i
    <3> QED BY <2>1, <3>1, <3>2
  <2>2. CASE Outcome(i) # "hold_expired"
    BY <1>1, <2>2, DoneWithFacts
  <2> QED BY <2>1, <2>2
<1> HIDE DEF i
<1>3. /\ rows' \in [Ids -> Row] /\ \A j \in Ids \ {i} : rows'[j] = rows[j]
      /\ \A j \in Ids : Fate(j)
      /\ rows'[i].status # "held"
      /\ rows'[i].status \in {"payment_failed", "cancelled"} => rows'[i] = rows[i]
      /\ \/ Outcome(i) \in {"pay", "repeat"} /\ rows'[i].payment = i
         \/ Outcome(i) = "hold_expired"
         \/ /\ Outcome(i) = "wrong_status" /\ rows[i].status \in {"payment_failed", "cancelled"}
            /\ rows'[i] = rows[i]
  BY <1>1, ConfirmPaymentFacts
<1>4. CronOK(c)'
  BY <1>1, <1>2, <1>3, CronKept
<1>5. AnyInv'
  <2>1. TypeOK'
    BY <1>1, <1>2, <1>3 DEF TypeOK, CronPlaces
  <2> QED BY <1>1, <1>2, <1>3, <1>4, <2>1, Unaffected DEF AnyInv
<1>6. ASSUME QuietInv PROVE QuietInv'
  <2>1. \A w \in Customers : web[w].id = i => web'[w].at \notin {"charge", "wait"}
    BY <1>1, <1>6, NobodyCharges DEF i
  <2>2. rows'[i].status # "cancelled" /\ (rows'[i].status = "payment_failed" => Untaken(i))
    BY <1>1, <1>3, <1>6 DEF QuietInv, PaidOK
  <2>3. \A d \in Crons :
          \/ cron'[d] = cron[d]
          \/ /\ cron[d].id = i /\ cron'[d].at # "release"
             /\ cron'[d].at = "refund" => cron'[d].id = i
    BY <1>2 DEF i
  <2>4. charge[i] = "completed" =>
          rows'[i].payment = i \/ Owed(i) \/ rows'[i].status = "payment_failed"
    <3>1. cron'[c].id = i /\ cron'[c].at = "refund" => Owed(i)
      BY DEF Owed
    <3>2. rows[i].status # "cancelled"
      BY <1>1, <1>6 DEF QuietInv, PaidOK
    <3> QED BY <1>1, <1>2, <1>3, <3>1, <3>2
  <2>5. \A w \in Customers : web'[w] = web[w]
    BY <1>1
  <2> QED BY <1>1, <1>3, <1>6, <2>1, <2>2, <2>3, <2>4, <2>5, QuietRow
<1> QED BY <1>1, <1>5, <1>6 DEF IInv, Settling, Events
-----------------------------------------------------------------------------
(* Staff. *)

LEMMA CancelStep ==
  ASSUME IInv, NEW i \in Ids, Cancel(i), UNCHANGED scenario
  PROVE  IInv'
<1>1. /\ UNCHANGED <<clock, key, charge, refunded, web, cron>> /\ ~ Settling
      /\ TypeOK /\ AnyInv /\ rows[i] \in Row /\ rows[i].status \in {"held", "confirmed"}
      /\ rows' = [rows EXCEPT ![i] = Transition(rows[i], "cancelled")]
  BY DEF Cancel, IInv, AnyInv, TypeOK, Settling
<1>2. /\ rows' \in [Ids -> Row] /\ \A j \in Ids \ {i} : rows'[j] = rows[j]
      /\ rows'[i].status = "cancelled" /\ rows'[i].payment = rows[i].payment
  <2> DEFINE row == Transition(rows[i], "cancelled")
  <2>1. row \in Row /\ row.status = "cancelled" /\ row.payment = rows[i].payment
    BY <1>1, RowsMade DEF Status
  <2>2. rows' = [rows EXCEPT ![i] = row]
    BY <1>1
  <2> HIDE DEF row
  <2> QED BY <1>1, <2>1, <2>2, RowWritten
<1>3. \A j \in Ids : Fate(j)
  BY <1>1, <1>2 DEF Fate
<1>4. TypeOK'
  BY <1>1, <1>2 DEF TypeOK
<1>5. AnyInv'
  BY <1>1, <1>3, <1>4, Unaffected DEF AnyInv
<1> QED BY <1>1, <1>5 DEF IInv, Settling, Events

LEMMA BookStep ==
  ASSUME IInv, NEW i \in Ids, NEW q \in Requests, Book(i, q), UNCHANGED scenario
  PROVE  IInv'
<1>1. /\ UNCHANGED <<clock, key, charge, refunded, web, cron>>
      /\ TypeOK /\ AnyInv /\ rows[i].status = "none" /\ key[i] = NoKey /\ charge[i] = "none"
  BY DEF Book, IInv, AnyInv, KeyOK
<1>2. /\ rows' \in [Ids -> Row] /\ \A j \in Ids \ {i} : rows'[j] = rows[j]
      /\ rows'[i].status = "confirmed"
  <2>1. PICK chosen \in Placements(q) : rows' = [rows EXCEPT ![i] = NewRow(q, chosen, NoDeadline)]
    BY DEF Book
  <2> DEFINE row == NewRow(q, chosen, NoDeadline)
  <2>2. row \in Row /\ row.status = "confirmed"
    BY NewRowMade
  <2>3. rows' = [rows EXCEPT ![i] = row]
    BY <2>1
  <2> HIDE DEF row
  <2> QED BY <1>1, <2>2, <2>3, RowWritten
<1>3. TypeOK'
  BY <1>1, <1>2 DEF TypeOK
<1>4. KeysUnique' /\ \A j \in Ids : KeyOK(j)'
  BY <1>1, <1>2 DEF AnyInv, KeysUnique, KeyOK
<1>5. \A v \in Customers : web[v].at \in Reserved => web[v].id \in Ids \ {i}
  <2> SUFFICES ASSUME NEW v \in Customers, web[v].at \in Reserved PROVE web[v].id \in Ids \ {i}
    OBVIOUS
  <2>1. requestId[v] # NoKey
    BY <1>1, FlowAssumption DEF TypeOK, requestId
  <2> QED BY <1>1, <2>1 DEF AnyInv, WebOK
<1>6. \A w \in Customers : WebOK(w)' /\ ChargerOK(w)'
  BY <1>1, <1>2, <1>5 DEF AnyInv, WebOK, ChargerOK, IsCharger, Reserved, requestId
<1>7. \A c \in Crons : cron[c].at \in {"release", "confirm", "refund"} => cron[c].id \in Ids \ {i}
  BY <1>1 DEF AnyInv, CronOK
<1>8. ASSUME NEW c \in Crons PROVE CronOK(c)'
  <2>1. CronOK(c) /\ \A h \in cron[c].list : h.id \in Ids
    BY <1>1 DEF AnyInv, TypeOK
  <2>2. \A h \in cron[c].list : h.id \in Ids \ {i}
    BY <1>1, <2>1 DEF CronOK
  <2> QED BY <1>1, <1>2, <1>7, <2>1, <2>2 DEF CronOK
<1>9. ASSUME QuietInv PROVE QuietInv'
  <2>1. \A w \in Customers : ChargingOK(w)'
    BY <1>1, <1>2, <1>5, <1>9 DEF QuietInv, ChargingOK, Reserved, Untaken, Events
  <2>2. \A j \in Ids : SentOK(j)'
    BY <1>1, <1>9 DEF QuietInv, SentOK
  <2>3. ASSUME NEW j \in Ids PROVE PaidOK(j)'
    <3>1. PaidOK(j)
      BY <1>9 DEF QuietInv
    <3>2. j # i /\ Obliged(j) => Obliged(j)'
      BY <1>1, <1>2 DEF Obliged
    <3> QED BY <1>1, <1>2, <3>1, <3>2 DEF PaidOK, Untaken, Events
  <2>4. \A c \in Crons : ReleaseOK(c)'
    BY <1>1, <1>2, <1>7, <1>9 DEF QuietInv, ReleaseOK
  <2> QED BY <2>1, <2>2, <2>3, <2>4 DEF QuietInv
<1> QED BY <1>1, <1>3, <1>4, <1>6, <1>8, <1>9 DEF IInv, AnyInv, Settling, Events
-----------------------------------------------------------------------------
(* The theorems. *)

LEMMA Start == Init => IInv
<1> SUFFICES ASSUME Init PROVE IInv
  OBVIOUS
<1>1. TypeOK
  <2>1. NoKey \in Keys \cup {NoKey} /\ "none" \in Charges
    BY DEF Charges
  <2>2. rows \in [Ids -> Row]
    BY RowsMade DEF Init
  <2>3. web \in [Customers -> WebPlaces]
    BY DEF Init, WebPlaces
  <2>4. cron \in [Crons -> CronPlaces]
    BY DEF Init, CronPlaces
  <2> QED BY <2>1, <2>2, <2>3, <2>4 DEF Init, TypeOK, WebPlaces, CronPlaces
<1>2. \A i \in Ids : rows[i].status = "none" /\ key[i] = NoKey /\ charge[i] = "none"
  BY RowsMade DEF Init
<1>3. \A w \in Customers : web[w].at = "new" /\ web[w].attempt = 0
  BY DEF Init
<1>4. \A c \in Crons : cron[c].at = "idle" /\ cron[c].list = {} /\ cron[c].now = 0 /\ clock = 0
  BY DEF Init
<1>5. AnyInv
  BY <1>1, <1>2, <1>3, <1>4 DEF AnyInv, KeysUnique, KeyOK, WebOK, ChargerOK, IsCharger,
                                   Reserved, CronOK
<1>6. QuietInv
  BY <1>2, <1>3, <1>4 DEF QuietInv, ChargingOK, Paying, SentOK, PaidOK, ReleaseOK
<1> QED BY <1>5, <1>6 DEF IInv

LEMMA NextKeeps == IInv /\ [Next]_vars => IInv'
<1> SUFFICES ASSUME IInv, [Next]_vars PROVE IInv'
  OBVIOUS
<1>1. CASE UNCHANGED vars
  <2>1. AnyInv'
    BY <1>1 DEF vars, IInv, AnyInv, TypeOK, KeysUnique, KeyOK, WebOK, ChargerOK, IsCharger,
                Reserved, CronOK, requestId
  <2>2. QuietInv => QuietInv'
    BY <1>1 DEF vars, QuietInv, ChargingOK, Paying, SentOK, PaidOK, Untaken, Obliged, ReleaseOK, Events
  <2> QED BY <1>1, <2>1, <2>2 DEF vars, IInv, Settling, Events
<1>2. CASE Next
  <2> USE <1>2 DEF Next, Tonight
  <2>1. ASSUME NEW w \in Customers, Submit(w) \/ Die(w) PROVE IInv'
    BY <2>1, SubmitStep, DieStep
  <2>2. ASSUME NEW w \in Customers, Step(w) PROVE IInv'
    BY <2>2, CreateStep, RepeatStep, ChargeStep, AnsweredStep, RefusedStep, ConfirmStep,
       RefundStep, FailPaymentStep DEF Step
  <2>3. ASSUME NEW i \in Ids, Receive(i) \/ Settle(i) \/ Cancel(i) PROVE IInv'
    BY <2>3, ReceiveStep, SettleStep, CancelStep
  <2>4. ASSUME NEW c \in Crons, ListOverdue(c) \/ Settles(c) \/ CronDies(c) PROVE IInv'
    BY <2>4, ListOverdueStep, ReleaseStep, ReconcileStep, CronRefundStep, CronDiesStep DEF Settles
  <2>5. ASSUME NEW c \in Crons, NEW i \in Ids, LookUp(c, i) \/ LookUpFails(c, i) PROVE IInv'
    BY <2>5, LookUpStep
  <2>6. ASSUME NEW i \in Ids, NEW q \in Requests, Book(i, q) PROVE IInv'
    BY <2>6, BookStep
  <2>7. CASE Tick
    BY <2>7, TickStep
  <2> QED BY <2>1, <2>2, <2>3, <2>4, <2>5, <2>6, <2>7 DEF Acts
<1> QED BY <1>1, <1>2

\* The inductive invariant holds always.
LEMMA FlowAlways == Spec => []IInv
BY Start, NextKeeps, PTL DEF Spec

\* The rows, charges, requests and cron runs keep their types (BookingFlow.php,
\* Reservations.php reconcileHolds).
THEOREM FlowTypesKept == Spec => []TypeOK
<1>1. IInv => TypeOK
  BY DEF IInv, AnyInv
<1> QED BY <1>1, FlowAlways, PTL

\* However often an attempt to book is submitted, one of its submissions sends its
\* charges, and only for the one reservation the attempt has (the unique request_id,
\* idForRequest and repeat, which never charges).
THEOREM AttemptsAreChargedOnce == Spec => []ChargedOnce
<1>1. IInv => ChargedOnce
  <2> SUFFICES ASSUME IInv, NEW w \in Customers, web[w].attempt > 0
               PROVE  /\ Taken(requestId[w]) = {web[w].id}
                      /\ \A v \in Customers \ {w} : requestId[v] = requestId[w] => web[v].attempt = 0
    BY DEF ChargedOnce
  <2>1. TypeOK /\ KeysUnique /\ ChargerOK(w) /\ requestId[w] # NoKey
    BY FlowAssumption DEF IInv, AnyInv, TypeOK, requestId
  <2>2. web[w].id \in Ids /\ key[web[w].id] = requestId[w]
    BY <2>1 DEF ChargerOK, IsCharger
  <2>3. Taken(requestId[w]) = {web[w].id}
    BY <2>1, <2>2 DEF Taken, KeysUnique
  <2>4. \A v \in Customers \ {w} : requestId[v] = requestId[w] => ~ (web[v].attempt > 0)
    BY <2>1 DEF ChargerOK, IsCharger
  <2>5. \A v \in Customers : web[v].attempt \in 0 .. 2
    BY <2>1 DEF TypeOK
  <2> QED BY <2>3, <2>4, <2>5
<1> QED BY <1>1, FlowAlways, PTL

\* A customer told that the booking is confirmed has it, paid, until staff cancel it
\* (BookingFlow confirm and repeat).
THEOREM PromisesAreKept == Spec => []ConfirmedIsKept
<1>1. IInv => ConfirmedIsKept
  BY DEF IInv, AnyInv, ConfirmedIsKept, WebOK, Reserved
<1> QED BY <1>1, FlowAlways, PTL

\* When no process dies, no refund is refused, staff do not cancel and no payment is
\* captured late, every completed payment ends on its reservation or is refunded,
\* but for the one the provider took for a first request and then refused in the
\* second (BookingFlow and reconcileHolds together).
THEOREM NoMoneyIsLost == Spec => []MoneyAccountedFor
<1>1. IInv => MoneyAccountedFor
  <2> SUFFICES ASSUME IInv, Settling, NEW i \in Ids, charge[i] = "completed", Unattended(i)
               PROVE  \/ rows[i].payment = i \/ i \in refunded
                      \/ rows[i].status = "payment_failed" /\ "retry refused" \in Events
    BY DEF MoneyAccountedFor
  <2>1. ~ Obliged(i)
    BY DEF Obliged, Unattended, WorksOn, Working
  <2> QED BY <2>1 DEF IInv, QuietInv, PaidOK, Untaken
<1> QED BY <1>1, FlowAlways, PTL

\* In such an evening a paid hold is given up only when its time is taken, though
\* cron writes after it has asked the provider (reconcileHolds, confirmPayment).
THEOREM PaidHoldsAreKept == Spec => NotExpiredWhenPaid
<1> DEFINE Keeps(i) == rows[i].status = "held" /\ rows'[i].status = "expired" /\ charge[i] = "completed"
                         => ~ StillFree(rows, i, clock, Buffer)
           Given == Settling => \A i \in Ids : Keeps(i)
<1>1. ASSUME IInv, Next PROVE Given
  <2> SUFFICES ASSUME Settling, NEW i \in Ids PROVE Keeps(i)
    OBVIOUS
  <2>1. AnyInv /\ TypeOK /\ QuietInv /\ key \in [Ids -> Keys \cup {NoKey}]
    BY <1>1 DEF IInv, AnyInv, TypeOK
  <2>2. rows' = rows => Keeps(i)
    BY SMT
  <2>3. ASSUME NEW j \in Ids, key[j] # NoKey, ConfirmPayment(j) PROVE Keeps(i)
    BY <2>1, <2>3, ConfirmPaymentFacts
  <2>4. ASSUME NEW w \in Customers, Confirm(w) PROVE Keeps(i)
    <3>1. web[w].id \in Ids /\ key[web[w].id] # NoKey
      BY <2>1, <2>4, FlowAssumption DEF Confirm, AnyInv, TypeOK, WebOK, Reserved, requestId
    <3> QED BY <2>3, <2>4, <3>1 DEF Confirm
  <2>5. ASSUME NEW c \in Crons, Reconcile(c) PROVE Keeps(i)
    BY <2>1, <2>3, <2>5 DEF Reconcile, AnyInv, CronOK
  <2>6. ASSUME NEW c \in Crons, Release(c) PROVE Keeps(i)
    <3>1. cron[c].id = i /\ rows[i].status = "held" => charge[i] # "completed"
      BY <2>1, <2>6 DEF Release, QuietInv, ReleaseOK
    <3>2. cron[c].id # i => rows'[i] = rows[i]
      BY <2>1, <2>6 DEF Release, TypeOK
    <3> QED BY <3>1, <3>2
  <2>7. ASSUME NEW w \in Customers, FailPayment(w) PROVE Keeps(i)
    <3>1. \A row \in Row : Transition(row, "payment_failed").status = "payment_failed"
      BY RowsMade DEF Status
    <3> QED BY <2>1, <2>7, <3>1 DEF FailPayment, TypeOK
  <2>8. ASSUME rows[i].status = "held",
               \/ \E j \in Ids : rows[j].status = "none" /\ \A k \in Ids \ {j} : rows'[k] = rows[k]
               \/ \E j \in Ids : rows' = [rows EXCEPT ![j] = Transition(rows[j], "cancelled")]
        PROVE  Keeps(i)
    <3>1. \A row \in Row : Transition(row, "cancelled").status = "cancelled"
      BY RowsMade DEF Status
    <3> QED BY <2>1, <2>8, <3>1 DEF TypeOK
  <2>9. ASSUME NEW w \in Customers, Submit(w) \/ Step(w) \/ Die(w) PROVE Keeps(i)
    <3>1. CASE Create(w)
      <4>1. UNCHANGED rows
            \/ \E j \in Ids : rows[j].status = "none" /\ \A k \in Ids \ {j} : rows'[k] = rows[k]
        BY <2>1, <3>1 DEF Create, TypeOK
      <4> QED BY <2>2, <2>8, <4>1
    <3> QED BY <2>2, <2>4, <2>7, <2>9, <3>1
            DEF Submit, Step, Die, Repeat, Charge, Answered, Refused, Unanswered, Refund
  <2>10. ASSUME NEW j \in Ids, Receive(j) \/ Settle(j) \/ Cancel(j) PROVE Keeps(i)
    BY <2>2, <2>8, <2>10 DEF Receive, Settle, Cancel
  <2>11. ASSUME NEW c \in Crons, ListOverdue(c) \/ Settles(c) \/ CronDies(c) PROVE Keeps(i)
    BY <2>2, <2>5, <2>6, <2>11 DEF ListOverdue, Settles, CronRefund, CronDies
  <2>12. ASSUME NEW c \in Crons, NEW j \in Ids, LookUp(c, j) \/ LookUpFails(c, j) PROVE Keeps(i)
    BY <2>2, <2>12 DEF LookUp, LookUpFails
  <2>13. ASSUME NEW j \in Ids, NEW q \in Requests, Book(j, q) PROVE Keeps(i)
    <3>1. rows[j].status = "none" /\ \A k \in Ids \ {j} : rows'[k] = rows[k]
      BY <2>1, <2>13 DEF Book, TypeOK
    <3> QED BY <2>8, <3>1
  <2>14. CASE Tick
    BY <2>2, <2>14 DEF Tick
  <2> HIDE DEF Keeps
  <2> QED BY <1>1, <2>9, <2>10, <2>11, <2>12, <2>13, <2>14 DEF Next, Tonight, Acts
<1>2. IInv /\ [Next]_vars => [Given]_vars
  BY <1>1 DEF vars
<1> QED BY <1>2, FlowAlways, PTL DEF Spec, NotExpiredWhenPaid
-----------------------------------------------------------------------------
(***************************************************************************)
(* The flow implements Calendar: what Reservations promises is what the    *)
(* flow relies on.                                                         *)
(***************************************************************************)

\* What Calendar promises, for the flow.
NoDoubleBooking ==
  \A i, j \in Ids :
    i # j /\ Blocking(rows[i], clock) /\ Blocking(rows[j], clock) => ~ Conflict(rows[i], rows[j])

\* An id that was not given out has no payment.
Unused == \A i \in Ids : rows[i].status = "none" => rows[i].payment = NoPayment

BookedInv == IInv /\ NoDoubleBooking /\ Unused

\* Calendar means the same as the flow by the words they share.
LEMMA SameWords ==
  /\ \A row, now : Promise!Blocking(row, now) <=> Blocking(row, now)
  /\ \A r, s : Promise!Conflict(r, s) <=> Conflict(r, s)
  /\ \A row, to : Promise!Transition(row, to) = Transition(row, to)
  /\ \A q, stations, deadline : Promise!NewRow(q, stations, deadline) = NewRow(q, stations, deadline)
  /\ \A row, pay : Promise!Paid(row, pay) = Paid(row, pay)
  /\ \A table, now : Promise!Overdue(table, now) = Overdue(table, now)
  /\ \A stations : Promise!Cardinality(stations) = Cardinality(stations)
<1>1. \A row, now : Promise!Blocking(row, now) <=> Blocking(row, now)
  BY DEF Promise!Blocking, Blocking
<1>2. \A r, s : Promise!Conflict(r, s) <=> Conflict(r, s)
  BY DEF Promise!Conflict, Conflict
<1>3. \A row, to : Promise!Transition(row, to) = Transition(row, to)
  BY DEF Promise!Transition, Transition, Promise!NoDeadline, NoDeadline
<1>4. \A q, stations, deadline : Promise!NewRow(q, stations, deadline) = NewRow(q, stations, deadline)
  BY DEF Promise!NewRow, NewRow, Promise!NoDeadline, NoDeadline
<1>5. \A row, pay : Promise!Paid(row, pay) = Paid(row, pay)
  BY <1>3 DEF Promise!Paid, Paid
<1>6. \A table, now : Promise!Overdue(table, now) = Overdue(table, now)
  BY DEF Promise!Overdue, Overdue
<1>7. \A stations : Promise!Cardinality(stations) = Cardinality(stations)
  BY DEF Promise!Cardinality, Cardinality, Promise!IsFiniteSet, IsFiniteSet
<1> QED BY <1>1, <1>2, <1>3, <1>4, <1>5, <1>6, <1>7

\* A station that is free for a window is in no session that overlaps it.
LEMMA FreeIsDisjoint ==
  ASSUME TypeOK, NEW except, NEW j \in Ids \ {except}, Blocking(rows[j], clock),
         NEW start \in Nat, NEW end \in Nat, NEW among,
         NEW s \in FreeStations(among, BlocksForDate(rows, rows[j].date, clock, except),
                                start, end, Buffer),
         s \in rows[j].stations
  PROVE  ~ (start < rows[j].end /\ rows[j].start < end)
<1> DEFINE block == [station |-> s, start |-> rows[j].start, end |-> rows[j].end]
<1>1. block \in BlocksForDate(rows, rows[j].date, clock, except)
  BY DEF BlocksForDate
<1>2. ~ TooClose(start, end, block, Buffer)
  BY <1>1 DEF FreeStations
<1>3. rows[j].start \in Nat /\ rows[j].end \in Nat /\ Buffer \in Nat
  BY FlowAssumption DEF TypeOK, Row
<1> QED BY <1>2, <1>3 DEF TooClose

\* The allocator's choice is a booking the calendar has room for.
LEMMA ChoiceFits ==
  ASSUME TypeOK, NEW i \in Ids, NEW q \in Requests, NEW chosen \in Placements(q),
         NEW deadline
  PROVE  /\ Promise!Fits(i, NewRow(q, chosen, deadline))
         /\ chosen \in SUBSET Stations /\ Cardinality(chosen) = q.count
<1>1. /\ chosen \subseteq FreeStations(Active, BlocksForDate(rows, q.date, clock, NoId),
                                       q.start, q.end, Buffer)
      /\ Cardinality(chosen) = q.count
  BY DEF Placements, Allocations
<1>2. chosen \in SUBSET Stations
  BY <1>1, FlowAssumption DEF FreeStations
<1>3. ASSUME NEW j \in Ids \ {i}, Blocking(rows[j], clock)
      PROVE  ~ Conflict(NewRow(q, chosen, deadline), rows[j])
  <2> SUFFICES ASSUME rows[j].date = q.date, NEW s \in chosen \cap rows[j].stations
               PROVE  ~ (q.start < rows[j].end /\ rows[j].start < q.end)
    BY DEF Conflict, NewRow
  <2>1. q.start \in Nat /\ q.end \in Nat /\ j \in Ids \ {NoId}
    BY ScheduleAssumption, TableAssumption
  <2> QED BY <1>1, <1>3, <2>1, FreeIsDisjoint
<1> QED BY <1>1, <1>2, <1>3, SameWords DEF Promise!Fits

\* A payment is accepted for a hold that is not past due, or for one whose
\* stations are free.
LEMMA PaidFits ==
  ASSUME BookedInv, NEW i \in Ids, Outcome(i) = "pay"
  PROVE  /\ rows[i].status \in {"held", "expired"}
         /\ Promise!Fits(i, rows[i])
<1>1. /\ rows[i].status \in {"held", "expired"}
      /\ ~ PastDue(rows[i], clock) \/ StillFree(rows, i, clock, Buffer)
  BY DEF Outcome, ConfirmOutcome
<1>2. TypeOK /\ rows[i] \in Row /\ clock \in Nat /\ KeyOK(i)
  BY DEF BookedInv, IInv, AnyInv, TypeOK
<1> SUFFICES ASSUME NEW j \in Ids \ {i}, Blocking(rows[j], clock)
             PROVE  ~ Conflict(rows[i], rows[j])
  BY <1>1, SameWords DEF Promise!Fits
<1>3. CASE StillFree(rows, i, clock, Buffer)
  <2> SUFFICES ASSUME rows[j].date = rows[i].date, NEW s \in rows[i].stations \cap rows[j].stations
               PROVE  ~ (rows[i].start < rows[j].end /\ rows[j].start < rows[i].end)
    BY DEF Conflict
  <2>1. rows[i].start \in Nat /\ rows[i].end \in Nat
    BY <1>2 DEF Row
  <2> QED BY <1>2, <1>3, <2>1, FreeIsDisjoint DEF StillFree
<1>4. CASE ~ PastDue(rows[i], clock)
  <2>1. rows[i].status = "held" /\ rows[i].deadline > clock
    BY <1>1, <1>2, <1>4 DEF PastDue, KeyOK, NoDeadline
  <2> QED BY <2>1 DEF BookedInv, NoDoubleBooking, Blocking
<1> QED BY <1>1, <1>3, <1>4

\* A row that keeps its payment changes nothing that was reported.
LEMMA ReportedKept ==
  ASSUME TypeOK, NEW i \in Ids, NEW row, rows' = [rows EXCEPT ![i] = row],
         row.payment = i <=> rows[i].payment = i
  PROVE  Reported' = Reported
<1>1. \A j \in Ids : rows'[j].payment = j <=> rows[j].payment = j
  BY DEF TypeOK
<1> QED BY <1>1 DEF Reported

\* A hold that lapses is past due.
LEMMA HoldLapses ==
  ASSUME TypeOK, NEW i \in Overdue(rows, clock), UNCHANGED clock,
         rows' = [rows EXCEPT ![i] = Transition(@, "expired")]
  PROVE  Promise!CalendarNext
<1>1. rows' = [k \in Ids |-> IF k \in {i} THEN Transition(rows[k], "expired") ELSE rows[k]]
  BY DEF TypeOK
<1>2. {i} \in SUBSET Promise!Overdue(rows, clock)
  BY SameWords
<1>3. Reported' = Reported
  <2> DEFINE row == Transition(rows[i], "expired")
  <2>1. i \in Ids /\ row.payment = rows[i].payment /\ rows' = [rows EXCEPT ![i] = row]
    BY RowsMade DEF Overdue, TypeOK, Status
  <2> HIDE DEF row
  <2> QED BY <2>1, ReportedKept
<1>4. Promise!Lapse({i})
  BY <1>1, <1>3, SameWords DEF Promise!Lapse
<1> QED BY <1>2, <1>4 DEF Promise!CalendarNext

\* So is one for whose late payment the time is gone.
LEMMA ConfirmationPromised ==
  ASSUME BookedInv, NEW i \in Ids, ConfirmPayment(i), UNCHANGED clock
  PROVE  Promise!CalendarNext \/ UNCHANGED rows
<1>1. TypeOK /\ rows[i] \in Row /\ clock \in Nat /\ KeyOK(i)
  BY DEF BookedInv, IInv, AnyInv, TypeOK
<1>2. CASE Outcome(i) = "pay"
  <2> DEFINE row == Paid(rows[i], i)
  <2>1. row.payment = i
    BY <1>1, RowsMade
  <2>2. rows' = [rows EXCEPT ![i] = row]
    BY <1>2 DEF ConfirmPayment
  <2>3. Reported' = Reported \cup {<<i, i>>}
    <3> HIDE DEF row
    <3>1. rows'[i].payment = i /\ \A j \in Ids \ {i} : rows'[j] = rows[j]
      BY <1>1, <2>1, <2>2 DEF TypeOK
    <3> QED BY <3>1 DEF Reported
  <2>4. Promise!Accept(i, i)
    BY <1>2, <2>2, <2>3, PaidFits, SameWords DEF Promise!Accept
  <2> QED BY <2>4, FlowAssumption DEF Promise!CalendarNext
<1>3. CASE Outcome(i) = "hold_expired" /\ rows[i].status = "held"
  <2>1. i \in Overdue(rows, clock)
    BY <1>1, <1>3 DEF Outcome, ConfirmOutcome, PastDue, Overdue
  <2>2. rows' = [rows EXCEPT ![i] = Transition(@, "expired")]
    BY <1>3 DEF ConfirmPayment
  <2> QED BY <1>1, <2>1, <2>2, HoldLapses
<1>4. CASE Outcome(i) # "pay" /\ ~ (Outcome(i) = "hold_expired" /\ rows[i].status = "held")
  BY <1>4 DEF ConfirmPayment
<1> QED BY <1>2, <1>3, <1>4

\* A reservation that is cancelled, or whose charge was declined, is dropped.
LEMMA DropPromised ==
  ASSUME TypeOK, NEW i \in Ids, UNCHANGED clock, NEW to,
         \/ to = "cancelled" /\ rows[i].status \in {"held", "confirmed"}
         \/ to = "payment_failed" /\ rows[i].status = "held",
         rows' = [rows EXCEPT ![i] = Transition(@, to)]
  PROVE  Promise!CalendarNext
<1>1. Reported' = Reported
  <2> DEFINE row == Transition(rows[i], to)
  <2>1. row.payment = rows[i].payment /\ rows' = [rows EXCEPT ![i] = row]
    BY RowsMade DEF TypeOK, Status
  <2> HIDE DEF row
  <2> QED BY <2>1, ReportedKept
<1>2. Promise!Drop(i)
  BY <1>1, SameWords DEF Promise!Drop
<1> QED BY <1>2 DEF Promise!CalendarNext

\* A new reservation, held for a customer or confirmed at the counter.
LEMMA BookingPromised ==
  ASSUME BookedInv, NEW i \in Ids, NEW q \in Requests, NEW chosen \in Placements(q),
         NEW deadline \in {NoDeadline, clock + Hold},
         rows[i].status = "none", rows' = [rows EXCEPT ![i] = NewRow(q, chosen, deadline)],
         UNCHANGED clock
  PROVE  Promise!CalendarNext
<1>1. TypeOK /\ clock \in Nat /\ MaxHold \in Nat
  BY TableAssumption DEF BookedInv, IInv, AnyInv, TypeOK
<1>2. deadline \in {Promise!NoDeadline} \cup 0 .. clock + MaxHold
  BY <1>1, FlowAssumption DEF NoDeadline, Promise!NoDeadline
<1>3. Reported' = Reported
  <2> DEFINE row == NewRow(q, chosen, deadline)
  <2>1. row.payment # i /\ rows[i].payment # i
    BY FlowAssumption, TableAssumption DEF NewRow, BookedInv, Unused
  <2>2. rows' = [rows EXCEPT ![i] = row]
    OBVIOUS
  <2> HIDE DEF row
  <2> QED BY <1>1, <2>1, <2>2, ReportedKept
<1>4. chosen \in SUBSET Stations /\ Promise!Book(i, q, chosen, deadline)
  BY <1>1, <1>3, ChoiceFits, SameWords DEF Promise!Book
<1> QED BY <1>2, <1>4 DEF Promise!CalendarNext

\* Every step of the flow is one operation of the calendar, or none.
LEMMA FlowPromised ==
  ASSUME BookedInv, [Next]_vars
  PROVE  Promise!CalendarNext \/ UNCHANGED <<clock, rows>>
<1>0. IInv /\ AnyInv /\ TypeOK
  BY DEF BookedInv, IInv, AnyInv
<1>1. ASSUME NEW w \in Customers, Submit(w) \/ Die(w) \/ Step(w)
      PROVE  Promise!CalendarNext \/ UNCHANGED <<clock, rows>>
  <2> DEFINE i == web[w].id
  <2>1. web[w].at \in {"confirm", "fail"} => i \in Ids
    BY <1>0 DEF AnyInv, WebOK, Reserved
  <2>2. CASE Submit(w) \/ Die(w) \/ Repeat(w) \/ Charge(w) \/ Answered(w) \/ Refused(w)
             \/ Unanswered(w) \/ Refund(w)
    BY <2>2 DEF Submit, Die, Repeat, Charge, Answered, Refused, Unanswered, Refund
  <2>3. CASE Create(w)
    <3>1. CASE UNCHANGED rows
      BY <2>3, <3>1 DEF Create
    <3>2. ASSUME NEW j \in Ids, NEW chosen \in Placements(wants[w]), rows[j].status = "none",
                 rows' = [rows EXCEPT ![j] = NewRow(wants[w], chosen, clock + Hold)]
          PROVE  Promise!CalendarNext
      <4>1. wants[w] \in Requests /\ UNCHANGED clock
        BY <2>3, FlowAssumption DEF Create
      <4> QED BY <3>2, <4>1, BookingPromised
    <3> QED BY <2>3, <3>1, <3>2 DEF Create
  <2>4. CASE Confirm(w)
    BY <2>1, <2>4, ConfirmationPromised DEF Confirm
  <2>5. CASE FailPayment(w)
    BY <1>0, <2>1, <2>5, DropPromised DEF FailPayment
  <2> QED BY <1>1, <2>2, <2>3, <2>4, <2>5 DEF Step
<1>2. ASSUME NEW c \in Crons, Settles(c)
      PROVE  Promise!CalendarNext \/ UNCHANGED <<clock, rows>>
  <2> DEFINE i == cron[c].id
  <2>1. cron[c].at \in {"release", "confirm"} =>
          i \in Ids /\ (rows[i].status = "held" => i \in Overdue(rows, clock))
    BY <1>0 DEF AnyInv, CronOK, Overdue
  <2>2. CASE Release(c)
    BY <1>0, <2>1, <2>2, HoldLapses DEF Release
  <2>3. CASE Reconcile(c)
    BY <2>1, <2>3, ConfirmationPromised DEF Reconcile
  <2>4. CASE CronRefund(c)
    BY <2>4 DEF CronRefund
  <2> QED BY <1>2, <2>2, <2>3, <2>4 DEF Settles
<1>3. ASSUME NEW c \in Crons, NEW i \in Ids,
             LookUp(c, i) \/ LookUpFails(c, i)
      PROVE  UNCHANGED <<clock, rows>>
  BY <1>3 DEF LookUp, LookUpFails, DoneWith
<1>4. ASSUME NEW i \in Ids, Receive(i) \/ Settle(i)
      PROVE  UNCHANGED <<clock, rows>>
  BY <1>4 DEF Receive, Settle
<1>5. ASSUME NEW c \in Crons, ListOverdue(c) \/ CronDies(c)
      PROVE  UNCHANGED <<clock, rows>>
  BY <1>5 DEF ListOverdue, CronDies
<1>6. ASSUME NEW i \in Ids, Cancel(i)
      PROVE  Promise!CalendarNext
  BY <1>0, <1>6, DropPromised DEF Cancel
<1>7. ASSUME NEW i \in Ids, NEW q \in Requests, Book(i, q)
      PROVE  Promise!CalendarNext
  BY <1>7, BookingPromised DEF Book
<1>8. CASE Tick
  <2>1. Reported' = Reported
    BY <1>8 DEF Tick, Reported
  <2>2. Promise!Advance
    BY <1>8, <2>1 DEF Tick, Promise!Advance
  <2> QED BY <2>2 DEF Promise!CalendarNext
<1>9. CASE UNCHANGED vars
  BY <1>9 DEF vars
<1> QED BY <1>1, <1>2, <1>3, <1>4, <1>5, <1>6, <1>7, <1>8, <1>9 DEF Next, Tonight, Acts

\* One row is written: it does not block, or has room.
LEMMA RoomForOne ==
  ASSUME TypeOK, NoDoubleBooking, NEW i \in Ids, NEW row, rows' = [rows EXCEPT ![i] = row],
         UNCHANGED clock,
         \A j \in Ids \ {i} : Blocking(row, clock) /\ Blocking(rows[j], clock) => ~ Conflict(row, rows[j])
  PROVE  NoDoubleBooking'
<1>1. rows'[i] = row /\ \A j \in Ids \ {i} : rows'[j] = rows[j]
  BY DEF TypeOK
<1>2. \A r, s : Conflict(r, s) => Conflict(s, r)
  BY DEF Conflict
<1> QED BY <1>1, <1>2 DEF NoDoubleBooking

\* No operation of the calendar books a station twice.
LEMMA CalendarKeeps ==
  ASSUME TypeOK, NoDoubleBooking, Unused, Promise!CalendarNext
  PROVE  NoDoubleBooking' /\ Unused'
<1>0. \A row \in Row : \A to : /\ Transition(row, to).status = to
                                 /\ Transition(row, to).date = row.date
                                 /\ Transition(row, to).start = row.start /\ Transition(row, to).end = row.end
                                 /\ Transition(row, to).stations = row.stations
  BY DEF Row, Transition
<1>1. ASSUME NEW i \in Ids, NEW q \in Requests, NEW stations, NEW deadline,
             Promise!Book(i, q, stations, deadline)
      PROVE  NoDoubleBooking' /\ Unused'
  <2> DEFINE row == NewRow(q, stations, deadline)
  <2>1. /\ rows' = [rows EXCEPT ![i] = row] /\ UNCHANGED clock
        /\ \A j \in Ids \ {i} : Blocking(rows[j], clock) => ~ Conflict(row, rows[j])
    BY <1>1, SameWords DEF Promise!Book, Promise!Fits
  <2>2. row.status # "none"
    BY DEF NewRow
  <2> HIDE DEF row
  <2>3. rows'[i] = row /\ \A j \in Ids \ {i} : rows'[j] = rows[j]
    BY <2>1 DEF TypeOK
  <2> QED BY <2>1, <2>2, <2>3, RoomForOne DEF Unused
<1>2. ASSUME NEW i \in Ids, NEW q \in Requests, NEW stations, Promise!Move(i, q, stations)
      PROVE  NoDoubleBooking' /\ Unused'
  <2> DEFINE row == Promise!Reschedule(rows[i], q, stations)
  <2>1. /\ rows' = [rows EXCEPT ![i] = row] /\ UNCHANGED clock /\ rows[i].status # "none"
        /\ \A j \in Ids \ {i} : Blocking(rows[j], clock) => ~ Conflict(row, rows[j])
    BY <1>2, SameWords DEF Promise!Move, Promise!Fits
  <2>2. row.status = rows[i].status
    BY DEF Promise!Reschedule, TypeOK, Row
  <2> HIDE DEF row
  <2>3. rows'[i] = row /\ \A j \in Ids \ {i} : rows'[j] = rows[j]
    BY <2>1 DEF TypeOK
  <2> QED BY <2>1, <2>2, <2>3, RoomForOne DEF Unused
<1>3. ASSUME NEW i \in Ids, NEW pay \in Payments, Promise!Accept(i, pay)
      PROVE  NoDoubleBooking' /\ Unused'
  <2> DEFINE row == Paid(rows[i], pay)
  <2>1. /\ rows' = [rows EXCEPT ![i] = row] /\ UNCHANGED clock
        /\ \A j \in Ids \ {i} : Blocking(rows[j], clock) => ~ Conflict(rows[i], rows[j])
    BY <1>3, SameWords DEF Promise!Accept, Promise!Fits
  <2>2. /\ row.status = "confirmed" /\ row.date = rows[i].date /\ row.start = rows[i].start
        /\ row.end = rows[i].end /\ row.stations = rows[i].stations
    BY DEF Paid, Transition, TypeOK, Row
  <2> HIDE DEF row
  <2>3. rows'[i] = row /\ \A j \in Ids \ {i} : rows'[j] = rows[j]
    BY <2>1 DEF TypeOK
  <2>4. \A j \in Ids \ {i} : Blocking(rows[j], clock) => ~ Conflict(row, rows[j])
    BY <2>1, <2>2 DEF Conflict
  <2> QED BY <2>1, <2>2, <2>3, <2>4, RoomForOne DEF Unused
<1>4. ASSUME NEW holds \in SUBSET Promise!Overdue(rows, clock), Promise!Lapse(holds)
      PROVE  NoDoubleBooking' /\ Unused'
  <2>1. /\ UNCHANGED clock
        /\ \A j \in Ids : rows'[j] = IF j \in holds THEN Transition(rows[j], "expired") ELSE rows[j]
    BY <1>4, SameWords DEF Promise!Lapse
  <2>2. \A j \in Ids : rows'[j] = rows[j] \/ rows'[j].status = "expired"
    BY <1>0, <2>1 DEF TypeOK
  <2> QED BY <2>1, <2>2 DEF NoDoubleBooking, Blocking, Unused
<1>5. ASSUME NEW i \in Ids, Promise!Drop(i)
      PROVE  NoDoubleBooking' /\ Unused'
  <2>1. UNCHANGED clock /\ \E to \in {"cancelled", "payment_failed"} :
          rows' = [rows EXCEPT ![i] = Transition(rows[i], to)]
    BY <1>5, SameWords DEF Promise!Drop
  <2>2. \A j \in Ids : rows'[j] = rows[j] \/ rows'[j].status \in {"cancelled", "payment_failed"}
    BY <1>0, <2>1 DEF TypeOK
  <2> QED BY <2>1, <2>2 DEF NoDoubleBooking, Blocking, Unused
<1>6. CASE Promise!Advance
  <2>1. clock' = clock + 1 /\ rows' = rows
    BY <1>6 DEF Promise!Advance
  <2>2. \A j \in Ids : Blocking(rows[j], clock') => Blocking(rows[j], clock)
    BY <2>1 DEF TypeOK, Row, Blocking, NoDeadline
  <2> QED BY <2>1, <2>2 DEF NoDoubleBooking, Unused
<1> QED BY <1>1, <1>2, <1>3, <1>4, <1>5, <1>6 DEF Promise!CalendarNext

LEMMA BookedStart == Init => BookedInv /\ Promise!CalendarInit
<1> SUFFICES ASSUME Init PROVE BookedInv /\ Promise!CalendarInit
  OBVIOUS
<1>1. \A i \in Ids : rows[i] = NoRow
  BY DEF Init
<1>2. NoRow.status = "none" /\ NoRow.payment = NoPayment /\ \A now : ~ Blocking(NoRow, now)
  BY DEF NoRow, Blocking
<1>3. Reported = {}
  BY <1>1, <1>2, FlowAssumption, TableAssumption DEF Reported
<1>4. Promise!CalendarInit
  BY <1>3 DEF Init, Promise!CalendarInit, NoRow, Promise!NoRow, NoDeadline, Promise!NoDeadline
<1> QED BY <1>1, <1>2, <1>4, Start DEF BookedInv, NoDoubleBooking, Unused

LEMMA BookedKept == BookedInv /\ [Next]_vars => BookedInv'
<1> SUFFICES ASSUME BookedInv, [Next]_vars PROVE BookedInv'
  OBVIOUS
<1>1. IInv' /\ TypeOK /\ NoDoubleBooking /\ Unused
  BY NextKeeps DEF BookedInv, IInv, AnyInv
<1>2. CASE Promise!CalendarNext
  BY <1>1, <1>2, CalendarKeeps DEF BookedInv
<1>3. CASE UNCHANGED <<clock, rows>>
  BY <1>1, <1>3 DEF BookedInv, NoDoubleBooking, Unused
<1> QED BY <1>2, <1>3, FlowPromised

LEMMA BookedAlways == Spec => []BookedInv
<1>1. Init => BookedInv
  BY BookedStart
<1> QED BY <1>1, BookedKept, PTL DEF Spec

\* Submissions, charges, cron runs and staff, whatever breaks between them, act on
\* the calendar only as Calendar allows: the operations the flow is cut into are those
\* that Reservations implements, and the payments confirmPayment reported can be read
\* off the table.
THEOREM FlowKeepsCalendar == Spec => ImplementsCalendar
<1>1. Init => Promise!CalendarInit
  BY BookedStart
<1>2. BookedInv /\ [Next]_vars => [Promise!CalendarNext]_(Promise!calendarVars)
  <2>1. UNCHANGED <<clock, rows>> => UNCHANGED Promise!calendarVars
    BY DEF Promise!calendarVars, Reported
  <2> QED BY <2>1, FlowPromised
<1> QED BY <1>1, <1>2, BookedAlways, PTL DEF Spec, ImplementsCalendar, Promise!CalendarSpec

\* However customers, cron and staff interleave, and whenever payments arrive, no
\* station is in two reservations that block it at the same time.
THEOREM FlowNeverDoubleBooks == Spec => []NoDoubleBooking
<1>1. BookedInv => NoDoubleBooking
  BY DEF BookedInv
<1> QED BY <1>1, BookedAlways, PTL
==============================================================================
