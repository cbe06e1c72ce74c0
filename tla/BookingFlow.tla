---------------------------- MODULE BookingFlow ----------------------------
(***************************************************************************)
(* A paid booking from the submission to the end of its hold: the request  *)
(* that reserves, charges and confirms (BookingFlow.php), the provider's   *)
(* answers (SquareGateway.php), the cron job that settles holds nobody     *)
(* confirmed (Reservations::reconcileHolds) and staff.                     *)
(*                                                                         *)
(* An operation of the calendar is one step here, which is what            *)
(* Reservations establishes (Reservations!ImplementsCalendar).  Everything *)
(* between two of them - the card charge, a lookup, a refund, a second     *)
(* query - is a step of its own, and the others act in between.            *)
(*                                                                         *)
(* The reservation's uuid is the idempotency key of its charge and its     *)
(* code the reference, so the provider has at most one payment for a       *)
(* reservation, named here by the reservation's id.                        *)
(***************************************************************************)
EXTENDS ReservationTable

CONSTANTS
  Customers,  \* submissions of the booking form
  Keys,       \* request_ids
  wants,      \* customer -> the schedule asked for
  Crons,      \* runs of holds:release that may overlap
  number, Active, Open, Buffer,   \* the venue, which does not change here
  Hold, Day,  \* how long a hold lasts, and a day, in clock units
  Scenarios,  \* the evenings a run explores, each with its requestId and events
  NoKey

\* Staff cancel; PHP dies; a refund is refused; the provider captures a payment
\* after the request has given it up, or a day after the hold lapsed; it refuses the
\* second request for a charge although the first one went through.
Happenings == {"cancel", "crash", "refund refused", "late capture", "retry refused"}

ASSUME FlowAssumption ==
  /\ Payments = Ids
  /\ wants \in [Customers -> Requests]
  /\ NoKey \notin Keys
  /\ Hold \in 1 .. MaxHold /\ Day \in Nat /\ Buffer \in Nat /\ Open \in Nat
  /\ Active \subseteq Stations
  /\ Scenarios \subseteq [requestId : [Customers -> Keys], events : SUBSET Happenings]

VARIABLES
  clock,
  rows,      \* reservations, as ReservationTable describes them
  key,       \* id -> the request_id column, unique
  charge,    \* id -> what the provider knows of its payment
  refunded,  \* payments the provider has refunded
  web,       \* customer -> [at, id, attempt], attempt the charge requests sent so far
  cron,      \* cron run -> [at, list, now, id]
  scenario   \* the evening this is, which does not change

vars == <<clock, rows, key, charge, refunded, web, cron, scenario>>

\* The request_id a customer sends, the same for a retry; what may happen besides.
requestId == scenario.requestId
Events == scenario.events

Charges == {"none", "sent", "pending", "completed", "declined"}

\* "payment_declined" stands for payment_unavailable too.
Answers == {"confirmed", "slot_unavailable", "payment_declined", "payment_unknown",
            "request_used", "refunded", "no answer"}

Working == {"create", "repeat", "charge", "wait", "confirm", "fail", "refund"}

TypeOK ==
  /\ scenario \in Scenarios
  /\ clock \in Nat
  /\ rows \in [Ids -> Row]
  /\ key \in [Ids -> Keys \cup {NoKey}]
  /\ charge \in [Ids -> Charges]
  /\ refunded \subseteq Ids
  /\ web \in [Customers -> [at : {"new"} \cup Working \cup Answers, id : Ids \cup {NoId},
                            attempt : 0 .. 2]]
  /\ cron \in [Crons -> [at : {"idle", "look", "release", "confirm", "refund"},
                         list : SUBSET [id : Ids, due : Nat], now : Nat, id : Ids \cup {NoId}]]

Init ==
  /\ scenario \in Scenarios
  /\ clock = 0
  /\ rows = [i \in Ids |-> NoRow]
  /\ key = [i \in Ids |-> NoKey]
  /\ charge = [i \in Ids |-> "none"]
  /\ refunded = {}
  /\ web = [w \in Customers |-> [at |-> "new", id |-> NoId, attempt |-> 0]]
  /\ cron = [c \in Crons |-> [at |-> "idle", list |-> {}, now |-> 0, id |-> NoId]]
-----------------------------------------------------------------------------
(* The request. *)

Goes(w, place) == web' = [web EXCEPT ![w].at = place]

\* Request w is under way with reservation i.
WorksOn(w, i) == web[w].id = i /\ web[w].at \in Working

Taken(k) == {i \in Ids : key[i] = k}

\* idForRequest(): a request_id seen before is a retry.
Submit(w) ==
  /\ web[w].at = "new"
  /\ IF Taken(requestId[w]) = {}
     THEN Goes(w, "create")
     ELSE \E i \in Taken(requestId[w]) :
            web' = [web EXCEPT ![w].at = "repeat", ![w].id = i]
  /\ UNCHANGED <<clock, rows, key, charge, refunded, cron>>

Placements(q) ==
  LET blocks == BlocksForDate(rows, q.date, clock, NoId)
      free == FreeStations(Active, blocks, q.start, q.end, Buffer)
  IN  Allocations(free, blocks, number, q.start, q.count, Open)

\* The unique index on request_id stops a retry that raced the first
\* submission, once create() has found stations for it.  Bound: the hold and a
\* day after it fit under MaxClock.
Create(w) ==
  /\ web[w].at = "create"
  /\ clock + Hold + Day <= MaxClock
  /\ \/ /\ Placements(wants[w]) = {}
        /\ Goes(w, "slot_unavailable")
        /\ UNCHANGED <<rows, key>>
     \/ /\ Placements(wants[w]) # {}
        /\ \E i \in Taken(requestId[w]) :
             web' = [web EXCEPT ![w].at = "repeat", ![w].id = i]
        /\ UNCHANGED <<rows, key>>
     \/ \E i \in Ids, chosen \in Placements(wants[w]) :
          /\ Taken(requestId[w]) = {}
          /\ rows[i].status = "none"
          /\ rows' = [rows EXCEPT ![i] = NewRow(wants[w], chosen, clock + Hold)]
          /\ key' = [key EXCEPT ![i] = requestId[w]]
          /\ web' = [web EXCEPT ![w].at = "charge", ![w].id = i]
  /\ UNCHANGED <<clock, charge, refunded, cron>>

\* Mutant: a retry takes a hold for a booking.
RepeatHeld(w) ==
  /\ web[w].at = "repeat"
  /\ Goes(w, IF rows[web[w].id].status \in {"held", "confirmed"}
             THEN "confirmed" ELSE "request_used")
  /\ UNCHANGED <<clock, rows, key, charge, refunded, cron>>

\* Mutant: a retry charges for a hold it finds.
RepeatCharges(w) ==
  LET status == rows[web[w].id].status
  IN  /\ web[w].at = "repeat"
      /\ Goes(w, CASE status = "confirmed" -> "confirmed"
                   [] status = "held" -> "charge"
                   [] OTHER -> "request_used")
      /\ UNCHANGED <<clock, rows, key, charge, refunded, cron>>

\* repeat(): what the first submission has come to.
Repeat(w) ==
  LET status == rows[web[w].id].status
  IN  /\ web[w].at = "repeat"
      /\ Goes(w, CASE status = "confirmed" -> "confirmed"
                   [] status = "held" -> "payment_unknown"
                   [] OTHER -> "request_used")
      /\ UNCHANGED <<clock, rows, key, charge, refunded, cron>>

\* A POST to the provider, under the idempotency key of the reservation: of a
\* payment it knows already the provider makes no second one.
Charge(w) ==
  LET i == web[w].id
  IN  /\ web[w].at = "charge"
      /\ charge' = [charge EXCEPT ![i] = IF @ = "none" THEN "sent" ELSE @]
      /\ web' = [web EXCEPT ![w].at = "wait", ![w].attempt = @ + 1]
      /\ UNCHANGED <<clock, rows, key, refunded, cron>>

Answered(w) ==
  LET outcome == charge[web[w].id]
  IN  /\ web[w].at = "wait"
      /\ \/ outcome = "completed" /\ Goes(w, "confirm")
         \/ outcome = "declined" /\ Goes(w, "fail")
         \/ outcome = "pending" /\ Goes(w, "payment_unknown")
      /\ UNCHANGED <<clock, rows, key, charge, refunded, cron>>

\* Nothing the request has sent is still on its way, unless it comes in late.
Arrived(i) == "late capture" \in Events \/ charge[i] # "sent"

\* ERROR: the provider refuses the last request itself, and nothing is taken for
\* that one.  If it was the second, the first may have gone through.
Refused(w) ==
  LET i == web[w].id
  IN  /\ web[w].at = "wait"
      /\ \/ charge[i] = "sent" /\ charge' = [charge EXCEPT ![i] = "none"]
         \/ /\ "retry refused" \in Events /\ web[w].attempt = 2 /\ Arrived(i)
            /\ UNCHANGED charge
      /\ Goes(w, "fail")
      /\ UNCHANGED <<clock, rows, key, refunded, cron>>

\* Mutant: the charge is retried for ever.
UnansweredAgain(w) ==
  /\ web[w].at = "wait"
  /\ Arrived(web[w].id)
  /\ Goes(w, "charge")
  /\ UNCHANGED <<clock, rows, key, charge, refunded, cron>>

\* postWithRetry(): no answer, or a transient error, is retried once.
Unanswered(w) ==
  /\ web[w].at = "wait"
  /\ Arrived(web[w].id)
  /\ Goes(w, IF web[w].attempt = 1 THEN "charge" ELSE "payment_unknown")
  /\ UNCHANGED <<clock, rows, key, charge, refunded, cron>>

\* confirmPayment(i, i), called by the request and by cron.
Outcome(i) == ConfirmOutcome(rows, i, i, clock, Buffer)

ConfirmPayment(i) ==
  rows' = CASE Outcome(i) = "pay" -> [rows EXCEPT ![i] = Paid(@, i)]
            [] Outcome(i) = "hold_expired" /\ rows[i].status = "held" ->
                 [rows EXCEPT ![i] = Transition(@, "expired")]
            [] OTHER -> rows

\* Whatever the reason for a rejection, the money goes back.
Confirm(w) ==
  /\ web[w].at = "confirm"
  /\ ConfirmPayment(web[w].id)
  /\ Goes(w, IF Outcome(web[w].id) \in {"pay", "repeat"} THEN "confirmed" ELSE "refund")
  /\ UNCHANGED <<clock, key, charge, refunded, cron>>

RefundsTo(i) ==
  \/ refunded' = refunded \cup {i}
  \/ "refund refused" \in Events /\ UNCHANGED refunded

Refund(w) ==
  /\ web[w].at = "refund"
  /\ RefundsTo(web[w].id)
  /\ Goes(w, "refunded")
  /\ UNCHANGED <<clock, rows, key, charge, cron>>

\* failPayment(): the provider declined, or refused the last request.
FailPayment(w) ==
  LET i == web[w].id
  IN  /\ web[w].at = "fail"
      /\ rows' = IF rows[i].status = "held"
                 THEN [rows EXCEPT ![i] = Transition(@, "payment_failed")] ELSE rows
      /\ Goes(w, "payment_declined")
      /\ UNCHANGED <<clock, key, charge, refunded, cron>>

\* The request dies, or the customer's connection does.
Die(w) ==
  /\ "crash" \in Events
  /\ web[w].at \in Working
  /\ Goes(w, "no answer")
  /\ UNCHANGED <<clock, rows, key, charge, refunded, cron>>
-----------------------------------------------------------------------------
(* The provider (external). *)

\* A request that was sent arrives or is lost.
Receive(i) ==
  /\ charge[i] = "sent"
  /\ \E outcome \in {"none", "pending", "completed", "declined"} :
       charge' = [charge EXCEPT ![i] = outcome]
  /\ UNCHANGED <<clock, rows, key, refunded, web, cron>>

\* A pending payment completes or fails; without "late capture", only while a
\* hold less than a day past its deadline waits for it.
Settle(i) ==
  /\ charge[i] = "pending"
  /\ \/ "late capture" \in Events
     \/ rows[i].status = "held" /\ clock < rows[i].deadline + Day
  /\ \E outcome \in {"completed", "declined"} : charge' = [charge EXCEPT ![i] = outcome]
  /\ UNCHANGED <<clock, rows, key, refunded, web, cron>>
-----------------------------------------------------------------------------
(* holds:release. *)

\* Run c is done with hold i of its list.
DoneWith(c, i) ==
  LET rest == {h \in cron[c].list : h.id # i}
  IN  cron' = [cron EXCEPT ![c] = [at |-> IF rest = {} THEN "idle" ELSE "look",
                                   list |-> rest, now |-> @.now, id |-> NoId]]

\* overdueHolds(), read once at the start of a run.
ListOverdue(c) ==
  /\ cron[c].at = "idle"
  /\ Overdue(rows, clock) # {}
  /\ cron' = [cron EXCEPT ![c] =
       [at |-> "look", now |-> clock, id |-> NoId,
        list |-> {[id |-> i, due |-> rows[i].deadline] : i \in Overdue(rows, clock)}]]
  /\ UNCHANGED <<clock, rows, key, charge, refunded, web>>

\* Mutant: a pending payment counts as no payment.
LookUpPendingAsNone(c, i) ==
  /\ cron[c].at = "look"
  /\ \E h \in cron[c].list : h.id = i
  /\ cron' = [cron EXCEPT ![c].at = IF charge[i] = "completed" THEN "confirm" ELSE "release",
                          ![c].id = i]
  /\ UNCHANGED <<clock, rows, key, charge, refunded, web>>

\* Mutant: a pending payment keeps its hold for ever.
LookUpNeverStale(c, i) ==
  /\ cron[c].at = "look"
  /\ \E h \in cron[c].list : h.id = i
  /\ \/ charge[i] = "completed" /\ cron' = [cron EXCEPT ![c].at = "confirm", ![c].id = i]
     \/ charge[i] \in {"none", "sent"} /\ cron' = [cron EXCEPT ![c].at = "release", ![c].id = i]
     \/ charge[i] \in {"pending", "declined"} /\ DoneWith(c, i)
  /\ UNCHANGED <<clock, rows, key, charge, refunded, web>>

\* findByReference().  A failed payment may be listed by the provider or not.
LookUp(c, i) ==
  /\ cron[c].at = "look"
  /\ \E h \in cron[c].list :
       LET found == charge[i]
           stale == h.due + Day <= cron[c].now
           To(place) == cron' = [cron EXCEPT ![c].at = place, ![c].id = i]
       IN  /\ h.id = i
           /\ \/ found = "completed" /\ To("confirm")
              \/ found \in {"none", "sent", "declined"} /\ To("release")
              \/ found \in {"pending", "declined"} /\ stale /\ To("release")
              \/ found \in {"pending", "declined"} /\ ~ stale /\ DoneWith(c, i)
  /\ UNCHANGED <<clock, rows, key, charge, refunded, web>>

\* PaymentLookupFailed: the hold is kept.
LookUpFails(c, i) ==
  /\ cron[c].at = "look"
  /\ \E h \in cron[c].list : h.id = i
  /\ DoneWith(c, i)
  /\ UNCHANGED <<clock, rows, key, charge, refunded, web>>

Release(c) ==
  LET i == cron[c].id
  IN  /\ cron[c].at = "release"
      /\ rows' = IF rows[i].status = "held"
                 THEN [rows EXCEPT ![i] = Transition(@, "expired")] ELSE rows
      /\ DoneWith(c, i)
      /\ UNCHANGED <<clock, key, charge, refunded, web>>

\* Mutant: a payment for a lost slot is only logged.
ReconcileNoRefund(c) ==
  /\ cron[c].at = "confirm"
  /\ ConfirmPayment(cron[c].id)
  /\ DoneWith(c, cron[c].id)
  /\ UNCHANGED <<clock, key, charge, refunded, web>>

\* Only hold_expired leads to a refund here.
Reconcile(c) ==
  LET i == cron[c].id
  IN  /\ cron[c].at = "confirm"
      /\ ConfirmPayment(i)
      /\ IF Outcome(i) = "hold_expired"
         THEN cron' = [cron EXCEPT ![c].at = "refund"]
         ELSE DoneWith(c, i)
      /\ UNCHANGED <<clock, key, charge, refunded, web>>

CronRefund(c) ==
  /\ cron[c].at = "refund"
  /\ RefundsTo(cron[c].id)
  /\ DoneWith(c, cron[c].id)
  /\ UNCHANGED <<clock, rows, key, charge, web>>

CronDies(c) ==
  /\ "crash" \in Events
  /\ cron[c].at # "idle"
  /\ cron' = [cron EXCEPT ![c] = [at |-> "idle", list |-> {}, now |-> 0, id |-> NoId]]
  /\ UNCHANGED <<clock, rows, key, charge, refunded, web>>
-----------------------------------------------------------------------------
(* Staff, and time. *)

Cancel(i) ==
  /\ "cancel" \in Events
  /\ rows[i].status \in {"held", "confirmed"}
  /\ rows' = [rows EXCEPT ![i] = Transition(@, "cancelled")]
  /\ UNCHANGED <<clock, key, charge, refunded, web, cron>>

\* A booking at the counter, confirmed without a payment.
Book(i, q) ==
  /\ rows[i].status = "none"
  /\ \E chosen \in Placements(q) :
       rows' = [rows EXCEPT ![i] = NewRow(q, chosen, NoDeadline)]
  /\ UNCHANGED <<clock, key, charge, refunded, web, cron>>

\* Both attempts of a charge time out in 40 seconds and a hold lasts a minute
\* or more: without "late capture" a request is not still charging when its
\* hold lapses.
Tick ==
  /\ clock < MaxClock
  /\ \/ "late capture" \in Events
     \/ \A w \in Customers : web[w].at \in {"charge", "wait"} => clock + 1 < rows[web[w].id].deadline
  /\ clock' = clock + 1
  /\ UNCHANGED <<rows, key, charge, refunded, web, cron>>
-----------------------------------------------------------------------------
\* What a request does by itself once it is submitted.
Step(w) ==
  \/ Create(w) \/ Repeat(w)
  \/ Charge(w) \/ Answered(w) \/ Refused(w) \/ Unanswered(w)
  \/ Confirm(w) \/ Refund(w) \/ FailPayment(w)

Settles(c) == Release(c) \/ Reconcile(c) \/ CronRefund(c)

Acts ==
  \/ \E w \in Customers : Submit(w) \/ Step(w) \/ Die(w)
  \/ \E i \in Ids : Receive(i) \/ Settle(i) \/ Cancel(i)
  \/ \E c \in Crons :
       \/ ListOverdue(c) \/ Settles(c) \/ CronDies(c)
       \/ \E i \in Ids : LookUp(c, i) \/ LookUpFails(c, i)
  \/ \E i \in Ids, q \in Requests : Book(i, q)
  \/ Tick

Tonight(A) == A /\ UNCHANGED scenario

Next == Tonight(Acts)

Spec == Init /\ [][Next]_vars

\* Requests and cron runs go on, cron is started again and again, the charge
\* request arrives or is lost, time passes, and no payment's lookup fails for
\* ever.  Nothing obliges a pending payment to settle.
LiveSpec ==
  /\ Spec
  /\ WF_vars(Tonight(Tick))
  /\ \A w \in Customers : WF_vars(Tonight(Step(w)))
  /\ \A i \in Ids : WF_vars(Tonight(Receive(i)))
  /\ \A c \in Crons :
       /\ WF_vars(Tonight(ListOverdue(c))) /\ WF_vars(Tonight(Settles(c)))
       /\ \A i \in Ids : SF_vars(Tonight(LookUp(c, i)))
-----------------------------------------------------------------------------
(* Properties. *)

\* Nothing in the system will look at reservation i again.
Unattended(i) ==
  /\ rows[i].status # "held"
  /\ \A w \in Customers : ~ WorksOn(w, i)
  /\ \A c \in Crons : cron[c].id # i /\ \A h \in cron[c].list : h.id # i

\* Nothing that is not looked at again happens: at most a retry is refused.
Settling == Events \subseteq {"retry refused"}

\* A completed payment ends on its reservation or is refunded: neither the request,
\* nor cron, nor the two together leave the money without a booking.  Only when the
\* provider refuses the second request for a charge whose first one it carried out
\* is the payment failed with the money taken.  (When a process dies before its
\* refund, a refund is refused, staff cancel, or the provider captures after
\* everyone has given the payment up, nothing in the code looks at it again.)
MoneyAccountedFor ==
  Settling => \A i \in Ids :
    charge[i] = "completed" /\ Unattended(i) =>
      \/ rows[i].payment = i
      \/ i \in refunded
      \/ rows[i].status = "payment_failed" /\ "retry refused" \in Events

\* A payment that was given back is not kept for the booking as well: reconcileHolds()
\* confirms when the stations are free and refunds when they are taken.
RefundedOrKept == \A i \in refunded : rows[i].payment # i

\* A hold whose payment is completed is given up only if its time is taken,
\* although cron asks the provider first and writes later.  (A payment captured a
\* day late is outside this promise.)
NotExpiredWhenPaid ==
  [][Settling => \A i \in Ids :
       rows[i].status = "held" /\ rows'[i].status = "expired" /\ charge[i] = "completed"
         => ~ StillFree(rows, i, clock, Buffer)]_vars

\* However often an attempt to book is submitted, only one of its submissions ever
\* sends a charge, only for the one reservation the attempt has, and a submission
\* that comes later, or raced it, sends none, whatever the first one came to.
ChargedOnce ==
  \A w \in Customers :
    web[w].attempt > 0 =>
      /\ Taken(requestId[w]) = {web[w].id}
      /\ \A v \in Customers \ {w} : requestId[v] = requestId[w] => web[v].attempt = 0

\* A customer told that the booking is confirmed has it, until staff cancel it,
\* with every submission of the same attempt naming the same reservation.
ConfirmedIsKept ==
  \A w \in Customers :
    web[w].at = "confirmed" =>
      /\ rows[web[w].id].status \in {"confirmed", "cancelled"}
      /\ rows[web[w].id].payment = web[w].id
      /\ key[web[w].id] = requestId[w]

\* A charge that succeeds after staff cancelled its reservation is refunded.
LateChargeRefunded ==
  \A i \in Ids :
    [](rows[i].status = "cancelled" /\ key[i] # NoKey /\ charge[i] \in {"sent", "pending"}
         => [](charge[i] = "completed" => <>(i \in refunded)))

\* Every hold ends: cron confirms, refunds or releases what the request left
\* behind, also when requests die, staff cancel and the provider never settles the
\* payment; cron itself must not die again and again.
HoldsEnd ==
  <>[][\A c \in Crons : ~ CronDies(c)]_vars =>
    \A i \in Ids : rows[i].status = "held" ~> rows[i].status # "held"
-----------------------------------------------------------------------------
\* The payments confirmPayment() has reported success for, read off the table.
Reported == {<<i, i>> : i \in {j \in Ids : rows[j].payment = j}}

Promise == INSTANCE Calendar WITH accepted <- Reported

\* Whatever requests, cron, the provider and staff do, each step of theirs is one
\* operation of the calendar or leaves it alone: the steps into which the flow is cut
\* are those the write path keeps its promise for.
ImplementsCalendar == Promise!CalendarSpec
=============================================================================
