# OpenArcade: a verification development

TLA+ models of OpenArcade, the TLC configurations that check them and the
theorems TLAPS proves about them.  The models are written from the source; the
file `PROJECT.json` maps every definition to the lines it stands for.

Contents: [the system](#the-system), [modules](#modules-and-the-code),
[runs](#the-runs), [fairness](#fairness), [findings](#what-the-runs-found),
[proofs](#what-is-proved), [limits](#what-is-only-model-checked-and-what-is-not-modelled),
[plan](#plan).

## The system

OpenArcade runs a venue of VR stations.  It has three programs.

**The booking system** (`src/`, `public/`, PHP over MySQL).  Customers book on a
web page, staff on another; a cron job settles unpaid holds.

| Component | State it keeps | Operations | Interacts with |
|---|---|---|---|
| Reservation write path: `Reservations`, `ReservationRepository`, `Transaction` | `reservations`, `reservation_stations`, `booking_days` (one row per date, used as a lock) | create, update, confirmPayment, failPayment, cancel, expireHolds, reconcileHolds | called by the public API, the admin API and cron, all at once; locks in MySQL |
| Paid booking: `BookingFlow`, `SquareGateway` | the request's own progress; the payment at the provider; `request_id` | book, repeat, charge (one retry), refund | write path, provider, mail |
| Reconciliation: `Reservations::reconcileHolds`, run by `holds:release` | the list of overdue holds it read | look up, release, confirm, refund | write path, provider, the requests still under way |
| Availability, allocation, rules: `Availability`, `StationAllocator`, `BookingRules` | none | slots, freeStations, choose, checkRules | read by the page before, and by create() after |
| Settings, hours, prices, stations | one table each | load, put | may change between any two reads of a request |
| Login, tokens, throttle, rate limiter | counters per address and window; PHP session | attempt, hit | HTTP layer |
| Migrator, installer, console, doctor | `migrations` | run | the file system, MySQL |
| HTTP layer, mail, support, pages | none that lasts | | |

**The station application** (`station/StationApp`, C++ on Windows).

| Component | State it keeps | Operations | Interacts with |
|---|---|---|---|
| Session: `session.cpp`, the timer of `window_proc.cpp` | `g_SessionRunning`, `g_sessionEndTime`, the window's timer; `SessionEndTime` in the INI file | start, add time, stop, countdown, resume | UI thread (buttons, timer) and receive thread (master), on the same variables without a lock |
| Game menu: `overlay.cpp`, `window_proc.cpp` | category, game list, selection, image, "loading"; three mutexes | select category, select game, launch, data arrives | session start on either thread; detached threads that fetch |
| Link: `network.cpp` | socket, connected flag, receive thread | connect, reconnect, receive, disconnect | master; the UI thread joins the receive thread |
| Launcher: `steam_games.cpp`, `globals.cpp`, `session.cpp` | process number and id of the custom game that runs | launch, stop, quit, learn the process number | SteamVR, the processes of games; UI and receive thread |
| Categories: `config.cpp` | list of categories; its sections in the INI file | create, delete, move, add and remove games, load, save | the menu; `g_categoriesMutex` |
| Custom games: `steam_games.cpp`, `window_proc.cpp` | custom games in the list of games; `custom_games.json` | add, delete, save details, load, save | UI thread and detached threads; `g_gamesMutex` |
| Drawing, Steam catalogue | caches | draw, read, download | SteamVR, Steam |

**The master controller** (`master-controller`, C++ on Windows).

| Component | State it keeps | Operations | Interacts with |
|---|---|---|---|
| Server: `server.cpp`, `station.cpp` | the list of stations, one row per connection; sockets | start, stop, accept, greet, receive, lose a station | one thread per station, the UI thread; the log's mutex |
| Window: `ui.cpp` | the rows' groups and selection | command, group, drop on another, close | sends to stations; threads of stations send it messages |
| Groups: `util.cpp` | groups by name; `station_groups.txt` | load, save | both |

### What is hard, and what makes each part correct

* *Write path.*  Requests read settings, clock and the row before they wait for a
  day lock, single statements run without that lock, transactions are retried
  with what was read before.  Correct: no station is ever in two overlapping
  reservations that block it; the locks of days and rows are never waited for in a
  circle (the gaps that are locked when station links are replaced may be, and MySQL
  then ends one transaction, which is run again); a reservation has one accepted
  payment; statuses only move forward; a late payment is decided the same way whether
  or not the sweep came first.
* *Paid booking and reconciliation.*  A charge may be answered late, twice or
  never, a payment may stay pending, cron works on lists and lookups that are
  old when it uses them, submissions are repeated.  Correct: a completed payment
  ends on its reservation or is refunded, which the code keeps with one exception (a
  retry that is refused), and not both, which it does not always keep
  (RefundedAndKept); one submission of an attempt charges; what the customer was
  told stands; every hold ends.
* *Availability.*  The page and the booking compute the same rule in two ways.
  Correct: what is offered is what is accepted; sessions keep the buffer.
* *Station.*  Two threads start, prolong and end the session through unlocked
  globals; two mutexes are taken in both orders; game data arrives late and out of
  order; the process can be closed or stopped at any point.  Correct: no
  session runs without something that will end it; it ends at its end time and
  survives a restart; the panel shows the selected game; nobody waits for ever.
* *Link.*  Every attempt to connect is a thread; all of them, the receive thread and
  whoever reports share one socket variable, and each closes what it finds there.
  Correct: a station that lost the master is linked again, with one socket.
* *Games.*  A launch learns its process number late, while a session may be stopped on the
  other thread; ending a process may fail, and nobody looks; the lists of games and
  categories are written in several steps that a crash or the closing of the window may
  cut short, and by threads that come late; what is read back from `settings.ini` is
  trimmed and cut.
  Correct: one custom game at a time; what a stop should end is ended; what was
  saved comes back, and what was deleted does not.
* *Master.*  Messages are not framed on the wire, both sides keep their own idea of a
  session, a station's two threads report it some time after they change it, threads
  change the list of stations while the window counts on its places, and the log's mutex
  is held across messages to the window.  Correct: the list shows a session where one runs; orders go to the stations meant; groups come
  back; every command is sent to its end.

`PROJECT.json` lists each hazard at its line, with the property that would catch it.

## Modules and the code

```
Availability ── ReservationTable ── Calendar            (abstract; implemented by the next two)
      │                │  └──────── Reservations ── MCReservations
      │                │                 └───────── ReservationsProofs ── CalendarProofs
      │                └─────────── BookingFlow ─── MCBookingFlow
      │                                  └───────── BookingFlowProofs
      └── Slots ── MCSlots
            └───── SlotsProofs

Station ── MCStation                     Launcher ────┐
   └────── StationProofs                 Categories ──┼─ MCGames ── GamesProofs
StationLink ── MCStationLink             CustomGames ─┘
     └──────── StationLinkProofs
Venue ── MCVenue
  └───── VenueProofs
```

`Venue` composes master and stations; it takes a connection as one step, which is
`StationLink`'s subject, and of the session only whether time is left, which is
`Station`'s.  The three parts of the games share no state, so `MCGames` explores each
with the others at rest.

* **Availability**: `Availability.php` and `StationAllocator.php` as operators:
  `FreeStations`, `Allocations` (the set with the one choice, or empty for null),
  `SlotStarts`.
* **ReservationTable**: the table and what the code reads from and writes to a row:
  `BlocksForDate`, `Overdue`, `Transition`, `NewRow`, `Reschedule`, and
  `ConfirmOutcome`, the decision of `confirmPayment()` under its locks.
* **Reservations**: the concurrent write path.  A process goes through *begin*
  (everything the method reads before its transaction), *lock* (one `booking_days`
  row at a time, in date order), *decide* (the reads under the locks, the INSERT or
  UPDATE of the reservation and the DELETE of its links) and *commit* (the INSERTs of
  the links and the COMMIT).
  | Variable | Code |
  |---|---|
  | `rows` | `reservations` with `reservation_stations` |
  | `lock`, `rowLock` | row locks of `booking_days` and of `reservations` |
  | `at`, `txn` | a PHP request's position and local variables |
  | `clock` | `Clock::now()`, counted in units of the shortest hold |
  | `accepted` | answers `confirmPayment()` gave (a history variable) |

  `cancel`, `failPayment`, the sweep and the release in `reconcileHolds` are single
  statements: one action each, blocked by a row lock and by nothing else.
  `LockTimeout` is MySQL's error 1205 and `DeadlockVictim` its error 1213, both with the
  retry of `Transaction::run` (`RollBack`); `Crash` is a request that dies at any point.

  `replaceStations()` deletes a reservation's links and inserts the new ones.  Under
  REPEATABLE READ the DELETE locks the gap of the primary key (reservation, station)
  around them, also when there are none, as after an insert; such gap locks
  do not exclude each other, but an INSERT into a gap waits for everybody else who
  has locked it (`InGap`, `GapsInTheWay`).  So two bookings of different dates, whose
  new ids are neighbours, can each wait for the other.  A link that is put back where
  it was is taken not to need the gap.  The gap locks the sweep may take in the index of
  status and deadline are not modelled, nor are those of the secondary index on the
  station and of the unique indexes: what they add are more waits of the kind
  `RollBack` ends.  An id a transaction has not committed is used again after its
  rollback, which AUTO_INCREMENT does not do; nobody has seen it by then.  The read view
  InnoDB gives a transaction is established by its first plain SELECT, which in
  all three transactions comes after the last lock, so a decision reads the
  committed tables as they are at that moment.  This was read from the code, and
  is the one place where the model depends on the isolation level.
* **Calendar**: the promise: the same operations, each in one step, none giving a
  station to two blocking reservations.  `Reservations!ImplementsCalendar` says
  the write path implements it (same `clock`, `rows` and `accepted`),
  `BookingFlow!ImplementsCalendar` that the paid booking does (`accepted` read off the table).
* **BookingFlow**: a paid booking end to end, its operations on reservations at the calendar's
  grain: one step each, which `ImplementsCalendar` checks.
  `scenario` is what may happen in one behaviour: which submissions share a `request_id`,
  and which of crashes, refused refunds, late captures and cancellations occur.
  `web[w]` is a submission of the form, `cron[c]` a run of `holds:release`,
  `charge[i]` the provider's payment (one per reservation, since the uuid is
  its idempotency key), `key` the unique `request_id` column.  Everything between
  two database operations is a step of its own.  `Refused` is the answer ERROR, which is
  about the last request: nothing is charged for that one
  (`SquareGateway.php:197-199`), but the first may have been carried out.
* **Slots**: one day: `Offered` is `PublicApi::availability()`, `RulesAllow` is
  `checkRules()`, `Chosen` the allocator, while bookings come and go.

* **Station**: the session and the menu of one station.  A step is a part of a
  handler that touches shared state once, or all it does while it holds the
  mutexes it needs; so the unlocked session variables are read and written in
  separate steps, as the two threads may see them.
  | Variable | Code |
  |---|---|
  | `running`, `endTime`, `timer`, `ini` | `g_SessionRunning`, `g_sessionEndTime`, the timer `SESSION_TIMER_ID`, `SessionEndTime` in the INI file |
  | `category`, `list`, `selected`, `loading`, `header` | the globals of the menu; indices count from 1, and 0 is the code's -1 |
  | `holder` | `g_overlayStateMutex`, `g_VROverlayGameListMutex` |
  | `at`, `call`, `seen` | where the UI thread and the receive thread are, with their arguments and the end time they have read |
  | `fetching` | detached threads and their `WM_APP_GAME_DATA_READY` messages |
  | `overlapped` | history: both threads were changing the session at once |

  `g_categoriesMutex` guards short reads in the handlers modelled here, so a section under
  it is one step.  Elsewhere it is taken inside the games' mutex (`window_proc.cpp:57-65`,
  `steam_games.cpp:287-294`), and the games' mutex inside it when a save looks games up
  (`config.cpp:65`, `81`); all of these run on the UI thread, so they cannot wait for
  one another.  `SetTimer` and `KillTimer` act on the window's timer from either thread.
  `SetWindowTextW` from the receive thread is a message to the UI thread, and waits
  until it handles messages (`ShowTime`).  A fetch that is repeated brings the
  same data and is the same member of `fetching`.  Times are counted from now:
  `TimePasses` counts every stored time down, and what is more than a unit in the
  past is `LongPast`, which no test in the code tells apart.

* **StationLink**: a station's connection, thread by thread.  One access to a shared
  variable, or one socket call, is one step.
  | Variable | Code |
  |---|---|
  | `clientSocket`, `connected`, `runRecv` | `g_clientSocket`, `g_connected`, `g_runRecvThread` |
  | `thread` | where each attempt, the receive thread and the UI thread are, with the socket they have in hand |
  | `kernel`, `master`, `losses` | what the system knows of each socket; whether the master answers |
  | `habit` | what happens in this behaviour: slow attempts, reports, how many losses |
  | `trouble`, `aborted` | history: a socket was taken from its thread, a send failed; `std::terminate` (assigning to a joinable `std::thread`) |

* **Venue**: the master with its stations.  What a thread does between two blocking calls is
  one step.
  | Variable | Code |
  |---|---|
  | `server`, `rows`, `groups`, `file` | `g_serverRunning` and the accept thread, `g_stations`, `g_stationGroups`, `station_groups.txt` |
  | `ui` | the window's thread: what it is sending, to which groups and places, and from which place on |
  | `conn` | a connection: its open ends, the messages under way in both directions, the handler's position |
  | `sock`, `left` | a station's socket and the time left of its session |
  | `unsent` | the report each of a station's two threads has still to send |
  | `evening`, `faults` | what may happen in this behaviour, and what of it still may |
  | `wish`, `forgotten`, `misled` | history: the group staff last gave, stations whose group may be lost, connections whose last report is not what it seems |

  A station's window thread and its receive thread both begin and end sessions.  Each sets
  `g_SessionRunning` first and reports later, after waiting for the window
  (`session.cpp:222`), for a game to end or for the network; `Sets` is the first and
  `SendToMaster` the second.  If the other thread begins or ends a session in between, the
  report is crossed (`Crossed`).  A save of the groups may fail to open or write the file,
  run into another thread's, or be cut short by the program's end (`Saves`, `CutShort`,
  `MasterEnds`); a handler whose station has gone saves, waits for the log and then removes
  its row (`ClientGone`, `RemoveStationRow`).  After the pause of "set" the send may find the
  row's connection closed, or fail and close it (`SendAfterNap`, `SendFails`).

  `recv` returns one message or several run together (`taken`); both programs look at the
  beginning of what they got (`Reported`, `ParseCommand`).  A message of one `send` is
  short and is taken to arrive whole.

* **Launcher**: processes, SteamVR's scene application, and the two globals that name the custom
  game's process.  A process number is not used again while somebody remembers it.
  `Learn` is the loop that asks for the number ten times.  `KillProcessByPID` fails when the
  process cannot be opened or ended; its callers go on and forget the number
  (`EndsOrLoses`).  `OpenProcess` may fail for a process that runs, which a launch takes for
  one that has ended, and succeed for one that has ended (`Again`).
* **Categories**: the list and its sections in `settings.ini`; each call of
  `WritePrivateProfileString` is one step and takes effect whole.  Reading back is not the
  identity: `ReadName` is what `GetPrivateProfileString` makes of a name (blanks and
  a pair of quotes around it are dropped, 255 characters are kept), `ReadGames` what is left of a
  list of ids that is longer than the reader's `Buffer`, in the order a save writes them
  (`NameOrder`), with the id at the edge cut (`Fragment`).  A write that fails is not
  modelled; the code does not look whether one did.
* **CustomGames**: the list, `custom_games.json`, the UI thread and the detached threads that save
  details.  A game's id is the second it was added in, as in the code.

What the models leave out of the booking system: contact details, prices and amounts;
wording of answers and mail; the date rules of `checkRules()`; `anonymiseBefore()`;
the confirmation code, whose five retries cannot run out in a model without
collisions.

## The runs

| Run | Question | Result |
|---|---|---|
| DoubleBooking | Can two requests get one station, or two payments one reservation, and over what do requests wait in a circle?  Two processes, two reservations, two payments, three schedules on two dates, one station in use, a crash, deadlock or timeout anywhere, a hold of one unit that may lapse | `NoDoubleBooking`, `Inv`, `OnlyGapsDeadlock`, `OnePaymentAccepted`, `SweepMakesNoDifference`, `StatusesAdvance` hold |
| Promises | Does the write path implement `Calendar`, and does every request end? | `ImplementsCalendar`, `EveryRequestEnds` hold |
| HeldMoves | DoubleBooking when staff may move held reservations to another date | violated, see below |
| CardPayments | Two customers and the counter compete for one station, the provider is slow or refuses a retry, and cron runs beside the requests; or one attempt is submitted twice while PHP and cron die, refunds are refused, payments complete late and staff cancel | `MoneyAccountedFor`, `NotExpiredWhenPaid`, `ChargedOnce`, `ConfirmedIsKept`, `HoldsEnd`, `ImplementsCalendar` hold |
| CancelledHold | a sentence of the documentation about refunds | violated, see below |
| RefundedAndKept | the two outcomes of a late payment, which the documentation gives as alternatives | violated, see below |
| StationSession | Two threads use one session and one menu (every handler on the UI thread, every command on the receive thread), a menu of two games and an empty category, sessions of one unit prolonged by one, closing, crashes and restarts | `RunningIsTimed`, `ImageIsSelected`, `SavedWhenAlone`, `EndsUnlessStuck` hold |
| Venue | Two stations and their connections; orders and pauses, groups, sessions that start and run out by themselves and are reported later, a station dropping out, a save of the groups that fails, the server stopped, the master ended, also in a save: a few of these at a time (the evenings of `MCVenue`) | `ShownAsItIs`, `GroupsReturn`, `OnlyChosen` hold |
| VenueLive | One station that drops out, a server that is stopped, a master that ends; does every command end and the station come back? | `CommandsEnd`, `ComesBack` hold |
| Reconnect | Two attempts at a time, slow or quick, a receive thread, reports, losses of the connection | `OneConnection`, `QuickAttempts`, `LinkedAgain` hold |
| Games | Launching and stopping with custom and Steam games, some of which cannot be ended; categories with blank and quoted names and a list longer than the buffer; custom games over two seconds and one or two detached threads | `OneCustomGame`, `StopEndsTheGame`, `SavedAsShown`, `GamesKept`, `DeletedStaysDeleted` hold |
| OneDay | Every small opening time, grid, lead and buffer, with sessions by customers and staff | `OfferedIffAccepted`, `SessionsApart`, `TightestFit` hold |

**Bounds, and why they are enough.**  A double booking, a lost payment or a
circle of locks involves two reservations and two writers; a third writer only
waits.  Two dates are what `update()` locks at most, and what two transactions need to be past
their locks together and wait for each other's gaps.  In the runs of `Reservations` the clock
ticks once, which lets a hold be made, lapse and be paid late; in CardPayments it reaches the end
of a hold and of a whole `Day` after it;
`Hold` and `Day` are both one unit, because only the order of deadline, deadline
plus a day and now is tested.  `MaxAttempts` is one retry in DoubleBooking and none in Promises
and HeldMoves: a later attempt of the code repeats the one before it.  `IdsLeft` keeps requests
from creating more rows than there are ids.  The runs have one configuration each; that
buffer, hours and active stations may change between what a request reads and what it locks is
in the theorems, which hold for any set `Configs`.  In `Slots`, a day of six units, grids of 2 and 3
and sessions of 1 and 3 contain every alignment of grid, buffer, lead and closing
time the two formulas distinguish; three sessions on two stations are enough to
leave and refill a gap.  The minute passes only on the present day; on any other
day no formula looks at it.  On a station, the countdown
distinguishes an end in the future, now and past, so sessions of one unit, prolonged
when they are due (`MaxLeft`: by one thread, or by both at once), meet every case; two games are what a late answer needs to be about the wrong one; the
two threads are all there are.  In `Venue`, two messages under way (`queue`) are what makes
two of them run together; with two stations and
one group a command goes from a group to single rows and from place to place; each fault happens
once, and two connections at a time, of one station or of two, are what an evening has
(`lines`).  A save that goes wrong needs an evening of its own ("save").  A session's remaining time matters to the master only as none or some.  Two attempts
to connect are what overlapping needs.  In `Launcher` three processes are a game, the one that replaces it and one that was lost.  In
`Categories` three sections let a list grow, shrink and be moved past a blank name, three names are
one that comes back as it is, one that comes back changed and one that comes back empty, and
two ids on a buffer that holds one and a part of the other show a cut; in `CustomGames` two seconds and two copies
distinguish games with one id from games with two.  Processes, ids and payments are symmetric where a run
has no liveness property.  What the finite runs cannot say about larger venues,
the theorems below say.

`CHECK_DEADLOCK FALSE` appears in the configurations of the booking system: with all ids (or all
sessions of the day) used and the clock at its bound a behaviour ends, and a
system without requests rests.  It also appears in Venue, VenueLive and
Reconnect, where a standoff of threads or `std::terminate`, which the properties name, ends
a behaviour; StationSession and Games check it.  Which deadlocks the database can have is
the invariant `OnlyGapsDeadlock`.

**Mutants.**  Every property of a passing run has a mutant: a change to one
definition that a plausible bug in the code would make (`...Unchecked`,
`...Unsorted`, `...AtOnce`), defined before it in the same module, that violates
the property in the same run.

## Fairness

*Reservations* (`LiveSpec`): strong fairness of each process's own steps or its end as the
victim of a deadlock.  A PHP request that has begun runs on, InnoDB grants a lock to a
waiting transaction when it is released, in turn, and looks for a circle whenever
somebody waits; strong fairness says a process is not passed over for ever.  Users, crashes, timeouts and the clock are not obliged to anything, so
`EveryRequestEnds` does not lean on the lock wait timeout.

*BookingFlow* (`LiveSpec`): weak fairness of the clock, of each request's steps, of
the network (a request arrives or is lost), of cron's start (it runs every five
minutes) and of its writes; strong fairness of the lookup of each reservation,
which is what "asked about again on the next run" needs: a provider that never
again answers a lookup would keep its holds for ever, as the code intends.  A
pending payment is never obliged to settle.

*Station* (`LiveSpec`): strong fairness of what each thread does inside a handler: it
runs on, and gets a mutex that is free again and again (a thread waits for a mutex
only while the other is inside a short section); strong fairness of the countdown,
because Windows makes `WM_TIMER` up whenever the queue is empty, and nobody can
keep a queue of clicks full for ever; weak fairness of time.  Guests, staff, the
master, the arrival of data and restarts are obliged to nothing.

*StationLink* (`LiveSpec`): weak fairness of the five second timer while the station takes
itself for disconnected, of every step of a thread, and of the master's return.
Commands, reports and losses are obliged to nothing; losses are bounded in number.

*Venue* (`LiveSpec`): weak fairness of the window's thread inside a command, of a connection's
thread at each step, of the stations' attempts to connect and of their noticing a
closed connection.  Strong fairness of three steps: `AddStationRow`, which waits for the
window to be back in its message loop (Windows delivers sent messages before posted
ones, so no row of clicks keeps it out), `ParseCommand`, whose
order waits while its thread has still a report to send, and `SendToMaster`, which waits while
as many messages are under way as the bound allows.  Staff, the faults and the
countdown are obliged to nothing.

## What the runs found

* **HeldMoves.**  `confirmPayment()` locks the day it read before its transaction
  (`Reservations.php:219`) and then decides about the day the row has now
  (`:237`).  `update()` moves held reservations too.  If staff move a hold to
  another date in between, and the hold is past due, its payment is confirmed on
  stations that a concurrent `create()` on the new date has just taken.
  `docs/architecture.md:27` promises that this cannot happen.
* **CancelledHold.**  Staff cancel a hold while its charge is unanswered.  The
  request ends with `payment_unknown`; cron lists held reservations only; the
  payment completes and is never refunded.  `docs/architecture.md:53-54` promises
  the refund when "staff cancelled".
* **RefundedAndKept.**  A cron run looks up a completed payment and stalls before
  `confirmPayment()` (`Reservations.php:327`).  The request itself gets `hold_expired`
  and refunds (`BookingFlow.php:126`).  The time becomes free again, and the cron run
  confirms the expired reservation: confirmed, and its payment given back.
  `docs/architecture.md:51-52` describes the two outcomes as alternatives.

### What else was found

These disagreements with the documentation were met while modelling and are described by the
properties that allow for them; no run of their own shows them.

* Two transactions that write different dates can deadlock, over the gaps they lock in
  `reservation_stations`.  `Reservations.php:170` says that sorted dates are why "two staff edits
  cannot deadlock", and so does `docs/architecture.md:39-40`; they are not enough.
  `Transaction::run` starts the victim again, up to three times, so a request fails
  only if that happens each time.  `OnlyGapsDeadlock` says what the sorted dates do achieve.
* The first request for a charge times out and is carried out; the retry is refused for another
  reason (a token revoked meanwhile, a conflict).  `BookingFlow.php:112-116` fails the payment and
  tells the customer "your card was not charged".  `MoneyAccountedFor` names this case.
* A retry passes `idForRequest()` (`BookingFlow.php:46`) before the first submission commits,
  then `create()` looks for stations before the insert that would hit the unique index,
  and the retry is told the time is taken, by its own first submission.
  `docs/api.md:41-42` promises the first reservation.
* A session is running when the master sends START_SESSION for the next guest.  The receive
  thread takes the list mutex and waits for the overlay mutex (`session.cpp:128-129`);
  the UI thread has the overlay mutex and waits for the list (`window_proc.cpp:898-899`,
  `overlay.cpp:2587-2588`).  From then on the window handles no message, the countdown
  included; `docs/in-venue.md:22-25` says that the station ends the session "on its
  own".  `EndsUnlessStuck` adds that there is one other way to get stuck, the UI thread
  joining a receive thread that is setting the text of a window (`network.cpp:126`,
  `session.cpp:34`), and no third.
* The countdown calls `QuitVRApp` only, so a custom game that is not SteamVR's scene
  application goes on after its session; `StopSession` also terminates it.
  `StopEndsTheGame` is therefore about stops.  A stop on the receive thread can also forget a
  game that the UI thread has just recorded, a restart forgets every game, and a game that
  could not be ended is forgotten as if it had been.
* `LinkedAgain`, `OneConnection` and `QuickAttempts` say how far the reconnection of
  `docs/in-venue.md` carries.  If an attempt takes longer than the five seconds of the timer, the
  next one closes its socket, and the receive thread calls `recv` on a socket that is still
  connecting, fails and closes it.  In one such order the station ends with `g_connected`
  set and no socket, and the timer, which looks at `g_connected` only, never tries
  again; in another two attempts start the receive thread and the program is terminated.
* `HandleClient` holds the log's mutex while it adds its row to the list view, which needs the
  window's thread; the window logs after each order it sends.  Each can wait for the other
  (`Standoff`), and a station whose saved name contains its address makes `HandleClient` lock
  the mutex it holds.  `accept()` failing once ends the server's thread while
  `g_serverRunning` stays set, so the window offers no way to start it again but a stop.
* Messages run together: a name is spoilt by what follows it, a report behind TIME_LEFT
  is not seen and the row keeps showing a session, and the START of a SET_TIME is
  lost when the station reads it together with the STOP.
* A station's reports can overtake each other: SESSION_STARTED waits on the receive thread for the
  window to show the time (`session.cpp:222`), whose countdown ends the session and says so
  first, and the master goes on showing a session until the next report.
* A group is lost when a send to the station fails, before the pause of "set" or after it, when
  a save fails, runs into another or is cut short by the program's end, when the row left of such a send outlives the
  station's new one, when the server is stopped, when a station
  is away at the program's end, when it comes back before its old connection is noticed,
  and when it is grouped before its name has arrived (`forgotten` in `Venue`).
* A list of games longer than 4095 characters loses its last games at the next start, and the next
  save makes that permanent; a name loses blanks and quotes around it.
* A category whose name is blank hides itself and all that follow at the next start, and the
  next save erases them.  A crash in a save that made the list longer leaves a section beyond
  `Count`, which no later save clears and a later load may read (`leftover`).
* `custom_games.json` is emptied before it is written; a start at which Steam is not found loads
  no custom games, and the next save writes an empty list; games without an executable
  are not loaded at the next start; two games added in one second have one id, and deleting
  one deletes both.

## What is proved

Theorems hold for every value of the constants that satisfies the named assumptions; none of
the bounds of the runs plays a part in them unless it is said.

| Module | Theorems | Run |
|---|---|---|
| `ReservationsProofs` | `TypesKept`, `InvariantKept`, `NeverDoubleBooked`, `OnePaymentOnly` | DoubleBooking |
| `CalendarProofs` | `CalendarIsImplemented`, `StatusesMoveForward`, `SweepIsHarmless`, `OnlyGapsCloseACircle` | DoubleBooking, Promises |
| `BookingFlowProofs` | `FlowTypesKept`, `AttemptsAreChargedOnce`, `PromisesAreKept`, `NoMoneyIsLost`, `PaidHoldsAreKept`, `FlowKeepsCalendar`, `FlowNeverDoubleBooks` | CardPayments |
| `SlotsProofs` | `SessionsKeepTheBuffer`, `OffersAreAccepted`, `FilledOneByOne` | OneDay |
| `StationProofs` | `TypesKept`, `SessionsAreTimed`, `ImageIsOfSelected`, `EndsAreSaved` | StationSession |
| `StationLinkProofs` | `LinkTypesKept`, `OneConnectionAlways`, `QuickAttemptsHarmless` | Reconnect |
| `GamesProofs` | `LauncherTypesKept`, `CustomGamesTracked`, `StopsEndGames`; `CustomTypesKept`, `GamesAreKept`, `DeletedGamesStayDeleted`; `CategoriesTypesKept`, `CategoriesSavedAsShown`; `PartsKept`, `GamesTypesKept` | Games |
| `VenueProofs` | `VenueTypesKept`, `SessionsShown`, `GroupsKept`, `OrdersToChosen` | Venue |

Every invariant and every safety property of a step that a run checks is the statement of one of
these theorems.

### The write path

`ReservationsProofs` proves for every finite or infinite choice of processes, ids,
stations, dates, requests, payments and configurations allowed by
`ScheduleAssumption`, `TableAssumption`, `ConfigAssumption`, `KeyAssumption`,
`NumberAssumption` and `ProcessAssumption` (schedules are not empty, ids and stations are
numbers, station numbers are unique, the markers are not ids):

* `TypesKept`: `Spec => []TypeOK`.
* `OnePaymentOnly`: `Spec => []OnePaymentAccepted`.
* `InvariantKept`, `NeverDoubleBooked`: `~ MovesHeld /\ Spec => []Inv`, and from it
  `[]NoDoubleBooking`.

`MovesHeld` is the freedom HeldMoves uses; without the condition the theorem is
false, and the run shows it.  The condition is the model's name for "staff move a
held reservation only within its date".

**Why `NoDoubleBooking` is not inductive, and what is.**  The table alone does not say
why a commit is safe.  The argument needs:

* `DayLocksHeld`: who decides or commits holds the row of every date of its transaction,
  so two transactions about one date are never both past their locks;
* `RowLocksHeld`, `LockedRowsKept`: the single statements cannot touch a row
  between its decision and its commit;
* `DatesKnown`: a confirmation holds the date its reservation is on (this is
  where `~ MovesHeld` is used);
* `ClaimsFree`: what a transaction decided on is free *at the clock reading it works
  with*, `txn.now`, of every reservation that blocks then, and stays so.  An
  old reading is the cautious one: fewer holds have lapsed at it.  This is why a clock read
  before the lock is harmless in `create()` and `update()`;
* `LockedDateConsistent`: `confirmPayment()` reads its clock under the lock; a
  hold that is not past due then is confirmed without a look at the calendar,
  which is safe only because the date had no double booking at that reading.

`Orderly` is the part that needs no condition, `Inv` the whole; both are checked by TLC
in DoubleBooking before they are proved.  The proof has one lemma per action
(grouped by what the action can disturb: rows, processes, clock), `FreeIsDisjoint`
for the step from the buffer rule to disjoint sessions, and `BlocksForDate`
and `Allocations` characterised once and cited by name.

`CalendarProofs` builds on these:

* `CalendarIsImplemented`: `~ MovesHeld /\ Spec => ImplementsCalendar`.  What a
  transaction remembers is the reason a commit is a step of `Calendar` (`Remembered`): it was
  asked for something legal (the schedule is of a request, the deadline no further away
  than `MaxHold`, as many stations are chosen as asked for), a hold it
  is about to lapse is past due, and a payment on record has been reported, so that a second
  report of it stutters.  `CommitCreate` is then `Book`, `CommitUpdate` is `Move`, `CommitPay`
  is `Accept`; `CommitLapse`, `ReleaseHold` and `ExpireHolds` are `Lapse`; cancelling and a failed
  payment are `Drop`, the clock is `Advance`, and every other step stutters.
  That there is room (`Fits`) is `ClaimsFree` carried from the earlier clock reading to
  now, which is where the condition on moves comes from.
* `StatusesMoveForward`: `Spec => StatusesAdvance`, without the condition.
* `SweepIsHarmless`: `Spec => []SweepMakesNoDifference`.  Whatever `ExpireHolds` would
  write, it changes no answer of `BlocksForDate`.
* `OnlyGapsCloseACircle`: `Spec => []OnlyGapsDeadlock`, for dates that are numbers with a last
  one.  A transaction locks dates in their order (`LockedInOrder`: what it holds is
  before what it still wants), takes the row of a reservation only after all of them, and gaps
  last, so who holds a row or waits for a gap waits for neither dates nor rows.  Among the processes
  that wait for a date there is one that waits for the greatest, and whoever holds it
  waits for a row or a gap; whoever holds a row waits for a gap at most.  So in every circle some
  wait for gaps, and they wait for each other.

### Slots

`SlotsProofs` proves three theorems from `SlotsAssumption`: a finite set of stations with
unique numbers, settings and durations of the ranges the code accepts.

* `SessionsKeepTheBuffer`: `Spec => []SessionsApart`, inductive with `Numbered`, that the numbers of
  bookings in the table were given out.
* `OffersAreAccepted`: `Spec => []OfferedIffAccepted`.  Two lemmas carry it: `GridIsTheRules` (the
  starts of the grid are those that pass the rules `evaluate()` applies one by one) and
  `AllocatedIffFree` (the allocator chooses stations exactly when enough are free).
* `FilledOneByOne`: `Spec => []TightestFit`.  `Filled` is what the allocator may return for a number of
  stations; one station more of those left, preferred to the others, fills one more (`OneMore`), and
  there is never more than one way (`OnlyOne`, since of two stations one is preferred).  The
  reference `OneByOne` is a recursive function, about which no induction can be done here;
  `OneByOneFills` shows instead that the function of the filled sets satisfies its equation, and that
  any function that does agrees with it at each number of stations, by taking the least number at
  which it would not.

### Paid booking

`BookingFlowProofs` proves from `FlowAssumption`, `ScheduleAssumption` and `TableAssumption`, for
any number of customers, sweeps and reservations and any set of `Events` (crashes, lost
answers, failing refunds).  The invariant has two halves, `IInv == AnyInv /\ (Settling => QuietInv)`:

* `AnyInv` holds whatever breaks: a `request_id` belongs to one reservation (`KeysUnique`), which
  no other payment confirms (`KeyOK`); what a request and a sweep know where they are (`WebOK`,
  `CronOK`); of the submissions that share a `request_id` only the one that made the reservation
  has sent a charge (`ChargerOK`).  `FlowTypesKept`,
  `AttemptsAreChargedOnce` (one submission of an attempt charges, all others send
  none) and `PromisesAreKept` follow from it;
* `QuietInv` holds in evenings without events but refused retries (`Settling`): who charges does so while the hold lasts
  (`ChargingOK`), an attempt that was sent has someone to wait for its answer (`SentOK`), money that
  was taken is confirmed, refunded, or for somebody still to see to (`PaidOK`), and a
  sweep releases only what was not paid, or is a day late (`ReleaseOK`).  `NoMoneyIsLost` and `PaidHoldsAreKept`
  follow; both speak of such evenings only, and `NoMoneyIsLost` leaves out one payment: of a
  first request that was carried out while its retry was refused, which the code fails.

In every evening, the paid booking refines `Calendar` (`FlowKeepsCalendar`).  The payments that
`confirmPayment` reported are read off the table (`Reported`), since a reservation keeps the payment
that confirmed it.  A confirmation is a step of the calendar only if the stations have room for it:
an expired or past-due hold is looked at then (`StillFree`), one that is not past due has had its
claim all along, and that is `NoDoubleBooking`.  So the two are proved together:
`BookedInv == IInv /\ NoDoubleBooking /\ Unused`, `FlowPromised` (a step is one of the calendar's, or
leaves it alone), and `CalendarKeeps` (the calendar's own operations book no station
twice).  `FlowNeverDoubleBooks` follows: `Spec => []NoDoubleBooking`.

### The station

`StationProofs` proves for every set of games, every menu and all session lengths
(`GameAssumption`, `TimeAssumption`):

* `TypesKept`: `Spec => []TypeOK`; the bound `MaxLeft` plays no part in it.
* `SessionsAreTimed`: `Spec => []RunningIsTimed`.  The invariant is inductive once
  it is known with which purpose a thread comes to `KillTimer` and `SetTimer`
  (`Purposeful`).  One lemma says what a step inside a handler must respect, one what a
  return must and one what a beginning must (`TimedGo`, `TimedReturn`, `TimedBegin`);
  each action is an instance.
* `ImageIsOfSelected`: `Spec => []ImageIsSelected`.  Needed are `OverlayHeld` (whoever
  checks and shows holds the overlay mutex), `StillWanted` (between the check and the
  image the list may change, but then no game is selected), and that a process
  that is down selects none.
* `EndsAreSaved`: `Spec => []SavedWhenAlone`.  In the middle of a handler memory and file differ, so the
  invariant says how far a handler has come that no other has disturbed (`Progress`: which of the
  end in memory, the end it has read and the end in the file agree at each line), where
  the handlers of a session can be (`InPlace`), and that there is one of them at a time.

### The connection of a station

`StationLinkProofs` proves `LinkTypesKept`, `OneConnectionAlways` (`Spec => []OneConnection`) and
`QuickAttemptsHarmless` (`Spec => []QuickAttempts`) from `LinkAssumption`, for any number of dialers.  `OneConnection` speaks of a station
until one thread has taken the socket of another (`Crossed`), which the code permits.
Inductive is `TypeOK /\ HandInv /\ (~ Crossed => OwnSocketInv)`: which thread has a
socket in hand at which line, and that a live socket is the shared one, a dialer that connects is
the only one, and a missing connection is about to be noticed.

For `QuickAttempts` the invariant (`QuickInv`) says how threads take turns as long as an attempt is over
before the next begins: there is one attempt, and it starts the receive thread once (`OneAttempt`);
while no send has failed the socket is the attempt's until it is announced and the receive thread's
afterwards (`AttemptHas`, `ReaderHas`).  A failing send is the one thing that breaks the turns,
which is why the property names it.

### The games

`GamesProofs` proves about each part by itself, from `LauncherAssumption`, `CustomGamesAssumption` and
`CategoriesAssumption`, and then (`PartsKept`) that the composition the run Games explores
behaves as each part does alone, so that every theorem about a part holds of the whole.

* Launching: the invariant is `TypeOK /\ LaunchInv /\ MemoryInv /\ OneCustomGame /\ StopInv`: what
  the window's thread knows at each line of a launch, that a process number is remembered only where
  it is used, and that without a session a custom game that still runs was launched since, was
  lost sight of, or is about to be ended.  Ending a process and asking after one may fail in
  every step that does it; the game is then among those lost sight of, which both
  properties name.  `CustomGamesTracked` and `StopsEndGames` are its
  last two parts.
* Custom games: the invariant is `CustomTypeOK /\ ListInv`: as long as no save is under way or
  outstanding, the file holds what the staff made and nothing they deleted, and once the list was
  read the list in memory does so too.  `GamesAreKept` and `DeletedGamesStayDeleted` follow for
  every number of worker threads.
* Categories: `CategoriesSavedAsShown` needs to know how much of the file a save has written at
  each of its writes (`SavingInv`, `WrittenInv`), that a section beyond the count is either below
  `leftover` or still being written (`StaleInv`), and that between saves the list is what was loaded or what the
  last save has written (`CopyInv`).  That a load of the file gives a part of the list up to the
  first name that reads as empty is `LoadsAsShown`, by the first such section.  What reading does to
  a name and to a list of games is a parameter, so the theorem holds for any; the
  list in memory is either what a load has read or what a save has written.

### The master and its stations

`VenueProofs` proves from `VenueAssumption`, for any number of stations, connections and groups, streams
of any length and any set of evenings.  The invariant is
`VenueInv == LinksInv /\ ChosenInv /\ ShowInv /\ GroupInv`.

* `LinksInv` relates the list to the connections: a connected row has a handler, the master's end of its
  connection is open, the name in it is its station's, and no other row has the
  connection (`RowsInv`); the name comes first in what a station sends, and nothing is read before
  its handler reads (`LinesInv`); a station's socket is its end of one of its connections
  (`SocksInv`); nothing is left of a master that has ended (`OverInv`).  `VenueTypesKept` follows.
* `OrdersToChosen`: `Spec => OnlyChosen`, an action property.  `ChosenInv` says that, as long as no row was
  erased during the command, the places noted are of stations that were chosen, and the row the pause of
  `set` is for is chosen or in the group being served.  A row can change its group in the middle of a
  command, when its name arrives; the invariant tells why it then does not enter the group being
  served: the group it was remembered with is the one it has, or it was chosen.
* `SessionsShown`: `Spec => []ShownAsItIs`.  `ShowInv` says what the reports under way tell in the end
  (`Tells`) and what a thread has still to say: a report not crossed yet agrees with the session
  (`SaidInv`), and while no thread has one to send (`Due`), the last one under way agrees with the
  session unless its connection is misled, so that a row agrees once all are read.
* `GroupsKept`: `Spec => []GroupsReturn`.  A station's group is in up to four places: its rows, the
  groups the master remembers, the file, and what staff last chose.  `GroupInv` says, for a station that
  is not forgotten, which of them must agree when: rows always, the memory unless a connected row has
  it, the file unless a save is due.  A handler between its save and the removal of its row has
  remembered the group already, and the row may not get another (the clause about "gone").

Three things came to light in these proofs that TLC could not show on its instances.  A row whose
send failed stays in the list without a connection and with its old group; when its station comes back
and staff group the new row only, the old group is saved once the new row is gone.  `Regroup`
therefore calls a station's group sure only when all its rows get it.  Two arms of a CASE in
`Reported` overlapped, where TLC takes the first and the logic leaves the choice open; they
are disjoint now.  And a list without a first element (`Stations` empty) has no `Fresh`
connection, hence `Stations # {}` in the assumption.

## What is only model-checked, and what is not modelled

Only checked by TLC: the liveness properties, `EveryRequestEnds`, `HoldsEnd`, `EndsUnlessStuck`,
`LinkedAgain`, `CommandsEnd` and `ComesBack`.  They rest on fairness, that is on `ENABLED`, which the
prover cannot reason about.  What the two runs that expect a violation show has no theorem either.

Not modelled:

* the parts `PROJECT.json` lists as `not_modelled`, each with its reason: the HTTP layer, mail,
  pages and support code, which keep no state of their own or only format; prices, opening
  hours and time zones, which are pure functions; Windows graphics, Steam's files and its
  store;
* vendored code.  `station/StationApp/json.hpp` alone is two thirds of the lines in the
  repository's languages and is a library used for two files, so a share of all
  lines says little about the programs themselves;
* in `Venue`: positions of the bubbles (they are kept like groups), a socket handle that the system
  gives to a new connection while the list still has the old row, connections that are half open
  for ever, a message split over two segments, the place of a bubble that is dragged while
  its row moves;
* in `Launcher`, the hiding of the overlay; in `CustomGames`, a message box that is shown with
  `g_gamesMutex` held (`window_proc.cpp:1344`), whose message loop may handle a message that
  takes the mutex again: the program then hangs or ends, which is a crash to the model.

## Plan

1. *Done*: `Availability`, `ReservationTable`, `Calendar`, `Reservations`, `Station`,
   `BookingFlow`, `Slots`, `StationLink`, `Launcher`, `CustomGames`, `Categories`, `Venue`, with proofs.
2. A payment mode that changes while holds exist; the migrator; the throttles.
3. Operators against references: `Money` and `PriceList` (rounding, tax),
   `HoursRules` (overrides, closed days), `LocalTime` (daylight-saving changes).
4. *Done*: the safety properties of all runs as theorems.  Left: the safety half of the liveness
   arguments, that is, what an overdue session, a lost station or an unanswered hold is
   always able to do next.
