---------------------------- MODULE StationLink ----------------------------
(***************************************************************************)
(* A station's connection to the master, thread by thread (network.cpp):   *)
(* every attempt to connect is a detached thread of its own, started by    *)
(* the 5 second timer or the Connect button, the receive thread waits on   *)
(* the connection, and the window's thread and the receive thread report   *)
(* on it.  They share g_clientSocket, g_connected and g_runRecvThread      *)
(* without a lock; one access to a shared variable, or one socket call, is *)
(* one step.                                                               *)
(*                                                                         *)
(* Venue takes this connection as one step and looks at what passes over   *)
(* it.  The end of the program is in Station.                              *)
(***************************************************************************)
EXTENDS Naturals

CONSTANTS
  Dialers,     \* bound: attempts to connect at a time
  Sockets,     \* numbers for sockets; one is used again when nobody has it
  Habits,      \* what may happen in one behaviour (see Habit)
  NoSocket

\* slow: an attempt takes so long that the receive thread's second of sleep or
\* the timer's five end meanwhile.  talk: a session runs and is reported on.
\* Bound: losses is how often the connection, or the master, is lost.
Habit == [slow : BOOLEAN, talk : BOOLEAN, losses : Nat]

ASSUME LinkAssumption ==
  /\ Sockets \subseteq Nat /\ NoSocket \notin Sockets
  /\ "ui" \notin Dialers /\ "reader" \notin Dialers
  /\ Habits \subseteq Habit

VARIABLES
  clientSocket,   \* g_clientSocket
  connected,      \* g_connected
  runRecv,        \* g_runRecvThread
  thread,         \* where each thread is, and the socket it has in hand
  kernel,         \* the system's view of the sockets
  master,         \* the master can be reached
  losses,         \* how often it was lost
  habit,          \* the habit this is
  trouble,        \* history: "crossed" a thread took away a socket not its own,
                  \* "failed" a send failed
  aborted         \* std::terminate was called

shared == <<clientSocket, connected, runRecv>>
outside == <<master, losses, habit>>
vars == <<shared, thread, kernel, outside, trouble, aborted>>

Threads == Dialers \cup {"ui", "reader"}

\* Where a thread can be; close, forget and unset are the three steps of giving
\* the socket up.
Places(t) ==
  {"close", "forget", "unset"} \cup
  CASE t = "reader" -> {"none", "look", "recv", "report"}
    [] t = "ui" -> {"idle", "report"}
    [] OTHER -> {"idle", "check", "drop", "open", "dial", "wait", "mark", "run", "spawn", "name"}

TypeOK ==
  /\ clientSocket \in Sockets \cup {NoSocket}
  /\ connected \in BOOLEAN /\ runRecv \in BOOLEAN
  /\ DOMAIN thread = Threads
  /\ \A t \in Threads : thread[t] \in [at : Places(t), socket : Sockets \cup {NoSocket},
                                      next : {"none"} \cup Places(t)]
  /\ kernel \in [Sockets -> {"closed", "open", "joined", "broken"}]
  /\ master \in BOOLEAN /\ habit \in Habits /\ losses \in 0 .. habit.losses
  /\ trouble \subseteq {"crossed", "failed"} /\ aborted \in BOOLEAN

\* A thread between two calls.
At(place) == [at |-> place, socket |-> NoSocket, next |-> "none"]

Init ==
  /\ clientSocket = NoSocket /\ connected = FALSE /\ runRecv = FALSE
  /\ thread = [t \in Threads |-> At(IF t = "reader" THEN "none" ELSE "idle")]
  /\ kernel = [x \in Sockets |-> "closed"]
  /\ master \in BOOLEAN /\ losses = 0 /\ habit \in Habits
  /\ trouble = {} /\ aborted = FALSE
-----------------------------------------------------------------------------
Alive(x) == x # NoSocket /\ kernel[x] \in {"open", "joined"}

\* The attempts whose connection is not yet announced.
Connecting == {d \in Dialers : thread[d].at \in {"dial", "wait", "mark"}}

\* Whether thread t is about to take away a socket it did not have in hand, or
\* one that another attempt is connecting.
Crossing(t) ==
  IF clientSocket = NoSocket \/ (clientSocket = thread[t].socket /\ Connecting \subseteq {t})
  THEN {} ELSE {"crossed"}

Crossed == "crossed" \in trouble

Goes(t, place) == thread' = [thread EXCEPT ![t].at = place]

\* Give the socket up, and go on at a place.
GivesUp(t, next) == thread' = [thread EXCEPT ![t].at = "close", ![t].next = next]

RestAtEnd(t) == "idle"

\* Where a thread goes when a call of SendToMaster has returned.
Rest(t) == IF t = "reader" THEN "look" ELSE "idle"

Dialling == {d \in Dialers : thread[d].at # "idle"}

\* The timer, the Connect button, or the first attempt of WinMain.  Bound: when
\* threads have crossed what is under way goes on, and nothing new begins.
ConnectToMasterAsync(d) ==
  /\ thread[d].at = "idle" /\ thread["ui"].at = "idle"
  /\ Dialling = {} \/ habit.slow
  /\ ~ connected /\ ~ Crossed
  /\ Goes(d, "check")
  /\ UNCHANGED <<shared, kernel, outside, trouble, aborted>>

\* ConnectToMaster looks again.
Check(d) ==
  /\ thread[d].at = "check"
  /\ Goes(d, IF connected THEN "idle" ELSE "drop")
  /\ UNCHANGED <<shared, kernel, outside, trouble, aborted>>

\* The socket of before is closed first.
Drop(d) ==
  /\ thread[d].at = "drop"
  /\ IF clientSocket = NoSocket THEN Goes(d, "open") ELSE GivesUp(d, "open")
  /\ UNCHANGED <<shared, kernel, outside, trouble, aborted>>

\* The sockets nobody has.
Unused == {x \in Sockets : kernel[x] = "closed" /\ clientSocket # x
                           /\ \A t \in Threads : thread[t].socket # x}

\* Which number a new socket has makes no difference: the smallest.
Open(d) ==
  /\ thread[d].at = "open"
  /\ \E x \in Unused :
       /\ \A y \in Unused : x <= y
       /\ clientSocket' = x
       /\ kernel' = [kernel EXCEPT ![x] = "open"]
       /\ thread' = [thread EXCEPT ![d].at = "dial", ![d].socket = x]
  /\ trouble' = trouble \cup Crossing(d)
  /\ UNCHANGED <<connected, runRecv, outside, aborted>>

\* connect() is called with what g_clientSocket is by then.
Dial(d) ==
  /\ thread[d].at = "dial"
  /\ thread' = [thread EXCEPT ![d].at = "wait", ![d].socket = clientSocket]
  /\ UNCHANGED <<shared, kernel, outside, trouble, aborted>>

\* connect() on x can succeed.
Reaches(x) == x # NoSocket /\ kernel[x] = "open" /\ master

Joined(d) ==
  LET x == thread[d].socket
  IN  /\ thread[d].at = "wait" /\ Reaches(x)
      /\ kernel' = [kernel EXCEPT ![x] = "joined"]
      /\ Goes(d, "mark")
      /\ UNCHANGED <<shared, outside, trouble, aborted>>

\* The master does not answer, or another thread has taken the socket.  The
\* socket given up is the one of that moment.
DialFails(d) ==
  /\ thread[d].at = "wait" /\ ~ Reaches(thread[d].socket)
  /\ GivesUp(d, "idle")
  /\ UNCHANGED <<shared, kernel, outside, trouble, aborted>>

Mark(d) ==
  /\ thread[d].at = "mark"
  /\ connected' = TRUE
  /\ Goes(d, "run")
  /\ UNCHANGED <<clientSocket, runRecv, kernel, outside, trouble, aborted>>

RunAnew(d) ==
  /\ thread[d].at = "run"
  /\ Goes(d, "spawn")
  /\ UNCHANGED <<shared, kernel, outside, trouble, aborted>>

Run(d) ==
  /\ thread[d].at = "run"
  /\ Goes(d, IF runRecv THEN "name" ELSE "spawn")
  /\ UNCHANGED <<shared, kernel, outside, trouble, aborted>>

\* Assigning to a std::thread that runs calls std::terminate.
Spawn(d) ==
  /\ thread[d].at = "spawn"
  /\ runRecv' = TRUE
  /\ IF thread["reader"].at = "none"
     THEN /\ thread' = [thread EXCEPT ![d].at = "name", !["reader"] = At("look")]
          /\ UNCHANGED aborted
     ELSE /\ aborted' = TRUE
          /\ UNCHANGED thread
  /\ UNCHANGED <<clientSocket, connected, kernel, outside, trouble>>

\* RecvThreadProc takes the socket there is, or sleeps; a quick attempt is over
\* when it wakes.
Look ==
  /\ thread["reader"].at = "look" /\ clientSocket # NoSocket
  /\ connected \/ habit.slow
  /\ thread' = [thread EXCEPT !["reader"].at = "recv", !["reader"].socket = clientSocket]
  /\ UNCHANGED <<shared, kernel, outside, trouble, aborted>>

\* recv returns a command, which is carried out and reported.
Command ==
  /\ thread["reader"].at = "recv" /\ kernel[thread["reader"].socket] = "joined" /\ habit.talk
  /\ Goes("reader", "report")
  /\ UNCHANGED <<shared, kernel, outside, trouble, aborted>>

RecvFailsConnected ==
  /\ thread["reader"].at = "recv" /\ kernel[thread["reader"].socket] # "joined"
  /\ IF clientSocket = NoSocket THEN Goes("reader", "look") ELSE GivesUp("reader", "look")
  /\ UNCHANGED <<shared, kernel, outside, trouble, aborted>>

\* recv fails, also on a socket that is not connected yet; the socket given up
\* is the one of that moment.
RecvFails ==
  /\ thread["reader"].at = "recv" /\ kernel[thread["reader"].socket] # "joined"
  /\ IF clientSocket = NoSocket THEN Goes("reader", "unset") ELSE GivesUp("reader", "unset")
  /\ UNCHANGED <<shared, kernel, outside, trouble, aborted>>

\* TIME_LEFT and its kind, from the window's thread.
Report ==
  /\ thread["ui"].at = "idle" /\ connected /\ habit.talk
  /\ Goes("ui", "report")
  /\ UNCHANGED <<shared, kernel, outside, trouble, aborted>>

\* Whether send fails; on a connection the master has closed it may do either.
Fails ==
  IF ~ connected \/ clientSocket = NoSocket THEN {FALSE}
  ELSE CASE kernel[clientSocket] = "joined" -> {FALSE}
         [] kernel[clientSocket] = "broken" -> BOOLEAN
         [] OTHER -> {TRUE}

SendToMaster(t) ==
  /\ thread[t].at \in {"name", "report"}
  /\ \E fails \in Fails :
       /\ thread' = [thread EXCEPT ![t] = IF fails THEN [at |-> "close", socket |-> clientSocket,
                                                        next |-> "unset"] ELSE At(Rest(t))]
       /\ trouble' = IF fails THEN trouble \cup {"failed"} ELSE trouble
  /\ UNCHANGED <<shared, kernel, outside, aborted>>

Close(t) ==
  /\ thread[t].at = "close"
  /\ kernel' = IF clientSocket = NoSocket THEN kernel ELSE [kernel EXCEPT ![clientSocket] = "closed"]
  /\ trouble' = trouble \cup Crossing(t)
  /\ Goes(t, "forget")
  /\ UNCHANGED <<shared, outside, aborted>>

Forget(t) ==
  /\ thread[t].at = "forget"
  /\ clientSocket' = NoSocket
  /\ trouble' = trouble \cup Crossing(t)
  /\ thread' = [thread EXCEPT ![t] = At(thread[t].next)]
  /\ UNCHANGED <<connected, runRecv, kernel, outside, aborted>>

Unset(t) ==
  /\ thread[t].at = "unset"
  /\ connected' = FALSE
  /\ thread' = [thread EXCEPT ![t] = At(Rest(t))]
  /\ UNCHANGED <<clientSocket, runRecv, kernel, outside, trouble, aborted>>

\* The master closes the connection, or cannot be reached any more.
MasterLost ==
  /\ losses < habit.losses /\ ~ Crossed
  /\ losses' = losses + 1
  /\ master' \in BOOLEAN
  /\ kernel' = [x \in Sockets |-> IF kernel[x] = "joined" THEN "broken" ELSE kernel[x]]
  /\ UNCHANGED <<shared, thread, habit, trouble, aborted>>

MasterBack ==
  /\ ~ master
  /\ master' = TRUE
  /\ UNCHANGED <<shared, thread, kernel, losses, habit, trouble, aborted>>
-----------------------------------------------------------------------------
DialStep(d) ==
  Check(d) \/ Drop(d) \/ Open(d) \/ Dial(d) \/ Joined(d) \/ DialFails(d) \/ Mark(d) \/ Run(d) \/ Spawn(d)

GiveUpStep(t) == SendToMaster(t) \/ Close(t) \/ Forget(t) \/ Unset(t)

ReaderStep == Look \/ Command \/ RecvFails

\* Nothing follows std::terminate.
Next ==
  /\ ~ aborted
  /\ \/ \E d \in Dialers : ConnectToMasterAsync(d) \/ DialStep(d)
     \/ \E t \in Threads : GiveUpStep(t)
     \/ ReaderStep \/ Report
     \/ MasterLost \/ MasterBack

Spec == Init /\ [][Next]_vars

\* The timer fires again and again, threads go on, and the master comes back.
LiveSpec ==
  /\ Spec
  /\ WF_vars(~ aborted /\ \E d \in Dialers : ConnectToMasterAsync(d))
  /\ \A d \in Dialers : WF_vars(~ aborted /\ DialStep(d))
  /\ \A t \in Threads : WF_vars(~ aborted /\ GiveUpStep(t))
  /\ WF_vars(~ aborted /\ Look) /\ WF_vars(~ aborted /\ RecvFails)
  /\ WF_vars(~ aborted /\ MasterBack)
-----------------------------------------------------------------------------
(* Properties. *)

\* The receive thread waits on the one connection there is.
Linked ==
  /\ connected /\ clientSocket # NoSocket /\ kernel[clientSocket] = "joined"
  /\ thread["reader"].socket = clientSocket

\* As long as no thread has taken another's socket away, no socket is left
\* open behind the station's back, and the station takes itself for connected
\* only while it has a socket or is about to notice that it has none.
OneConnection ==
  ~ Crossed =>
    /\ \A x \in Sockets : Alive(x) => clientSocket = x
    /\ connected /\ clientSocket = NoSocket => \E t \in Threads : thread[t].at = "unset"

\* While attempts are quick, one receive thread is ever started, and only a send
\* that fails before the receive thread has noticed the loss lets it take a new
\* socket away; a session's reports alone do no harm.
QuickAttempts ==
  ~ habit.slow => ~ aborted /\ (Crossed => "failed" \in trouble)

\* The station comes back by itself after every loss, however the threads are
\* scheduled, unless one has taken away a socket of another, or two have started
\* the receive thread.
LinkedAgain == []<>(Linked \/ Crossed \/ aborted)
=============================================================================
