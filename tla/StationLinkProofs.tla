-------------------------- MODULE StationLinkProofs --------------------------
(***************************************************************************)
(* Theorems about StationLink, for any number of attempts and of sockets.  *)
(***************************************************************************)
EXTENDS StationLink, TLAPS

\* Where a dialer has no socket in hand, and where a thread goes after giving one up.
HandInv ==
  \A t \in Threads :
    /\ t \in Dialers /\ thread[t].at \in {"idle", "check", "drop", "open"} => thread[t].socket = NoSocket
    /\ thread[t].at \in {"close", "forget"} =>
         /\ thread[t].next \in {"open", "idle", "unset"}
         /\ thread[t].next = "open" => t \in Dialers /\ thread[t].socket = NoSocket
         /\ thread[t].next = "idle" => t \in Dialers

\* Some thread is about to notice that there is no connection any more.
Noticed == connected => \E t \in Threads : thread[t].at = "unset"

\* What holds until a thread takes away a socket of another.
OwnSocketInv ==
  /\ \A x \in Sockets : Alive(x) => clientSocket = x
  /\ \A t \in Threads : thread[t].at = "forget" => ~ Alive(thread[t].socket)
  /\ \A d \in Connecting :
       /\ clientSocket # NoSocket /\ thread[d].socket = clientSocket
       /\ Connecting = {d} /\ Noticed
  /\ \A d \in Threads :
       thread[d].at \in {"close", "forget"} /\ thread[d].next = "idle"
         /\ clientSocket # NoSocket /\ thread[d].socket = clientSocket
       => Connecting = {} /\ Noticed
  /\ clientSocket = NoSocket => Noticed

IInv == TypeOK /\ HandInv /\ (~ Crossed => OwnSocketInv)
-----------------------------------------------------------------------------
(* Where threads can be. *)

LEMMA PlacesOf ==
  /\ Places("reader") = {"close", "forget", "unset", "none", "look", "recv", "report"}
  /\ Places("ui") = {"close", "forget", "unset", "idle", "report"}
  /\ \A d \in Dialers : Places(d) = {"close", "forget", "unset", "idle", "check", "drop", "open", "dial",
                                     "wait", "mark", "run", "spawn", "name"}
BY LinkAssumption DEF Places

LEMMA ThreadsAre ==
  /\ "ui" \in Threads /\ "reader" \in Threads /\ Dialers \subseteq Threads
  /\ \A t \in Threads : t = "ui" \/ t = "reader" \/ t \in Dialers
BY DEF Threads

Typed(t) == [at : Places(t), socket : Sockets \cup {NoSocket}, next : {"none"} \cup Places(t)]

\* A thread that goes to one of its places, and all others where they were.
LEMMA OneGoes ==
  ASSUME TypeOK, NEW t \in Threads, NEW to \in Typed(t), thread' = [thread EXCEPT ![t] = to]
  PROVE  /\ DOMAIN thread' = Threads /\ \A u \in Threads : thread'[u] \in Typed(u)
         /\ thread'[t] = to /\ \A u \in Threads \ {t} : thread'[u] = thread[u]
BY DEF TypeOK, Typed

LEMMA GoesTo ==
  ASSUME TypeOK, NEW t \in Threads, NEW place \in Places(t), Goes(t, place)
  PROVE  /\ DOMAIN thread' = Threads /\ \A u \in Threads : thread'[u] \in Typed(u)
         /\ \A u \in Threads \ {t} : thread'[u] = thread[u]
         /\ thread'[t].at = place /\ thread'[t].socket = thread[t].socket /\ thread'[t].next = thread[t].next
BY DEF TypeOK, Typed, Goes

LEMMA GivesUpTo ==
  ASSUME TypeOK, NEW t \in Threads, NEW place \in Places(t), GivesUp(t, place)
  PROVE  /\ DOMAIN thread' = Threads /\ \A u \in Threads : thread'[u] \in Typed(u)
         /\ \A u \in Threads \ {t} : thread'[u] = thread[u]
         /\ thread'[t].at = "close" /\ thread'[t].socket = thread[t].socket /\ thread'[t].next = place
<1>1. "close" \in Places(t)
  BY DEF Places
<1> QED BY <1>1 DEF TypeOK, Typed, GivesUp

LEMMA AtTyped ==
  ASSUME NEW t, NEW place \in Places(t)
  PROVE  At(place) \in Typed(t) /\ At(place).at = place /\ At(place).socket = NoSocket
BY DEF At, Typed

\* A thread at a place that is nobody's, apart from what this invariant is about:
\* neither connecting, nor noticing, nor giving up a socket that is its own.
Aside(t) ==
  /\ thread[t].at \notin {"dial", "wait", "mark", "unset"}
  /\ thread'[t].at \notin {"dial", "wait", "mark", "forget"}
  /\ thread'[t].at = "close" => thread'[t].next # "idle" \/ thread'[t].socket = NoSocket

LEMMA AsideKeeps ==
  ASSUME IInv, UNCHANGED <<clientSocket, connected, kernel>>, Crossed' = Crossed,
         \A t \in Threads : thread'[t] = thread[t] \/ Aside(t)
  PROVE  (~ Crossed => OwnSocketInv)'
<1> SUFFICES ASSUME ~ Crossed PROVE OwnSocketInv'
  OBVIOUS
<1>1. OwnSocketInv /\ Dialers \subseteq Threads
  BY ThreadsAre DEF IInv
<1>2. Connecting' = Connecting
  BY <1>1 DEF Connecting, Aside
<1>3. Noticed => Noticed'
  BY DEF Noticed, Aside
<1>4. \A t \in Threads : thread'[t].at = "forget" => thread'[t] = thread[t]
  BY DEF Aside
<1>5. \A d \in Connecting : thread'[d] = thread[d]
  BY <1>1 DEF Connecting, Aside
<1>6. ASSUME NEW d \in Threads, thread'[d].at \in {"close", "forget"}, thread'[d].next = "idle",
             clientSocket # NoSocket, thread'[d].socket = clientSocket
      PROVE  thread'[d] = thread[d]
  BY <1>6 DEF Aside
<1> QED BY <1>1, <1>2, <1>3, <1>4, <1>5, <1>6 DEF OwnSocketInv, Alive

\* Steps that trouble no other thread's socket.
LEMMA SameTrouble == UNCHANGED trouble => Crossed' = Crossed
BY DEF Crossed
-----------------------------------------------------------------------------
(* The steps. *)

LEMMA BeginStep ==
  ASSUME IInv, NEW d \in Dialers, ConnectToMasterAsync(d) \/ Check(d) \/ Run(d)
  PROVE  IInv'
<1>1. d \in Threads /\ UNCHANGED <<shared, kernel, outside, trouble, aborted>>
  BY ThreadsAre DEF ConnectToMasterAsync, Check, Run
<1>2. PICK place \in Places(d) :
        Goes(d, place) /\ place \in {"idle", "check", "drop", "name", "spawn"}
        /\ thread[d].at \in {"idle", "check", "run"} /\ (thread[d].at = "run" <=> place \in {"name", "spawn"})
  BY PlacesOf DEF ConnectToMasterAsync, Check, Run
<1>3. TypeOK'
  BY <1>1, <1>2, GoesTo DEF IInv, TypeOK, Typed, shared, outside
<1>4. HandInv'
  BY <1>1, <1>2, GoesTo DEF IInv, HandInv
<1>5. Aside(d)
  BY <1>1, <1>2, GoesTo DEF IInv, Aside
<1> QED BY <1>1, <1>2, <1>3, <1>4, <1>5, GoesTo, AsideKeeps, SameTrouble DEF IInv, shared

LEMMA DropStep ==
  ASSUME IInv, NEW d \in Dialers, Drop(d)
  PROVE  IInv'
<1>1. /\ d \in Threads /\ thread[d].at = "drop" /\ thread[d].socket = NoSocket
      /\ UNCHANGED <<shared, kernel, outside, trouble, aborted>>
  BY ThreadsAre DEF IInv, HandInv, Drop
<1>2. "open" \in Places(d)
  BY PlacesOf
<1>3. CASE Goes(d, "open")
  <2>1. TypeOK'
    BY <1>1, <1>2, <1>3, GoesTo DEF IInv, TypeOK, Typed, shared, outside
  <2>2. HandInv'
    BY <1>1, <1>2, <1>3, GoesTo DEF IInv, HandInv
  <2>3. Aside(d)
    BY <1>1, <1>2, <1>3, GoesTo DEF IInv, Aside
  <2> QED BY <1>1, <1>2, <1>3, <2>1, <2>2, <2>3, GoesTo, AsideKeeps, SameTrouble DEF IInv, shared
<1>4. CASE GivesUp(d, "open")
  <2>1. TypeOK'
    BY <1>1, <1>2, <1>4, GivesUpTo DEF IInv, TypeOK, Typed, shared, outside
  <2>2. HandInv'
    BY <1>1, <1>2, <1>4, GivesUpTo DEF IInv, HandInv
  <2>3. Aside(d)
    BY <1>1, <1>2, <1>4, GivesUpTo DEF IInv, Aside
  <2> QED BY <1>1, <1>2, <1>4, <2>1, <2>2, <2>3, GivesUpTo, AsideKeeps, SameTrouble DEF IInv, shared
<1> QED BY <1>3, <1>4 DEF Drop

\* The receive thread and the window's thread, when they lose nothing yet.
LEMMA ReadStep ==
  ASSUME IInv, Look \/ Command \/ RecvFails \/ Report
  PROVE  IInv'
<1>1. UNCHANGED <<shared, kernel, outside, trouble, aborted>>
  BY DEF Look, Command, RecvFails, Report
<1>2. CASE Look
  <2>1. /\ thread'["reader"] = [thread["reader"] EXCEPT !.at = "recv", !.socket = clientSocket]
        /\ DOMAIN thread' = Threads /\ \A u \in Threads \ {"reader"} : thread'[u] = thread[u]
        /\ thread["reader"].at = "look"
    BY <1>2, ThreadsAre DEF IInv, TypeOK, Look
  <2>2. thread'["reader"] \in Typed("reader") /\ thread'["reader"].at = "recv"
    BY <2>1, PlacesOf, ThreadsAre DEF IInv, TypeOK, Typed
  <2>3. TypeOK'
    BY <1>1, <2>1, <2>2 DEF IInv, TypeOK, Typed, shared, outside
  <2>4. HandInv'
    BY <2>1, <2>2, LinkAssumption DEF IInv, HandInv
  <2>5. Aside("reader")
    BY <2>1, <2>2 DEF Aside
  <2> QED BY <1>1, <2>1, <2>3, <2>4, <2>5, AsideKeeps, SameTrouble DEF IInv, shared
<1>3. ASSUME NEW t \in {"ui", "reader"}, NEW place \in {"report", "unset"}, Goes(t, place),
             t = "ui" => place = "report", thread[t].at \in {"idle", "recv"},
             place = "unset" => clientSocket = NoSocket
      PROVE  IInv'
  <2>1. t \in Threads /\ place \in Places(t) /\ t \notin Dialers
    BY <1>3, ThreadsAre, PlacesOf, LinkAssumption
  <2>2. TypeOK'
    BY <1>1, <1>3, <2>1, GoesTo DEF IInv, TypeOK, Typed, shared, outside
  <2>3. HandInv'
    <3>1. thread'[t].at = place /\ \A u \in Threads \ {t} : thread'[u] = thread[u]
      BY <1>3, <2>1, GoesTo DEF IInv
    <3>2. place \notin {"idle", "check", "drop", "open", "close", "forget"}
      BY <1>3
    <3> QED BY <3>1, <3>2 DEF IInv, HandInv
  <2>4. Aside(t)
    BY <1>3, <2>1, GoesTo DEF IInv, Aside
  <2> QED BY <1>1, <1>3, <2>1, <2>2, <2>3, <2>4, GoesTo, AsideKeeps, SameTrouble DEF IInv, shared
<1>4. CASE GivesUp("reader", "unset") /\ thread["reader"].at = "recv"
  <2>1. "reader" \in Threads /\ "unset" \in Places("reader") /\ "reader" \notin Dialers
    BY ThreadsAre, PlacesOf, LinkAssumption
  <2>2. TypeOK'
    BY <1>1, <1>4, <2>1, GivesUpTo DEF IInv, TypeOK, Typed, shared, outside
  <2>3. HandInv'
    BY <1>4, <2>1, GivesUpTo DEF IInv, HandInv
  <2>4. Aside("reader")
    BY <1>4, <2>1, GivesUpTo DEF IInv, Aside
  <2> QED BY <1>1, <1>4, <2>1, <2>2, <2>3, <2>4, GivesUpTo, AsideKeeps, SameTrouble DEF IInv, shared
<1> QED BY <1>2, <1>3, <1>4 DEF Look, Command, RecvFails, Report

LEMMA SendToMasterStep ==
  ASSUME IInv, NEW t \in Threads, SendToMaster(t)
  PROVE  IInv'
<1> DEFINE failed == [at |-> "close", socket |-> clientSocket, next |-> "unset"]
<1>1. /\ thread[t].at \in {"name", "report"} /\ Rest(t) \in {"look", "idle"}
      /\ UNCHANGED <<shared, kernel, outside, aborted>>
  BY DEF SendToMaster, Rest
<1>2. Crossed' = Crossed /\ (trouble' \subseteq {"crossed", "failed"})
  BY DEF SendToMaster, Crossed, IInv, TypeOK
<1>3. Rest(t) \in Places(t) /\ failed \in Typed(t)
  BY <1>1, PlacesOf, ThreadsAre DEF IInv, TypeOK, Typed, Rest
<1>4. PICK to \in {failed, At(Rest(t))} : thread' = [thread EXCEPT ![t] = to]
  BY DEF SendToMaster
<1>5. /\ to \in Typed(t) /\ to.at \notin {"dial", "wait", "mark", "forget"}
      /\ to.at = "close" => to.next = "unset"
      /\ to.at \in {"idle", "check", "drop", "open"} => to.socket = NoSocket
  BY <1>1, <1>3, <1>4, AtTyped
<1>6. TypeOK'
  BY <1>1, <1>2, <1>4, <1>5, OneGoes DEF IInv, TypeOK, Typed, shared, outside
<1>7. HandInv'
  BY <1>4, <1>5, OneGoes DEF IInv, HandInv
<1>8. Aside(t)
  BY <1>1, <1>4, <1>5, OneGoes DEF IInv, Aside
<1> QED BY <1>1, <1>2, <1>4, <1>5, <1>6, <1>7, <1>8, OneGoes, AsideKeeps DEF IInv, shared

LEMMA SpawnStep ==
  ASSUME IInv, NEW d \in Dialers, Spawn(d)
  PROVE  IInv'
<1>1. /\ d \in Threads /\ "reader" \in Threads /\ d # "reader" /\ thread[d].at = "spawn"
      /\ UNCHANGED <<clientSocket, connected, kernel, outside, trouble>>
  BY ThreadsAre, LinkAssumption DEF Spawn
<1>2. CASE UNCHANGED thread /\ aborted' = TRUE
  <2>1. TypeOK'
    BY <1>1, <1>2 DEF IInv, TypeOK, Spawn, outside
  <2> QED
    BY <1>1, <1>2, <2>1, AsideKeeps, SameTrouble DEF IInv, HandInv
<1>3. CASE /\ thread' = [thread EXCEPT ![d].at = "name", !["reader"] = At("look")]
           /\ thread["reader"].at = "none" /\ UNCHANGED aborted
  <2>1. /\ DOMAIN thread' = Threads /\ \A u \in Threads \ {d, "reader"} : thread'[u] = thread[u]
        /\ thread'[d] = [thread[d] EXCEPT !.at = "name"] /\ thread'["reader"] = At("look")
    BY <1>1, <1>3 DEF IInv, TypeOK
  <2>2. thread'[d] \in Typed(d) /\ thread'[d].at = "name"
    BY <1>1, <2>1, PlacesOf DEF IInv, TypeOK, Typed
  <2>3. thread'["reader"] \in Typed("reader") /\ thread'["reader"].at = "look"
    BY <2>1, PlacesOf, AtTyped
  <2>4. TypeOK'
    BY <1>1, <1>3, <2>1, <2>2, <2>3 DEF IInv, TypeOK, Typed, Spawn, outside
  <2>5. HandInv'
    BY <2>1, <2>2, <2>3, LinkAssumption DEF IInv, HandInv
  <2>6. Aside(d) /\ Aside("reader")
    BY <1>1, <1>3, <2>2, <2>3 DEF Aside
  <2> QED BY <1>1, <2>1, <2>4, <2>5, <2>6, AsideKeeps, SameTrouble DEF IInv
<1> QED BY <1>2, <1>3 DEF Spawn

\* A new socket is one that nobody has in hand, and there was none, or a thread
\* has crossed.
LEMMA OpenStep ==
  ASSUME IInv, NEW d \in Dialers, Open(d)
  PROVE  IInv'
<1>1. PICK x \in Unused :
        /\ clientSocket' = x /\ kernel' = [kernel EXCEPT ![x] = "open"]
        /\ thread' = [thread EXCEPT ![d].at = "dial", ![d].socket = x]
  BY DEF Open
<1>2. /\ d \in Threads /\ thread[d].at = "open" /\ thread[d].socket = NoSocket
      /\ trouble' = trouble \cup Crossing(d) /\ UNCHANGED <<connected, runRecv, outside, aborted>>
  BY ThreadsAre DEF Open, IInv, HandInv
<1>3. x \in Sockets /\ x # NoSocket /\ kernel[x] = "closed" /\ \A t \in Threads : thread[t].socket # x
  BY LinkAssumption DEF Unused
<1>4. /\ DOMAIN thread' = Threads /\ \A u \in Threads \ {d} : thread'[u] = thread[u]
      /\ thread'[d] = [thread[d] EXCEPT !.at = "dial", !.socket = x]
  BY <1>1, <1>2 DEF IInv, TypeOK
<1>5. thread'[d] \in Typed(d) /\ thread'[d].at = "dial" /\ thread'[d].socket = x
  <2>1. "dial" \in Places(d) /\ thread[d] \in Typed(d)
    BY <1>2, PlacesOf DEF IInv, TypeOK, Typed
  <2> QED BY <1>3, <1>4, <2>1 DEF Typed
<1>6. TypeOK'
  BY <1>1, <1>2, <1>3, <1>4, <1>5 DEF IInv, TypeOK, Typed, Crossing, outside
<1>7. HandInv'
  <2>1. thread'[d].at \notin {"idle", "check", "drop", "open", "close", "forget"}
    BY <1>5
  <2>2. \A u \in Threads \ {d} : thread'[u] = thread[u]
    BY <1>4
  <2> QED BY <2>1, <2>2 DEF IInv, HandInv
<1>8. ASSUME ~ Crossed'
      PROVE  OwnSocketInv'
  <2>1. ~ Crossed /\ clientSocket = NoSocket
    BY <1>2, <1>3, <1>8, LinkAssumption DEF Crossing, Crossed
  <2>2. OwnSocketInv /\ Connecting = {}
    BY <2>1 DEF IInv, OwnSocketInv
  <2>3. \A y \in Sockets : kernel'[y] = IF y = x THEN "open" ELSE kernel[y]
    BY <1>1 DEF IInv, TypeOK
  <2>4. \A y \in Sockets : Alive(y)' => y = x
    BY <2>1, <2>2, <2>3, LinkAssumption DEF OwnSocketInv, Alive
  <2>5. \A t \in Threads : thread'[t].at = "forget" => thread'[t].socket \in Sockets \cup {NoSocket} /\ thread'[t].socket # x
    <3>1. \A t \in Threads : thread[t].socket \in Sockets \cup {NoSocket} /\ thread[t].socket # x
      BY <1>3 DEF IInv, TypeOK
    <3>2. thread'[d].at # "forget"
      BY <1>5
    <3>3. \A u \in Threads \ {d} : thread'[u] = thread[u]
      BY <1>4
    <3> QED BY <3>1, <3>2, <3>3
  <2>6. (\A t \in Threads : thread[t].at = "forget" => ~ Alive(thread[t].socket))'
    BY <2>4, <2>5 DEF Alive
  <2>7. Connecting' = {d}
    BY <1>4, <1>5, <2>2, ThreadsAre DEF Connecting
  <2>8. Noticed'
    BY <1>2, <1>4, <2>1, <2>2 DEF OwnSocketInv, Noticed
  <2>9. \A t \in Threads : thread'[t].at \in {"close", "forget"} => thread'[t].socket # x
    BY <1>3, <1>4, <1>5
  <2> QED BY <1>1, <1>3, <1>5, <2>4, <2>6, <2>7, <2>8, <2>9 DEF OwnSocketInv
<1> QED BY <1>6, <1>7, <1>8 DEF IInv

LEMMA DialStepKeeps ==
  ASSUME IInv, NEW d \in Dialers, Dial(d)
  PROVE  IInv'
<1>1. /\ d \in Threads /\ thread[d].at = "dial" /\ UNCHANGED <<shared, kernel, outside, trouble, aborted>>
      /\ DOMAIN thread' = Threads /\ \A u \in Threads \ {d} : thread'[u] = thread[u]
      /\ thread'[d] = [thread[d] EXCEPT !.at = "wait", !.socket = clientSocket]
  BY ThreadsAre DEF IInv, TypeOK, Dial
<1>2. thread'[d] \in Typed(d) /\ thread'[d].at = "wait" /\ thread'[d].socket = clientSocket
  <2>1. "wait" \in Places(d) /\ thread[d] \in Typed(d) /\ clientSocket \in Sockets \cup {NoSocket}
    BY <1>1, PlacesOf DEF IInv, TypeOK, Typed
  <2> QED BY <1>1, <2>1 DEF Typed
<1>3. TypeOK'
  BY <1>1, <1>2 DEF IInv, TypeOK, Typed, shared, outside
<1>4. HandInv'
  BY <1>1, <1>2 DEF IInv, HandInv
<1>5. ASSUME ~ Crossed'
      PROVE  OwnSocketInv'
  <2>1. OwnSocketInv
    BY <1>1, <1>5 DEF IInv, Crossed
  <2>2. Connecting' = Connecting /\ d \in Connecting
    BY <1>1, <1>2, ThreadsAre DEF Connecting
  <2>3. Noticed => Noticed'
    BY <1>1, <1>2 DEF Noticed, shared
  <2>4. \A t \in Threads : thread'[t].at \in {"close", "forget"} => thread'[t] = thread[t]
    BY <1>1, <1>2
  <2>5. Connecting = {d}
    BY <2>1, <2>2 DEF OwnSocketInv
  <2> QED BY <1>1, <1>2, <2>1, <2>2, <2>3, <2>4, <2>5 DEF OwnSocketInv, Alive, shared
<1> QED BY <1>3, <1>4, <1>5 DEF IInv

LEMMA JoinedStep ==
  ASSUME IInv, NEW d \in Dialers, Joined(d)
  PROVE  IInv'
<1> DEFINE x == thread[d].socket
<1>1. /\ d \in Threads /\ thread[d].at = "wait" /\ "mark" \in Places(d) /\ Goes(d, "mark")
      /\ x \in Sockets /\ kernel[x] = "open" /\ kernel' = [kernel EXCEPT ![x] = "joined"]
      /\ UNCHANGED <<shared, outside, trouble, aborted>>
  BY ThreadsAre, PlacesOf DEF IInv, TypeOK, Joined, Reaches
<1>2. TypeOK'
  BY <1>1, GoesTo DEF IInv, TypeOK, Typed, shared, outside
<1>3. HandInv'
  BY <1>1, GoesTo DEF IInv, HandInv
<1>4. ASSUME ~ Crossed'
      PROVE  OwnSocketInv'
  <2>1. OwnSocketInv
    BY <1>1, <1>4 DEF IInv, Crossed
  <2>2. \A y : y \in Sockets \cup {NoSocket} => (Alive(y)' <=> Alive(y))
    BY <1>1, LinkAssumption DEF IInv, TypeOK, Alive
  <2>3. Connecting' = Connecting /\ d \in Connecting
    BY <1>1, GoesTo, ThreadsAre DEF Connecting, IInv
  <2>4. Noticed => Noticed'
    BY <1>1, GoesTo DEF Noticed, shared, IInv
  <2>5. \A t \in Threads : /\ thread'[t].socket = thread[t].socket
                           /\ thread[t].socket \in Sockets \cup {NoSocket}
                           /\ thread'[t].at \in {"close", "forget"} => thread'[t] = thread[t]
    BY <1>1, GoesTo DEF IInv, TypeOK
  <2>6. \A y \in Sockets : Alive(y)' => clientSocket' = y
    BY <1>1, <2>1, <2>2 DEF OwnSocketInv, shared
  <2>7. (\A t \in Threads : thread[t].at = "forget" => ~ Alive(thread[t].socket))'
    BY <1>1, <2>1, <2>2, <2>5 DEF OwnSocketInv
  <2> HIDE DEF x
  <2> QED BY <1>1, <2>1, <2>3, <2>4, <2>5, <2>6, <2>7, ThreadsAre DEF OwnSocketInv, shared
<1> QED BY <1>2, <1>3, <1>4 DEF IInv

LEMMA DialFailsStep ==
  ASSUME IInv, NEW d \in Dialers, DialFails(d)
  PROVE  IInv'
<1>1. /\ d \in Threads /\ thread[d].at = "wait" /\ "idle" \in Places(d) /\ GivesUp(d, "idle")
      /\ UNCHANGED <<shared, kernel, outside, trouble, aborted>>
  BY ThreadsAre, PlacesOf DEF DialFails
<1>2. TypeOK'
  BY <1>1, GivesUpTo DEF IInv, TypeOK, Typed, shared, outside
<1>3. HandInv'
  BY <1>1, GivesUpTo DEF IInv, HandInv
<1>4. ASSUME ~ Crossed'
      PROVE  OwnSocketInv'
  <2>1. OwnSocketInv /\ d \in Connecting
    BY <1>1, <1>4 DEF IInv, Crossed, Connecting
  <2>2. Connecting' = {}
    BY <1>1, <2>1, GivesUpTo, ThreadsAre DEF Connecting, OwnSocketInv, IInv
  <2>3. Noticed'
    BY <1>1, <2>1, GivesUpTo DEF Noticed, OwnSocketInv, shared, IInv
  <2>4. \A t \in Threads : thread'[t].at = "forget" => thread'[t] = thread[t]
    BY <1>1, GivesUpTo DEF IInv
  <2> QED BY <1>1, <2>1, <2>2, <2>3, <2>4 DEF OwnSocketInv, Alive, shared
<1> QED BY <1>2, <1>3, <1>4 DEF IInv

LEMMA MarkStep ==
  ASSUME IInv, NEW d \in Dialers, Mark(d)
  PROVE  IInv'
<1>1. /\ d \in Threads /\ thread[d].at = "mark" /\ "run" \in Places(d) /\ Goes(d, "run") /\ connected' = TRUE
      /\ UNCHANGED <<clientSocket, runRecv, kernel, outside, trouble, aborted>>
  BY ThreadsAre, PlacesOf DEF Mark
<1>2. TypeOK'
  BY <1>1, GoesTo DEF IInv, TypeOK, Typed, outside
<1>3. HandInv'
  BY <1>1, GoesTo DEF IInv, HandInv
<1>4. ASSUME ~ Crossed'
      PROVE  OwnSocketInv'
  <2>1. OwnSocketInv /\ d \in Connecting
    BY <1>1, <1>4 DEF IInv, Crossed, Connecting
  <2>2. Connecting = {d} /\ clientSocket # NoSocket
    BY <2>1 DEF OwnSocketInv
  <2>3. Connecting' = {}
    BY <1>1, <2>2, GoesTo, ThreadsAre DEF Connecting, IInv
  <2>4. \A t \in Threads : thread'[t].at \in {"close", "forget"} => thread'[t] = thread[t]
    BY <1>1, GoesTo DEF IInv
  <2> QED BY <1>1, <2>1, <2>2, <2>3, <2>4 DEF OwnSocketInv, Alive
<1> QED BY <1>2, <1>3, <1>4 DEF IInv

LEMMA CloseStep ==
  ASSUME IInv, NEW t \in Threads, Close(t)
  PROVE  IInv'
<1>1. /\ thread[t].at = "close" /\ "forget" \in Places(t) /\ Goes(t, "forget")
      /\ kernel' = IF clientSocket = NoSocket THEN kernel ELSE [kernel EXCEPT ![clientSocket] = "closed"]
      /\ trouble' = trouble \cup Crossing(t) /\ UNCHANGED <<shared, outside, aborted>>
  BY DEF Close, Places
<1>2. TypeOK'
  BY <1>1, GoesTo DEF IInv, TypeOK, Typed, shared, outside, Crossing
<1>3. HandInv'
  BY <1>1, GoesTo DEF IInv, HandInv
<1>4. ASSUME ~ Crossed'
      PROVE  OwnSocketInv'
  <2>1. ~ Crossed /\ (clientSocket = NoSocket \/ (clientSocket = thread[t].socket /\ Connecting \subseteq {t}))
    BY <1>1, <1>4 DEF Crossing, Crossed
  <2>2. OwnSocketInv
    BY <2>1 DEF IInv
  <2>3. Connecting = {}
    BY <1>1, <2>1, <2>2 DEF Connecting, OwnSocketInv
  <2>4. Connecting' = {}
    BY <1>1, <2>3, GoesTo, ThreadsAre DEF Connecting, IInv
  <2>5. \A y : y \in Sockets \cup {NoSocket} => ~ Alive(y)'
    BY <1>1, <2>2, LinkAssumption DEF OwnSocketInv, Alive, IInv, TypeOK
  <2>6. Noticed => Noticed'
    BY <1>1, GoesTo DEF Noticed, shared, IInv
  <2>7. \A u \in Threads : /\ thread'[u].socket = thread[u].socket /\ thread'[u].next = thread[u].next
                           /\ thread[u].socket \in Sockets \cup {NoSocket}
                           /\ thread'[u].at \in {"close", "forget"} => thread[u].at \in {"close", "forget"}
    BY <1>1, GoesTo DEF IInv, TypeOK
  <2> QED BY <1>1, <2>2, <2>3, <2>4, <2>5, <2>6, <2>7 DEF OwnSocketInv, shared
<1> QED BY <1>2, <1>3, <1>4 DEF IInv

LEMMA ForgetStep ==
  ASSUME IInv, NEW t \in Threads, Forget(t)
  PROVE  IInv'
<1>1. /\ thread[t].at = "forget" /\ thread[t].next \in Places(t) \ {"none"}
      /\ thread[t].next \in {"open", "idle", "unset"}
      /\ clientSocket' = NoSocket /\ thread' = [thread EXCEPT ![t] = At(thread[t].next)]
      /\ trouble' = trouble \cup Crossing(t) /\ UNCHANGED <<connected, runRecv, kernel, outside, aborted>>
  BY DEF Forget, IInv, TypeOK, HandInv
<1> DEFINE to == At(thread[t].next)
<1>2. to \in Typed(t) /\ to.at = thread[t].next /\ to.socket = NoSocket /\ thread' = [thread EXCEPT ![t] = to]
  BY <1>1, AtTyped
<1> HIDE DEF to
<1>3. TypeOK'
  BY <1>1, <1>2, OneGoes DEF IInv, TypeOK, Typed, outside, Crossing
<1>4. HandInv'
  BY <1>1, <1>2, OneGoes DEF IInv, HandInv
<1>5. ASSUME ~ Crossed'
      PROVE  OwnSocketInv'
  <2>1. ~ Crossed /\ (clientSocket = NoSocket \/ (clientSocket = thread[t].socket /\ Connecting \subseteq {t}))
    BY <1>1, <1>5 DEF Crossing, Crossed
  <2>2. OwnSocketInv
    BY <2>1 DEF IInv
  <2>3. Connecting = {}
    BY <1>1, <2>1, <2>2 DEF Connecting, OwnSocketInv
  <2>4. Connecting' = {}
    BY <1>1, <1>2, <2>3, OneGoes, ThreadsAre DEF Connecting, IInv
  <2>5. \A y \in Sockets : ~ Alive(y)
    BY <1>1, <2>1, <2>2 DEF OwnSocketInv, Alive
  <2>6. Noticed'
    <3>1. CASE thread[t].next = "unset"
      BY <1>1, <1>2, <3>1, OneGoes DEF Noticed, IInv
    <3>2. CASE thread[t].next # "unset" /\ Noticed
      BY <1>1, <1>2, <3>2, OneGoes DEF Noticed, IInv
    <3>3. CASE thread[t].next = "idle" /\ ~ Noticed
      BY <1>1, <2>1, <2>2, <3>3 DEF OwnSocketInv
    <3>4. CASE thread[t].next = "open" /\ ~ Noticed
      BY <1>1, <2>1, <2>2, <3>4 DEF OwnSocketInv, IInv, HandInv
    <3> QED BY <1>1, <3>1, <3>2, <3>3, <3>4
  <2>7. \A u \in Threads : thread'[u].at = "forget" => thread'[u] = thread[u]
    BY <1>1, <1>2, OneGoes DEF IInv
  <2> QED BY <1>1, <2>2, <2>4, <2>5, <2>6, <2>7 DEF OwnSocketInv, Alive
<1> QED BY <1>3, <1>4, <1>5 DEF IInv

LEMMA UnsetStep ==
  ASSUME IInv, NEW t \in Threads, Unset(t)
  PROVE  IInv'
<1> DEFINE to == At(Rest(t))
<1>1. /\ thread[t].at = "unset" /\ connected' = FALSE /\ thread' = [thread EXCEPT ![t] = to]
      /\ UNCHANGED <<clientSocket, runRecv, kernel, outside, trouble, aborted>>
  BY DEF Unset
<1>2. to \in Typed(t) /\ to.at \in {"look", "idle"} /\ to.socket = NoSocket
  <2>1. Rest(t) \in Places(t) /\ Rest(t) \in {"look", "idle"}
    BY PlacesOf, ThreadsAre DEF Rest
  <2> QED BY <2>1, AtTyped
<1> HIDE DEF to
<1>3. TypeOK'
  BY <1>1, <1>2, OneGoes DEF IInv, TypeOK, Typed, outside
<1>4. HandInv'
  BY <1>1, <1>2, OneGoes DEF IInv, HandInv
<1>5. ASSUME ~ Crossed'
      PROVE  OwnSocketInv'
  <2>1. OwnSocketInv
    BY <1>1, <1>5 DEF IInv, Crossed
  <2>2. Connecting' = Connecting /\ \A d \in Connecting : thread'[d] = thread[d]
    BY <1>1, <1>2, OneGoes, ThreadsAre DEF Connecting, IInv
  <2>3. \A u \in Threads : thread'[u].at \in {"close", "forget"} => thread'[u] = thread[u]
    BY <1>1, <1>2, OneGoes DEF IInv
  <2> QED BY <1>1, <2>1, <2>2, <2>3 DEF OwnSocketInv, Alive, Noticed
<1> QED BY <1>3, <1>4, <1>5 DEF IInv

LEMMA MasterStep ==
  ASSUME IInv, MasterLost \/ MasterBack
  PROVE  IInv'
<1>1. /\ UNCHANGED <<shared, thread, habit, trouble, aborted>>
      /\ kernel' \in [Sockets -> {"closed", "open", "joined", "broken"}]
      /\ \A x \in Sockets : kernel'[x] \in {"open", "joined"} => kernel[x] \in {"open", "joined"}
  BY DEF IInv, TypeOK, MasterLost, MasterBack
<1>2. TypeOK'
  <2>1. habit \in Habit /\ losses \in 0 .. habit.losses /\ habit.losses \in Nat
    BY LinkAssumption DEF IInv, TypeOK, Habit
  <2>2. losses' \in 0 .. habit.losses /\ master' \in BOOLEAN
    <3>1. CASE MasterLost
      BY <2>1, <3>1 DEF MasterLost
    <3>2. CASE MasterBack
      BY <2>1, <3>2 DEF MasterBack
    <3> QED BY <3>1, <3>2
  <2> QED BY <1>1, <2>2 DEF IInv, TypeOK, shared
<1>3. HandInv'
  BY <1>1 DEF IInv, HandInv
<1>4. ASSUME ~ Crossed'
      PROVE  OwnSocketInv'
  <2>1. OwnSocketInv
    BY <1>1, <1>4 DEF IInv, Crossed
  <2>2. \A y : y \in Sockets \cup {NoSocket} => (Alive(y)' => Alive(y))
    BY <1>1 DEF Alive
  <2>3. \A t \in Threads : thread[t].socket \in Sockets \cup {NoSocket}
    BY DEF IInv, TypeOK
  <2>4. Connecting' = Connecting /\ Noticed' = Noticed
    BY <1>1 DEF Connecting, Noticed, shared
  <2> QED BY <1>1, <2>1, <2>2, <2>3, <2>4 DEF OwnSocketInv, shared
<1> QED BY <1>2, <1>3, <1>4 DEF IInv
-----------------------------------------------------------------------------
LEMMA LinkInit == Init => IInv
<1> SUFFICES ASSUME Init PROVE IInv
  OBVIOUS
<1>1. ASSUME NEW t \in Threads
      PROVE  thread[t] \in Typed(t) /\ thread[t].at \in {"none", "idle"} /\ thread[t].socket = NoSocket
  <2>1. (IF t = "reader" THEN "none" ELSE "idle") \in Places(t)
    BY PlacesOf, ThreadsAre
  <2> QED BY <2>1, AtTyped DEF Init
<1>2. TypeOK
  <2>1. habit \in Habit /\ 0 \in 0 .. habit.losses
    BY LinkAssumption DEF Init, Habit
  <2> QED BY <1>1, <2>1 DEF Init, TypeOK, Typed
<1>3. HandInv
  BY <1>1 DEF HandInv
<1>4. OwnSocketInv
  BY <1>1, ThreadsAre DEF Init, OwnSocketInv, Alive, Connecting, Noticed
<1> QED BY <1>2, <1>3, <1>4 DEF IInv

LEMMA LinkStep ==
  ASSUME IInv, [Next]_vars
  PROVE  IInv'
<1>1. ASSUME NEW d \in Dialers, ConnectToMasterAsync(d) \/ DialStep(d)
      PROVE  IInv'
  BY <1>1, BeginStep, DropStep, OpenStep, DialStepKeeps, JoinedStep, DialFailsStep, MarkStep, SpawnStep
  DEF DialStep
<1>2. ASSUME NEW t \in Threads, GiveUpStep(t)
      PROVE  IInv'
  BY <1>2, SendToMasterStep, CloseStep, ForgetStep, UnsetStep DEF GiveUpStep
<1>3. CASE ReaderStep \/ Report
  BY <1>3, ReadStep DEF ReaderStep
<1>4. CASE MasterLost \/ MasterBack
  BY <1>4, MasterStep
<1>5. CASE UNCHANGED vars
  BY <1>5 DEF vars, shared, outside, IInv, TypeOK, HandInv, Crossed, OwnSocketInv, Alive, Connecting, Noticed
<1> QED BY <1>1, <1>2, <1>3, <1>4, <1>5 DEF Next

LEMMA LinkAlways == Spec => []IInv
BY LinkInit, LinkStep, PTL DEF Spec

\* Every variable keeps its type, and every thread is where it can be.
THEOREM LinkTypesKept == Spec => []TypeOK
<1>1. IInv => TypeOK
  BY DEF IInv
<1> QED BY <1>1, LinkAlways, PTL

\* However many attempts there are and however they and the reports overlap: while
\* no thread has taken away a socket not its own, there is one socket at most, and
\* a station that has none knows it or has a thread that will say so.
THEOREM OneConnectionAlways == Spec => []OneConnection
<1>1. IInv => OneConnection
  BY DEF IInv, OwnSocketInv, Noticed, OneConnection
<1> QED BY <1>1, LinkAlways, PTL
-----------------------------------------------------------------------------
(***************************************************************************)
(* Quick attempts.  While an attempt is over before the timer fires again  *)
(* and before the receive thread wakes, the threads take turns: the        *)
(* attempt with its socket until it is announced, the receive thread with  *)
(* it afterwards, unless a failing send gives it up beside them.           *)
(***************************************************************************)

\* There is one attempt at a time, and it starts the receive thread once.
OneAttempt ==
  /\ ~ aborted
  /\ \A d, e \in Dialers : thread[d].at # "idle" /\ thread[e].at # "idle" => d = e
  /\ thread["reader"].at = "none" <=> ~ runRecv
  /\ \A d \in Dialers : thread[d].at = "spawn" => ~ runRecv

\* Where an attempt has no socket yet, and where it has one that is not announced.
Seeking == {"check", "drop", "open"}
Holding == {"dial", "wait", "mark", "close", "forget"}

\* The receive thread has the socket from its first look to giving it up.
ReaderHas ==
  /\ thread["reader"].at \in {"recv", "report", "close", "forget", "unset"} => connected
  /\ thread["reader"].at \in {"recv", "report", "close", "forget"} =>
       clientSocket # NoSocket /\ thread["reader"].socket = clientSocket
  /\ thread["reader"].at \in {"close", "forget"} => thread["reader"].next = "unset"
  /\ thread["reader"].at = "unset" => clientSocket = NoSocket

\* An attempt that is under way has the socket, or there is none.
AttemptHas(d) ==
  /\ thread[d].at \in Seeking \cup Holding => ~ connected
  /\ thread[d].at \in Seeking => clientSocket = NoSocket
  /\ thread[d].at \in Holding => clientSocket # NoSocket /\ thread[d].socket = clientSocket
  /\ thread[d].at \in {"close", "forget"} => thread[d].next = "idle"
  /\ thread[d].at # "unset"

InTurn ==
  /\ ~ Crossed
  /\ thread["ui"].at \in {"idle", "report"}
  /\ ReaderHas
  /\ \A d \in Dialers : AttemptHas(d)
  /\ ~ connected /\ clientSocket # NoSocket => \E d \in Dialers : thread[d].at \in Holding

QuickParts == OneAttempt /\ ("failed" \notin trouble => InTurn)
QuickInv == ~ habit.slow => QuickParts

\* The attempt, the receive thread and the window's thread are three.
LEMMA Apart ==
  /\ "ui" \in Threads /\ "reader" \in Threads /\ "ui" # "reader"
  /\ \A d \in Dialers : d \in Threads /\ d # "ui" /\ d # "reader"
BY ThreadsAre, LinkAssumption

\* An attempt that goes on is the only one.
LEMMA OnlyAttempt ==
  ASSUME OneAttempt, NEW d \in Dialers, thread[d].at # "idle"
  PROVE  \A e \in Dialers \ {d} : thread[e].at = "idle"
BY DEF OneAttempt

\* What a step of the attempt d leaves: the others idle, and the receive thread and
\* the window's thread where they were.
LEMMA AttemptKeeps ==
  ASSUME NEW d \in Dialers, ~ aborted', runRecv' = runRecv,
         \A u \in Threads \ {d} : thread'[u] = thread[u],
         \A e \in Dialers \ {d} : thread[e].at = "idle",
         OneAttempt, thread'[d].at # "spawn" \/ ~ runRecv
  PROVE  OneAttempt'
BY Apart DEF OneAttempt

LEMMA AttemptInTurn ==
  ASSUME NEW d \in Dialers, ~ Crossed',
         \A u \in Threads \ {d} : thread'[u] = thread[u],
         \A e \in Dialers \ {d} : thread[e].at = "idle",
         InTurn, ReaderHas', AttemptHas(d)',
         (~ connected /\ clientSocket # NoSocket => thread[d].at \in Holding)'
  PROVE  InTurn'
<1>1. (thread["ui"].at \in {"idle", "report"})'
  BY Apart DEF InTurn
<1>2. ASSUME NEW e \in Dialers \ {d}
      PROVE  AttemptHas(e)'
  <2>1. thread'[e].at = "idle"
    BY <1>2, Apart
  <2> QED BY <2>1 DEF AttemptHas, Seeking, Holding
<1>3. (~ connected /\ clientSocket # NoSocket => \E e \in Dialers : thread[e].at \in Holding)'
  OBVIOUS
<1>4. (\A e \in Dialers : AttemptHas(e))'
  BY <1>2
<1> QED BY <1>1, <1>3, <1>4 DEF InTurn

\* The receive thread has no socket while the station is not connected.
LEMMA ReaderAway ==
  ASSUME InTurn, ~ connected, connected' = connected \/ clientSocket' # NoSocket,
         thread'["reader"] = thread["reader"]
  PROVE  ReaderHas'
BY DEF InTurn, ReaderHas

\* An attempt that begins, looks, and has no socket yet.
LEMMA QuickBegins ==
  ASSUME TypeOK, ~ habit.slow, ~ aborted, QuickParts, NEW d \in Dialers,
         ConnectToMasterAsync(d) \/ Check(d) \/ Drop(d) \/ Open(d)
  PROVE  QuickParts'
<1>1. d \in Threads /\ {"idle", "check", "drop", "open", "dial", "close"} \subseteq Places(d)
  BY Apart, PlacesOf
<1>2. \A e \in Dialers \ {d} : thread[e].at = "idle"
  BY OnlyAttempt DEF QuickParts, ConnectToMasterAsync, Dialling, Check, Drop, Open
<1>3. CASE ConnectToMasterAsync(d)
  <2>1. /\ \A u \in Threads \ {d} : thread'[u] = thread[u]
        /\ thread[d].at = "idle" /\ thread'[d].at = "check" /\ ~ connected
        /\ UNCHANGED <<shared, kernel, outside, trouble, aborted>>
    BY <1>1, <1>3, GoesTo DEF ConnectToMasterAsync
  <2>2. OneAttempt'
    BY <1>2, <2>1, AttemptKeeps DEF QuickParts, shared
  <2>3. ASSUME "failed" \notin trouble'
        PROVE  InTurn'
    <3>1. InTurn /\ ~ Crossed' /\ clientSocket = NoSocket
      BY <1>2, <2>1, <2>3 DEF QuickParts, InTurn, Crossed, Holding
    <3>2. ReaderHas'
      BY <2>1, <3>1, Apart, ReaderAway DEF shared
    <3>3. AttemptHas(d)'
      BY <2>1, <3>1 DEF AttemptHas, Seeking, Holding, shared
    <3> QED BY <1>2, <2>1, <3>1, <3>2, <3>3, AttemptInTurn DEF shared
  <2> QED BY <2>2, <2>3 DEF QuickParts
<1>4. CASE Check(d)
  <2>1. /\ \A u \in Threads \ {d} : thread'[u] = thread[u]
        /\ thread[d].at = "check" /\ thread'[d].at = (IF connected THEN "idle" ELSE "drop")
        /\ UNCHANGED <<shared, kernel, outside, trouble, aborted>>
    BY <1>1, <1>4, GoesTo DEF Check
  <2>2. OneAttempt'
    BY <1>2, <2>1, AttemptKeeps DEF QuickParts, shared
  <2>3. ASSUME "failed" \notin trouble'
        PROVE  InTurn'
    <3>1. InTurn /\ ~ Crossed' /\ clientSocket = NoSocket /\ ~ connected
      BY <2>1, <2>3 DEF QuickParts, InTurn, AttemptHas, Crossed, Seeking
    <3>2. ReaderHas'
      BY <2>1, <3>1, Apart, ReaderAway DEF shared
    <3>3. AttemptHas(d)'
      BY <2>1, <3>1 DEF AttemptHas, Seeking, Holding, shared
    <3> QED BY <1>2, <2>1, <3>1, <3>2, <3>3, AttemptInTurn DEF shared
  <2> QED BY <2>2, <2>3 DEF QuickParts
<1>5. CASE Drop(d)
  <2>1. /\ \A u \in Threads \ {d} : thread'[u] = thread[u]
        /\ thread[d].at = "drop" /\ thread'[d].at \in {"open", "close"}
        /\ clientSocket = NoSocket => thread'[d].at = "open"
        /\ UNCHANGED <<shared, kernel, outside, trouble, aborted>>
    <3>1. CASE clientSocket = NoSocket
      BY <1>1, <1>5, <3>1, GoesTo DEF Drop
    <3>2. CASE clientSocket # NoSocket
      BY <1>1, <1>5, <3>2, GivesUpTo DEF Drop
    <3> QED BY <3>1, <3>2
  <2>2. OneAttempt'
    BY <1>2, <2>1, AttemptKeeps DEF QuickParts, shared
  <2>3. ASSUME "failed" \notin trouble'
        PROVE  InTurn'
    <3>1. InTurn /\ ~ Crossed' /\ clientSocket = NoSocket /\ ~ connected
      BY <2>1, <2>3 DEF QuickParts, InTurn, AttemptHas, Crossed, Seeking
    <3>2. ReaderHas'
      BY <2>1, <3>1, Apart, ReaderAway DEF shared
    <3>3. AttemptHas(d)'
      BY <2>1, <3>1 DEF AttemptHas, Seeking, Holding, shared
    <3> QED BY <1>2, <2>1, <3>1, <3>2, <3>3, AttemptInTurn DEF shared
  <2> QED BY <2>2, <2>3 DEF QuickParts
<1>6. CASE Open(d)
  <2>1. PICK x \in Unused : /\ clientSocket' = x
                            /\ thread' = [thread EXCEPT ![d].at = "dial", ![d].socket = x]
    BY <1>6 DEF Open
  <2>2. /\ \A u \in Threads \ {d} : thread'[u] = thread[u]
        /\ thread[d].at = "open" /\ thread'[d].at = "dial" /\ thread'[d].socket = x
        /\ x # NoSocket /\ trouble' = trouble \cup Crossing(d)
        /\ UNCHANGED <<connected, runRecv, outside, aborted>>
    <3>1. x \in Sockets
      BY DEF Unused
    <3>2. thread[d].at = "open" /\ trouble' = trouble \cup Crossing(d) /\ UNCHANGED <<connected, runRecv, outside, aborted>>
      BY <1>6 DEF Open
    <3>3. /\ thread'[d].at = "dial" /\ thread'[d].socket = x
          /\ \A u \in Threads \ {d} : thread'[u] = thread[u]
      BY <1>1, <2>1, <3>1 DEF TypeOK
    <3> QED BY <3>1, <3>2, <3>3, LinkAssumption
  <2>3. OneAttempt'
    BY <1>2, <2>2, AttemptKeeps DEF QuickParts
  <2>4. ASSUME "failed" \notin trouble'
        PROVE  InTurn'
    <3>1. InTurn /\ clientSocket = NoSocket /\ ~ connected
      BY <2>2, <2>4 DEF QuickParts, InTurn, AttemptHas, Seeking
    <3>2. ~ Crossed'
      BY <2>2, <3>1 DEF Crossing, Crossed, InTurn
    <3>3. ReaderHas'
      BY <2>2, <3>1, Apart, ReaderAway
    <3>4. AttemptHas(d)'
      BY <2>1, <2>2, <3>1 DEF AttemptHas, Seeking, Holding
    <3>5. thread'[d].at \in Holding
      BY <2>2 DEF Holding
    <3> QED BY <1>2, <2>2, <3>1, <3>2, <3>3, <3>4, <3>5, AttemptInTurn
  <2> QED BY <2>3, <2>4 DEF QuickParts
<1> QED BY <1>3, <1>4, <1>5, <1>6

\* An attempt that has a socket, until it is announced or has failed.
LEMMA QuickDials ==
  ASSUME TypeOK, ~ habit.slow, ~ aborted, QuickParts, NEW d \in Dialers,
         Dial(d) \/ Joined(d) \/ DialFails(d)
  PROVE  QuickParts'
<1>1. d \in Threads /\ {"wait", "mark", "idle"} \subseteq Places(d)
  BY Apart, PlacesOf
<1>2. \A e \in Dialers \ {d} : thread[e].at = "idle"
  BY OnlyAttempt DEF QuickParts, Dial, Joined, DialFails
<1>3. /\ \A u \in Threads \ {d} : thread'[u] = thread[u]
      /\ thread[d].at \in {"dial", "wait"} /\ thread'[d].at \in {"wait", "mark", "close"}
      /\ thread'[d].at = "close" => thread'[d].next = "idle"
      /\ thread'[d].socket \in {thread[d].socket, clientSocket}
      /\ UNCHANGED <<shared, outside, trouble, aborted>>
  <2>1. CASE Dial(d)
    BY <1>1, <2>1 DEF Dial, TypeOK
  <2>2. CASE Joined(d)
    BY <1>1, <2>2, GoesTo DEF Joined
  <2>3. CASE DialFails(d)
    BY <1>1, <2>3, GivesUpTo DEF DialFails
  <2> QED BY <2>1, <2>2, <2>3
<1>4. OneAttempt'
  BY <1>2, <1>3, AttemptKeeps DEF QuickParts, shared
<1>5. ASSUME "failed" \notin trouble'
      PROVE  InTurn'
  <2>1. InTurn /\ ~ Crossed' /\ ~ connected /\ clientSocket # NoSocket /\ thread[d].socket = clientSocket
    BY <1>3, <1>5 DEF QuickParts, InTurn, AttemptHas, Crossed, Holding
  <2>2. ReaderHas'
    BY <1>3, <2>1, Apart, ReaderAway DEF shared
  <2>3. AttemptHas(d)' /\ thread'[d].at \in Holding
    BY <1>3, <2>1 DEF AttemptHas, Seeking, Holding, shared
  <2> QED BY <1>2, <1>3, <2>1, <2>2, <2>3, AttemptInTurn DEF shared
<1> QED BY <1>4, <1>5 DEF QuickParts

\* An attempt that is announced, and starts the receive thread unless it runs.
LEMMA QuickStarts ==
  ASSUME TypeOK, ~ habit.slow, ~ aborted, QuickParts, NEW d \in Dialers,
         Mark(d) \/ Run(d) \/ Spawn(d)
  PROVE  QuickParts'
<1>1. d \in Threads /\ {"run", "name", "spawn"} \subseteq Places(d) /\ "look" \in Places("reader")
  BY Apart, PlacesOf
<1>2. \A e \in Dialers \ {d} : thread[e].at = "idle"
  BY OnlyAttempt DEF QuickParts, Mark, Run, Spawn
<1>3. CASE Mark(d)
  <2>1. /\ \A u \in Threads \ {d} : thread'[u] = thread[u]
        /\ thread[d].at = "mark" /\ thread'[d].at = "run" /\ connected'
        /\ UNCHANGED <<clientSocket, runRecv, kernel, outside, trouble, aborted>>
    BY <1>1, <1>3, GoesTo DEF Mark
  <2>2. OneAttempt'
    BY <1>2, <2>1, AttemptKeeps DEF QuickParts
  <2>3. ASSUME "failed" \notin trouble'
        PROVE  InTurn'
    <3>1. InTurn /\ ~ Crossed' /\ ~ connected /\ clientSocket # NoSocket
      BY <2>1, <2>3 DEF QuickParts, InTurn, AttemptHas, Crossed, Holding
    <3>2. ReaderHas'
      BY <2>1, <3>1, Apart, ReaderAway
    <3>3. AttemptHas(d)'
      BY <2>1, <3>1 DEF AttemptHas, Seeking, Holding
    <3> QED BY <1>2, <2>1, <3>1, <3>2, <3>3, AttemptInTurn
  <2> QED BY <2>2, <2>3 DEF QuickParts
<1>4. CASE Run(d)
  <2>1. /\ \A u \in Threads \ {d} : thread'[u] = thread[u]
        /\ thread[d].at = "run" /\ thread'[d].at = (IF runRecv THEN "name" ELSE "spawn")
        /\ UNCHANGED <<shared, kernel, outside, trouble, aborted>>
    BY <1>1, <1>4, GoesTo DEF Run
  <2>2. OneAttempt'
    BY <1>2, <2>1, AttemptKeeps DEF QuickParts, shared
  <2>3. ASSUME "failed" \notin trouble'
        PROVE  InTurn'
    <3>1. InTurn /\ ~ Crossed'
      BY <2>1, <2>3 DEF QuickParts, InTurn, Crossed
    <3>2. ReaderHas'
      BY <2>1, <3>1, Apart DEF InTurn, ReaderHas, shared
    <3>3. AttemptHas(d)' /\ (clientSocket # NoSocket => connected)
      BY <1>2, <2>1, <3>1 DEF InTurn, AttemptHas, Seeking, Holding, shared
    <3> QED BY <1>2, <2>1, <3>1, <3>2, <3>3, AttemptInTurn DEF shared
  <2> QED BY <2>2, <2>3 DEF QuickParts
<1>5. CASE Spawn(d)
  <2>1. ~ runRecv /\ thread["reader"].at = "none" /\ thread[d].at = "spawn"
    BY <1>5 DEF Spawn, QuickParts, OneAttempt
  <2>2. /\ thread' = [thread EXCEPT ![d].at = "name", !["reader"] = At("look")] /\ runRecv'
        /\ UNCHANGED <<clientSocket, connected, kernel, outside, trouble, aborted>>
    BY <1>5, <2>1 DEF Spawn
  <2>3. /\ \A u \in Threads \ {d, "reader"} : thread'[u] = thread[u]
        /\ thread'[d].at = "name" /\ thread'["reader"].at = "look"
    BY <1>1, <2>2, Apart DEF TypeOK, At
  <2>4. OneAttempt'
    <3>1. \A e \in Dialers : thread'[e].at \in {"idle", "name"} /\ (thread'[e].at # "idle" => e = d)
      BY <1>2, <2>3, Apart
    <3> QED BY <2>2, <2>3, <3>1 DEF OneAttempt
  <2>5. ASSUME "failed" \notin trouble'
        PROVE  InTurn'
    <3>1. InTurn /\ ~ Crossed'
      BY <2>2, <2>5 DEF QuickParts, Crossed, InTurn
    <3>2. ReaderHas' /\ thread'["ui"].at \in {"idle", "report"}
      BY <2>3, <3>1, Apart DEF InTurn, ReaderHas
    <3>3. \A e \in Dialers : thread'[e].at \in {"idle", "name"}
      BY <1>2, <2>3, Apart
    <3>4. (\A e \in Dialers : AttemptHas(e))'
      BY <3>3 DEF AttemptHas, Seeking, Holding
    <3>5. clientSocket # NoSocket => connected
      BY <1>2, <2>1, <3>1 DEF InTurn, Holding
    <3> QED BY <2>2, <3>1, <3>2, <3>4, <3>5 DEF InTurn
  <2> QED BY <2>4, <2>5 DEF QuickParts
<1> QED BY <1>3, <1>4, <1>5

\* What a step of the receive thread or of the window's thread leaves.
LEMMA OtherKeeps ==
  ASSUME NEW t \in {"reader", "ui"}, ~ aborted', runRecv' = runRecv, OneAttempt,
         \A u \in Threads \ {t} : thread'[u] = thread[u],
         t = "reader" => thread[t].at # "none" /\ thread'[t].at # "none"
  PROVE  OneAttempt'
BY Apart DEF OneAttempt

LEMMA OtherInTurn ==
  ASSUME NEW t \in {"reader", "ui"}, ~ Crossed', InTurn, UNCHANGED shared,
         \A u \in Threads \ {t} : thread'[u] = thread[u],
         ReaderHas', thread'["ui"].at \in {"idle", "report"}
  PROVE  InTurn'
<1>1. \A d \in Dialers : thread'[d] = thread[d]
  BY Apart
<1>2. (\A d \in Dialers : AttemptHas(d))'
  BY <1>1 DEF InTurn, AttemptHas, shared
<1>3. (~ connected /\ clientSocket # NoSocket => \E d \in Dialers : thread[d].at \in Holding)'
  BY <1>1 DEF InTurn, shared
<1> QED BY <1>2, <1>3 DEF InTurn

\* The receive thread looks for a socket, and waits on it; a report begins.
LEMMA QuickReads ==
  ASSUME TypeOK, ~ habit.slow, ~ aborted, QuickParts, ReaderStep \/ Report
  PROVE  QuickParts'
<1>1. {"recv", "report", "unset", "look"} \subseteq Places("reader") /\ "report" \in Places("ui")
  BY PlacesOf
<1>2. CASE ReaderStep
  <2>1. /\ \A u \in Threads \ {"reader"} : thread'[u] = thread[u]
        /\ thread["reader"].at \in {"look", "recv"} /\ thread'["reader"].at \in {"recv", "report", "close", "unset"}
        /\ UNCHANGED <<shared, kernel, outside, trouble, aborted>>
        /\ thread["reader"].at = "look" =>
             /\ connected /\ clientSocket # NoSocket
             /\ thread'["reader"].at = "recv" /\ thread'["reader"].socket = clientSocket
        /\ thread["reader"].at = "recv" =>
             /\ thread'["reader"].socket = thread["reader"].socket
             /\ thread'["reader"].at = "close" => thread'["reader"].next = "unset"
             /\ thread'["reader"].at = "unset" => clientSocket = NoSocket
    <3>1. CASE Look
      BY <1>1, <3>1, Apart DEF Look, TypeOK
    <3>2. CASE Command
      BY <1>1, <3>2, Apart, GoesTo DEF Command
    <3>3. CASE RecvFails /\ clientSocket = NoSocket
      BY <1>1, <3>3, Apart, GoesTo DEF RecvFails
    <3>4. CASE RecvFails /\ clientSocket # NoSocket
      BY <1>1, <3>4, Apart, GivesUpTo DEF RecvFails
    <3> QED BY <1>2, <3>1, <3>2, <3>3, <3>4 DEF ReaderStep
  <2>2. OneAttempt'
    BY <2>1, OtherKeeps DEF QuickParts, shared
  <2>3. ASSUME "failed" \notin trouble'
        PROVE  InTurn'
    <3>1. InTurn /\ ~ Crossed'
      BY <2>1, <2>3 DEF QuickParts, InTurn, Crossed
    <3>2. ReaderHas'
      BY <2>1, <3>1 DEF InTurn, ReaderHas, shared
    <3>3. thread'["ui"].at \in {"idle", "report"}
      BY <2>1, <3>1, Apart DEF InTurn
    <3> QED BY <2>1, <3>1, <3>2, <3>3, OtherInTurn
  <2> QED BY <2>2, <2>3 DEF QuickParts
<1>3. CASE Report
  <2>1. /\ \A u \in Threads \ {"ui"} : thread'[u] = thread[u]
        /\ thread'["ui"].at = "report"
        /\ UNCHANGED <<shared, kernel, outside, trouble, aborted>>
    BY <1>1, <1>3, Apart, GoesTo DEF Report
  <2>2. OneAttempt'
    BY <2>1, OtherKeeps DEF QuickParts, shared
  <2>3. ASSUME "failed" \notin trouble'
        PROVE  InTurn'
    <3>1. InTurn /\ ~ Crossed'
      BY <2>1, <2>3 DEF QuickParts, InTurn, Crossed
    <3>2. ReaderHas'
      BY <2>1, <3>1, Apart DEF InTurn, ReaderHas, shared
    <3> QED BY <2>1, <3>1, <3>2, OtherInTurn
  <2> QED BY <2>2, <2>3 DEF QuickParts
<1> QED BY <1>2, <1>3

\* A step of any thread that starts nothing: an attempt does not come to the start of
\* the receive thread by it, and the receive thread goes on.
LEMMA NothingStarts ==
  ASSUME OneAttempt, ~ aborted', runRecv' = runRecv, NEW t \in Threads,
         \A u \in Threads \ {t} : thread'[u] = thread[u],
         thread[t].at \notin {"idle", "none"}, thread'[t].at \notin {"none", "spawn"}
  PROVE  OneAttempt'
<1>1. CASE t \in Dialers
  BY <1>1, Apart, OnlyAttempt, AttemptKeeps
<1>2. CASE t \notin Dialers
  BY <1>2, ThreadsAre, OtherKeeps
<1> QED BY <1>1, <1>2

\* A call of SendToMaster; one that fails ends the taking of turns.
LEMMA QuickSends ==
  ASSUME TypeOK, ~ habit.slow, ~ aborted, QuickParts, NEW t \in Threads, SendToMaster(t)
  PROVE  QuickParts'
<1>1. PICK fails \in Fails :
        /\ thread' = [thread EXCEPT ![t] = IF fails THEN [at |-> "close", socket |-> clientSocket,
                                                        next |-> "unset"] ELSE At(Rest(t))]
        /\ trouble' = IF fails THEN trouble \cup {"failed"} ELSE trouble
  BY DEF SendToMaster
<1>2. thread[t].at \in {"name", "report"} /\ UNCHANGED <<shared, kernel, outside, aborted>>
  BY DEF SendToMaster
<1>3. At(Rest(t)).at = Rest(t) /\ Rest(t) = (IF t = "reader" THEN "look" ELSE "idle")
  BY DEF At, Rest
<1>4. /\ \A u \in Threads \ {t} : thread'[u] = thread[u]
      /\ thread'[t].at = (IF fails THEN "close" ELSE Rest(t))
  BY <1>1, <1>3 DEF TypeOK
<1>5. OneAttempt'
  BY <1>2, <1>3, <1>4, NothingStarts DEF QuickParts, shared
<1>6. ASSUME "failed" \notin trouble'
      PROVE  InTurn'
  <2>1. ~ fails /\ InTurn /\ ~ Crossed'
    BY <1>1, <1>6 DEF QuickParts, InTurn, Crossed
  <2>2. thread'[t].at = Rest(t)
    BY <1>4, <2>1
  <2>3. CASE t \in Dialers
    <3>1. \A e \in Dialers \ {t} : thread[e].at = "idle"
      BY <1>2, <2>3, OnlyAttempt DEF QuickParts
    <3>2. thread'[t].at = "idle" /\ ReaderHas'
      BY <1>2, <1>3, <1>4, <2>1, <2>2, <2>3, Apart DEF InTurn, ReaderHas, shared
    <3>3. AttemptHas(t)' /\ (clientSocket # NoSocket => connected)
      BY <1>2, <2>1, <2>3, <3>1, <3>2 DEF InTurn, AttemptHas, Seeking, Holding, shared
    <3> QED BY <1>2, <1>4, <2>1, <2>3, <3>1, <3>2, <3>3, AttemptInTurn DEF shared
  <2>4. CASE t \in {"reader", "ui"}
    <3>1. ReaderHas'
      BY <1>2, <1>3, <1>4, <2>1, <2>2, <2>4, Apart DEF InTurn, ReaderHas, shared
    <3>2. thread'["ui"].at \in {"idle", "report"}
      BY <1>3, <1>4, <2>1, <2>2, <2>4, Apart DEF InTurn
    <3> QED BY <1>2, <1>4, <2>1, <2>4, <3>1, <3>2, OtherInTurn
  <2> QED BY <2>3, <2>4, ThreadsAre
<1> QED BY <1>5, <1>6 DEF QuickParts

\* Who gives a socket up in turn has it in hand, and no attempt is connecting another.
LEMMA OwnHand ==
  ASSUME QuickParts, InTurn, NEW t \in Threads, thread[t].at \in {"close", "forget"}
  PROVE  /\ t = "reader" \/ t \in Dialers
         /\ clientSocket = thread[t].socket /\ Crossing(t) = {}
         /\ t = "reader" => connected /\ thread[t].next = "unset"
         /\ t \in Dialers => ~ connected /\ thread[t].next = "idle"
<1>1. CASE t = "reader"
  <2>1. connected /\ clientSocket = thread[t].socket /\ thread[t].next = "unset"
    BY <1>1 DEF InTurn, ReaderHas
  <2>2. Connecting = {}
    BY <2>1 DEF InTurn, AttemptHas, Connecting, Seeking, Holding
  <2> QED BY <1>1, <2>1, <2>2, Apart DEF Crossing
<1>2. CASE t \in Dialers
  <2>1. ~ connected /\ clientSocket = thread[t].socket /\ thread[t].next = "idle"
    BY <1>2 DEF InTurn, AttemptHas, Holding
  <2>2. Connecting \subseteq {t}
    BY <1>2, OnlyAttempt DEF QuickParts, Connecting
  <2> QED BY <1>2, <2>1, <2>2, Apart DEF Crossing
<1> QED BY <1>1, <1>2, ThreadsAre DEF InTurn

LEMMA QuickCloses ==
  ASSUME IInv, ~ habit.slow, ~ aborted, QuickParts, NEW t \in Threads, Close(t)
  PROVE  QuickParts'
<1>1. /\ \A u \in Threads \ {t} : thread'[u] = thread[u]
      /\ thread[t].at = "close" /\ thread'[t].at = "forget"
      /\ thread'[t].socket = thread[t].socket /\ thread'[t].next = thread[t].next
      /\ trouble' = trouble \cup Crossing(t) /\ UNCHANGED <<shared, outside, aborted>>
  <2>1. "forget" \in Places(t)
    BY DEF Places
  <2> QED BY <2>1, GoesTo DEF Close, IInv
<1>2. OneAttempt'
  BY <1>1, NothingStarts DEF QuickParts, shared
<1>3. ASSUME "failed" \notin trouble'
      PROVE  InTurn'
  <2>1. InTurn
    BY <1>1, <1>3 DEF QuickParts
  <2>2. /\ ~ Crossed' /\ (t = "reader" \/ t \in Dialers) /\ clientSocket = thread[t].socket
    BY <1>1, <2>1, OwnHand DEF InTurn, Crossed
  <2>3. CASE t = "reader"
    <3>1. ReaderHas' /\ thread'["ui"].at \in {"idle", "report"}
      BY <1>1, <2>1, <2>3, Apart DEF InTurn, ReaderHas, shared
    <3> QED BY <1>1, <2>1, <2>2, <2>3, <3>1, OtherInTurn
  <2>4. CASE t \in Dialers
    <3>1. \A e \in Dialers \ {t} : thread[e].at = "idle"
      BY <1>1, <2>4, OnlyAttempt DEF QuickParts
    <3>2. ReaderHas'
      BY <1>1, <2>1, <2>4, Apart DEF InTurn, ReaderHas, shared
    <3>3. AttemptHas(t)' /\ thread'[t].at \in Holding
      BY <1>1, <2>1, <2>4 DEF InTurn, AttemptHas, Seeking, Holding, shared
    <3> QED BY <1>1, <2>1, <2>2, <2>4, <3>1, <3>2, <3>3, AttemptInTurn DEF shared
  <2> QED BY <2>2, <2>3, <2>4
<1> QED BY <1>2, <1>3 DEF QuickParts

LEMMA QuickForgets ==
  ASSUME IInv, ~ habit.slow, ~ aborted, QuickParts, NEW t \in Threads, Forget(t)
  PROVE  QuickParts'
<1>1. /\ \A u \in Threads \ {t} : thread'[u] = thread[u]
      /\ thread[t].at = "forget" /\ thread'[t].at = thread[t].next
      /\ thread[t].next \in {"open", "idle", "unset"} /\ clientSocket' = NoSocket
      /\ trouble' = trouble \cup Crossing(t) /\ UNCHANGED <<connected, runRecv, kernel, outside, aborted>>
  BY DEF Forget, IInv, TypeOK, HandInv, At
<1>2. OneAttempt'
  BY <1>1, NothingStarts DEF QuickParts
<1>3. ASSUME "failed" \notin trouble'
      PROVE  InTurn'
  <2>1. InTurn
    BY <1>1, <1>3 DEF QuickParts
  <2>2. /\ ~ Crossed' /\ (t = "reader" \/ t \in Dialers)
        /\ t = "reader" => connected /\ thread[t].next = "unset"
        /\ t \in Dialers => ~ connected /\ thread[t].next = "idle"
    BY <1>1, <2>1, OwnHand DEF InTurn, Crossed
  <2>3. CASE t = "reader"
    <3>1. ReaderHas' /\ thread'["ui"].at \in {"idle", "report"}
      BY <1>1, <2>1, <2>2, <2>3, Apart DEF InTurn, ReaderHas
    <3>2. \A d \in Dialers : thread'[d] = thread[d] /\ thread[d].at \notin Seeking \cup Holding
      BY <1>1, <2>1, <2>2, <2>3, Apart DEF InTurn, AttemptHas
    <3>3. (\A d \in Dialers : AttemptHas(d))'
      BY <2>1, <3>2 DEF InTurn, AttemptHas, Holding
    <3> QED BY <1>1, <2>2, <3>1, <3>3 DEF InTurn
  <2>4. CASE t \in Dialers
    <3>1. \A e \in Dialers \ {t} : thread[e].at = "idle"
      BY <1>1, <2>4, OnlyAttempt DEF QuickParts
    <3>2. ReaderHas'
      BY <1>1, <2>1, <2>2, <2>4, Apart DEF InTurn, ReaderHas
    <3>3. AttemptHas(t)'
      BY <1>1, <2>2, <2>4 DEF AttemptHas, Seeking, Holding
    <3> QED BY <1>1, <2>1, <2>2, <2>4, <3>1, <3>2, <3>3, AttemptInTurn
  <2> QED BY <2>2, <2>3, <2>4
<1> QED BY <1>2, <1>3 DEF QuickParts

LEMMA QuickUnsets ==
  ASSUME IInv, ~ habit.slow, ~ aborted, QuickParts, NEW t \in Threads, Unset(t)
  PROVE  QuickParts'
<1>1. /\ \A u \in Threads \ {t} : thread'[u] = thread[u]
      /\ thread[t].at = "unset" /\ thread'[t].at = (IF t = "reader" THEN "look" ELSE "idle")
      /\ connected' = FALSE /\ UNCHANGED <<clientSocket, runRecv, kernel, outside, trouble, aborted>>
  BY DEF Unset, IInv, TypeOK, At, Rest
<1>2. OneAttempt'
  BY <1>1, NothingStarts DEF QuickParts
<1>3. ASSUME "failed" \notin trouble'
      PROVE  InTurn'
  <2>1. InTurn /\ ~ Crossed'
    BY <1>1, <1>3 DEF QuickParts, InTurn, Crossed
  <2>2. t = "reader" /\ clientSocket = NoSocket
    BY <1>1, <2>1, ThreadsAre DEF InTurn, AttemptHas, ReaderHas
  <2>3. ReaderHas' /\ thread'["ui"].at \in {"idle", "report"}
    BY <1>1, <2>1, <2>2, Apart DEF InTurn, ReaderHas
  <2>4. \A d \in Dialers : thread'[d] = thread[d] /\ thread[d].at \notin Holding
    BY <1>1, <2>1, <2>2, Apart DEF InTurn, AttemptHas
  <2>5. (\A d \in Dialers : AttemptHas(d))'
    BY <1>1, <2>1, <2>2, <2>4 DEF InTurn, AttemptHas, Seeking, Holding
  <2> QED BY <1>1, <2>1, <2>2, <2>3, <2>5 DEF InTurn
<1> QED BY <1>2, <1>3 DEF QuickParts

\* The habit is chosen once.
LEMMA HabitKept ==
  ASSUME [Next]_vars
  PROVE  habit' = habit
<1>1. ASSUME NEW d \in Dialers, ConnectToMasterAsync(d) \/ DialStep(d)
      PROVE  habit' = habit
  BY <1>1 DEF DialStep, ConnectToMasterAsync, Check, Drop, Open, Dial, Joined, DialFails, Mark, Run, Spawn, outside
<1>2. ASSUME NEW t \in Threads, GiveUpStep(t)
      PROVE  habit' = habit
  BY <1>2 DEF GiveUpStep, SendToMaster, Close, Forget, Unset, outside
<1>3. CASE ReaderStep \/ Report \/ MasterLost \/ MasterBack
  BY <1>3 DEF ReaderStep, Look, Command, RecvFails, Report, MasterLost, MasterBack, outside
<1> QED BY <1>1, <1>2, <1>3 DEF Next, vars, outside

LEMMA QuickInit == Init => QuickInv
<1> SUFFICES ASSUME Init PROVE QuickParts
  BY DEF QuickInv
<1>1. \A t \in Threads : thread[t].at = IF t = "reader" THEN "none" ELSE "idle"
  BY DEF Init, At
<1>2. OneAttempt
  BY <1>1, Apart DEF Init, OneAttempt
<1>3. ReaderHas /\ \A d \in Dialers : AttemptHas(d)
  BY <1>1, Apart DEF ReaderHas, AttemptHas, Seeking, Holding
<1> QED BY <1>1, <1>2, <1>3, Apart DEF Init, QuickParts, InTurn, Crossed

LEMMA QuickStep ==
  ASSUME IInv, QuickInv, [Next]_vars
  PROVE  QuickInv'
<1>1. SUFFICES ASSUME ~ habit.slow
               PROVE  QuickParts'
  BY HabitKept DEF QuickInv
<1>2. QuickParts /\ ~ aborted /\ TypeOK
  BY <1>1 DEF QuickInv, QuickParts, OneAttempt, IInv
<1>3. ASSUME NEW d \in Dialers, ConnectToMasterAsync(d) \/ DialStep(d)
      PROVE  QuickParts'
  BY <1>1, <1>2, <1>3, QuickBegins, QuickDials, QuickStarts DEF DialStep
<1>4. ASSUME NEW t \in Threads, GiveUpStep(t)
      PROVE  QuickParts'
  BY <1>1, <1>2, <1>4, QuickSends, QuickCloses, QuickForgets, QuickUnsets DEF GiveUpStep
<1>5. CASE ReaderStep \/ Report
  BY <1>1, <1>2, <1>5, QuickReads
<1>6. CASE MasterLost \/ MasterBack \/ UNCHANGED vars
  <2>1. UNCHANGED <<shared, thread, trouble, aborted>>
    BY <1>6 DEF MasterLost, MasterBack, vars
  <2> QED BY <1>2, <2>1 DEF QuickParts, OneAttempt, InTurn, ReaderHas, AttemptHas, Crossed, shared
<1> QED BY <1>3, <1>4, <1>5, <1>6 DEF Next

\* While attempts are quick, however threads, reports and losses interleave: one
\* receive thread is ever started, and no thread takes a socket of another away but
\* where a send has failed before the receive thread noticed the loss.
THEOREM QuickAttemptsHarmless == Spec => []QuickAttempts
<1>1. Init => IInv /\ QuickInv
  BY LinkInit, QuickInit
<1>2. IInv /\ QuickInv /\ [Next]_vars => (IInv /\ QuickInv)'
  BY LinkStep, QuickStep
<1>3. QuickInv => QuickAttempts
  BY DEF QuickInv, QuickParts, OneAttempt, InTurn, QuickAttempts
<1> QED BY <1>1, <1>2, <1>3, PTL DEF Spec
==============================================================================
