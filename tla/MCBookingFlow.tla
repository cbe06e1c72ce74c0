--------------------------- MODULE MCBookingFlow ---------------------------
(* Values for the constants of BookingFlow, for TLC. *)
EXTENDS BookingFlow, TLC

CONSTANTS s1, i1, i2, i3, ann, bob, k1, k2

Number1 == s1 :> 1

TheSession == [date |-> 1, start |-> 0, end |-> 1, count |-> 1]

OneSession == {TheSession}

SameSession == [w \in Customers |-> TheSession]

\* Two customers, or one who submits twice.
TwoAttempts == (ann :> k1) @@ (bob :> k2)

OneAttempt == (ann :> k1) @@ (bob :> k1)

On(attempt, broken) == [requestId |-> attempt, events |-> broken]

\* The provider is slow, and may refuse a retry; or one attempt is submitted twice
\* and anything may break.
SmoothAndRough == {On(TwoAttempts, {"retry refused"}), On(OneAttempt, Happenings)}

\* Nothing breaks at all.
Smooth == {On(TwoAttempts, {})}

\* Staff cancel a hold whose charge is captured late.
LateCharge == {On(TwoAttempts, {"cancel", "late capture"})}
=============================================================================
