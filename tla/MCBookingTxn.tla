----------------------------- MODULE MCBookingTxn -----------------------------
(* BookingTxn for TLC: two request workers racing on the room of          *)
(* MCBooking, with creations, accepts, modifications and occurrence      *)
(* cancellations of one- and two-day bookings.                            *)
EXTENDS BookingTxn, TLC

CONSTANTS r1, r2, admin, owner, plain, p1, p2

MCRes == {r1, r2}
\* one month of two days, single and daily bookings
MCMonthLengths == <<2>>
MCRepetitions == {<<NEVER, 0>>, <<DAY, 1>>}
MCSpans == {<<0, 1>>, <<1, 2>>}
MCUsers == {admin, owner, plain}
MCAdmins == {admin}
MCOwners == {owner}
MCOverriders == {admin, owner}
MCBookableHours == {}
MCProcs == {p1, p2}

\* a single booking on date dt
Day(dt) == [start |-> dt, end |-> dt, repetition |-> <<NEVER, 0>>, span |-> <<0, 1>>]

Req(k, u, r, dt) == [kind |-> k, u |-> u, r |-> r, x |-> Day(dt), d |-> dt]

\* a daily booking of dates 1 and 2
Daily == [start |-> 1, end |-> 2, repetition |-> <<DAY, 1>>, span |-> <<0, 1>>]

\* the owner books daily, the plain user pre-books date 1, the owner
\* accepts, moves a booking to date 2 or cancels one day of it
MCTxnMixedRequests ==
    {[kind |-> "confirm", u |-> owner, r |-> r, x |-> Daily, d |-> 1] : r \in MCRes}
    \cup {Req("confirm", plain, r, 1) : r \in MCRes}
    \cup {Req("accept", owner, r, 1) : r \in MCRes}
    \cup {Req("modify", owner, r, 2) : r \in MCRes}
    \cup {[kind |-> "cancel_occ", u |-> owner, r |-> r, x |-> Daily, d |-> dt] :
            r \in MCRes, dt \in {1, 2}}

\* the owner books r1 daily and cancels either of its two dates
MCTxnCancelRequests ==
    {[kind |-> "confirm", u |-> owner, r |-> r1, x |-> Daily, d |-> 1]}
    \cup {[kind |-> "cancel_occ", u |-> owner, r |-> r1, x |-> Daily, d |-> dt] : dt \in {1, 2}}

\* workers and reservation ids are interchangeable
MCSymmetry == Permutations(MCProcs) \cup Permutations(MCRes)
=============================================================================
