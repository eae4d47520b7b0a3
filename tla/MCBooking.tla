------------------------------ MODULE MCBooking ------------------------------
(* Booking instantiated for TLC: two reservations, two dates, one       *)
(* user of each kind (RB admin, room owner, plain user), a room that      *)
(* needs confirmation, a non-bookable date and an accepted blocking.      *)
EXTENDS Booking, TLC

CONSTANTS r1, r2, admin, owner, plain

MCRes == {r1, r2}
\* one month of two days, single and daily bookings
MCMonthLengths == <<2>>
MCRepetitions == {<<NEVER, 0>>, <<DAY, 1>>}
\* the same span collides; [0,1) and [1,2) only touch
MCSpans == {<<0, 1>>, <<1, 2>>}
MCUsers == {admin, owner, plain}
MCAdmins == {admin}
MCOwners == {owner}
\* Blocking.can_be_overridden: RB admins and the room's owners
MCOverriders == {admin, owner}
\* bookable hours that admit only the first span
MCBookableHours == {<<0, 1>>}

\* the lifecycle refinement: an owner who books and a plain user who
\* pre-books are enough to reach every status
MCLifecycleUsers == {owner, plain}
MCNoAdmins == {}
MCLifecycleOverriders == {owner}

\* No action reads mails, only the action properties read mails': states
\* that differ in mails alone have the same successors, so TLC may store
\* them as one.
MCView == <<db, outcome>>

\* reservation ids are interchangeable
MCSymmetry == Permutations(MCRes)
=============================================================================
