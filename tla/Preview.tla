------------------------------ MODULE Preview ------------------------------
(***************************************************************************)
(* What a user is shown before booking, next to what booking then does:   *)
(*  - the conflicts of the booking page                                    *)
(*    (RHRoomBookingNewBookingBase._get_all_conflicts), and               *)
(*  - the availability filter of the room search (Room.filter_available   *)
(*    via Room.find_with_filters),                                         *)
(* both read-only queries of the database of Booking.  A state is a       *)
(* database the handlers produced (one booking created on an empty room)  *)
(* and the form a user fills in; the properties compare the answer of the *)
(* query with the booking create_from_data would make from the same form. *)
(***************************************************************************)
EXTENDS Booking

CONSTANTS
    Blockings,     \* the room's BlockedRoom entries
    ServerAdmins,  \* users for which user.isAdmin() holds
    FlexibleDays   \* the values of the flexible_dates_range field of step 1

ASSUME /\ Blockings \subseteq [start : Dates, end : Dates, state : {"accepted", "pending"}]
       /\ ServerAdmins \subseteq Users
       /\ FlexibleDays \subseteq Nat

VARIABLE q   \* the submitted form: booking data x, flexible days flex, the session user u

EmptyDB == [res |-> [r \in Res |-> NoRes], occ |-> [r \in Res |-> NoOcc]]
Seed == CHOOSE r \in Res : TRUE               \* the booking already made
Free == CHOOSE r \in Res : r # Seed           \* the id the next booking gets
NoId == "none"                                \* reservation_id=None

(* ReservationOccurrence.find_overlapping_with(room, occurrences on the    *)
(* given dates with time span sp, rid): the valid occurrences of the other *)
(* reservations that collide with one of them, as <<reservation, date>>.   *)
OverlappingWith(d0, dates, sp, rid) ==
    {o \in Res \X dates : /\ o[1] # rid /\ d0.res[o[1]].exists
                          /\ d0.occ[o[1]][o[2]] = "valid"
                          /\ Overlaps(sp, d0.res[o[1]].data.span)}

(* _get_all_conflicts(room, form, reservation_id): the candidate series is *)
(* built from (repeat_interval, repeat_interval); colliding occurrences   *)
(* of accepted reservations are conflicts, the others pre-conflicts.      *)
GetAllConflicts(d0, x, rid) ==
    LET candidates == Series(x.start, x.end, <<x.repetition[2], x.repetition[2]>>)
        occs == OverlappingWith(d0, candidates, x.span, rid)
    IN  [conflicts |-> {o \in occs : d0.res[o[1]].is_accepted},
         pre_conflicts |-> {o \in occs : ~d0.res[o[1]].is_accepted}]

(* _get_all_occurrences(room_ids, form, flexible_days): the window is the *)
(* period widened by flexible_days on each side, starting no earlier than *)
(* today unless the user is a server admin; the valid occurrences inside  *)
(* it, and for each shift k in -flex..flex the candidate series of the     *)
(* period shifted by k days, dropped when it starts before the window.     *)
(* Mutation: the window not widened at its end *)
GetAllOccurrencesNoFlexEnd(d0, x, u, flex) ==
    LET lo == IF u \notin ServerAdmins /\ x.start - flex < Today THEN Today ELSE x.start - flex
    IN  [occurrences |-> {o \in Res \X (lo..x.end) : d0.res[o[1]].exists
                                                  /\ d0.occ[o[1]][o[2]] = "valid"},
         candidates |-> [k \in {k \in -flex..flex : x.start + k >= lo} |->
                           Series(x.start + k, x.end + k, x.repetition)]]
GetAllOccurrences(d0, x, u, flex) ==
    LET lo == IF u \notin ServerAdmins /\ x.start - flex < Today THEN Today ELSE x.start - flex
    IN  [occurrences |-> {o \in Res \X (lo..(x.end + flex)) : d0.res[o[1]].exists
                                                           /\ d0.occ[o[1]][o[2]] = "valid"},
         candidates |-> [k \in {k \in -flex..flex : x.start + k >= lo} |->
                           Series(x.start + k, x.end + k, x.repetition)]]

(* Step 1, RHRoomBookingNewBooking._process_select_room: the period page   *)
(* shows the occurrences and the candidates of _get_all_occurrences.       *)
SelectRoom(d0, x, u, flex) == GetAllOccurrences(d0, x, u, flex)

(* The booking data of the candidate of shift k: what the period form of  *)
(* step 2 submits when the user picks it.                                  *)
Shifted(x, k) == [x EXCEPT !.start = x.start + k, !.end = x.end + k]

(* RHRoomBookingNewBooking._show_confirm: the confirm page of step 3 lists *)
(* the conflicts and pre-conflicts of the submitted period.               *)
ShowConfirm(d0, x) == GetAllConflicts(d0, x, NoId)

(* Step 2, _process_select_period: the submitted period of the room goes  *)
(* to the confirm page (a form that fails validation or names no room     *)
(* raises IndicoError; the model's forms are valid and name the room).    *)
SelectPeriod(d0, x) == ShowConfirm(d0, x)

(* Room.filter_available(start, end, repetition, include_pre_bookings,     *)
(* include_pending_blockings): no valid (accepted, unless pre-bookings     *)
(* count) occurrence collides with the series, and no blocking in a      *)
(* counted state spans the whole period from start date to end date.     *)
FilterAvailable(d0, x, rep, includePre, includePending) ==
    LET occs == OverlappingWith(d0, Series(x.start, x.end, rep), x.span, NoId)
        states == IF includePending THEN {"accepted", "pending"} ELSE {"accepted"}
    IN  /\ ~\E o \in occs : includePre \/ d0.res[o[1]].is_accepted
        /\ ~\E b \in Blockings : b.state \in states /\ b.start <= x.start /\ b.end >= x.end

(* find_with_filters: the search form gives the old repeatability number *)
SearchAvailable(d0, x, includePre, includePending) ==
    FilterAvailable(d0, x, GetNewMapping(OldMapping[x.repetition]), includePre, includePending)

-----------------------------------------------------------------------------
(* The bookings a submitted form creates (the confirm step of the new     *)
(* booking page), as the databases they leave.                            *)
Created(d0, u, x) ==
    {res.db : res \in {o \in NewBookingConfirm(d0, u, Free, x) : o.out = "ok"}}

Seeds == {res.db : res \in {o \in UNION {NewBookingConfirm(EmptyDB, u, Seed, y) :
                                           u \in Users, y \in BookingData} : o.out = "ok"}}

(* The forms: every shift of the period stays inside the modelled dates *)
Forms == {f \in [x : BookingData, flex : FlexibleDays, u : Users] :
             f.x.start - f.flex \in Dates /\ f.x.end + f.flex \in Dates}

PreviewInit == db \in Seeds /\ outcome = "ok" /\ mails = {} /\ q \in Forms
PreviewNext == UNCHANGED <<db, outcome, mails, q>>
PreviewSpec == PreviewInit /\ [][PreviewNext]_<<db, outcome, mails, q>>

(* Dates create_occurrences skips for user u before the conflict loop *)
Skipped(u) == (IF u \in Admins THEN {} ELSE NonBookableDates)
              \cup (IF u \in BlockingOverriders THEN {} ELSE BlockedDates)

(* On every date the preview and the booking share, the preview tells     *)
(* what the conflict loop of create_occurrences will do: a confirmed      *)
(* conflict means our occurrence is cancelled, no confirmed conflict on a *)
(* date that is not skipped means it stays valid, and the pre-conflicts   *)
(* of an accepted booking end up rejected.                                *)
PreviewPredictsCreation ==
    LET pv == ShowConfirm(db, q.x)
        shared == Series(q.x.start, q.x.end, <<q.x.repetition[2], q.x.repetition[2]>>)
                  \cap ExpandDates(q.x)
    IN  \A d1 \in Created(db, q.u, q.x), d \in shared :
          /\ (\E o \in pv.conflicts : o[2] = d) => d1.occ[Free][d] # "valid"
          /\ (~\E o \in pv.conflicts : o[2] = d) /\ d \notin Skipped(q.u)
                => d1.occ[Free][d] = "valid"
          /\ d1.res[Free].is_accepted /\ d \notin Skipped(q.u)
                => \A o \in pv.pre_conflicts : o[2] = d => d1.occ[o[1]][d] = "rejected"

(* Step 1 lists, beside each candidate series it offers, every valid     *)
(* occurrence that collides with it: the window _get_all_occurrences     *)
(* fetches covers all the shifted series it builds.                       *)
CandidatesWithinWindow ==
    LET st == SelectRoom(db, q.x, q.u, q.flex)
    IN  \A k \in DOMAIN st.candidates :
            OverlappingWith(db, st.candidates[k], q.x.span, NoId) \subseteq st.occurrences

(* The confirm page, reached by picking a candidate of step 1, previews   *)
(* the conflicts of that series (the one create_occurrences will make):   *)
(* its conflicts and pre-conflicts are exactly the valid occurrences      *)
(* colliding with it.                                                     *)
PreviewMatchesBooking ==
    LET st == SelectRoom(db, q.x, q.u, q.flex)
    IN  \A k \in DOMAIN st.candidates :
          LET occs == OverlappingWith(db, st.candidates[k], q.x.span, NoId)
          IN  SelectPeriod(db, Shifted(q.x, k)) =
                [conflicts |-> {o \in occs : db.res[o[1]].is_accepted},
                 pre_conflicts |-> {o \in occs : ~db.res[o[1]].is_accepted}]

(* A room the search lists as available (pre-bookings and pending         *)
(* blockings counted) takes the booking whole: no occurrence of a booking *)
(* created from the same data is skipped or cancelled.                    *)
AvailableMeansBookable ==
    SearchAvailable(db, q.x, TRUE, TRUE) =>
        \A d1 \in Created(db, q.u, q.x), d \in ExpandDates(q.x) : d1.occ[Free][d] = "valid"
=============================================================================
