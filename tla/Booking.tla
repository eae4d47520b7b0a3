------------------------------- MODULE Booking -------------------------------
(***************************************************************************)
(* The reservation lifecycle and conflict resolution of one room, as done  *)
(* by the request handlers of                                              *)
(*   src/indico/modules/rb/controllers/user/reservations.py                *)
(* on the models of src/indico/modules/rb/models/reservations.py.          *)
(*                                                                         *)
(* The database of the room is one value `db`: a record per reservation   *)
(* (Reservation row) and the state of its occurrence on each date         *)
(* (ReservationOccurrence rows, keyed by (reservation, date)).  Every     *)
(* handler is written as an operator from a database to a database, so   *)
(* that BookingTxn can run the same handlers on per-request snapshots.    *)
(* In this module every request is one atomic step (a serial schedule).   *)
(***************************************************************************)
EXTENDS Calendar, FiniteSets

CONSTANTS
    Res,               \* reservation ids (Reservation.id)
    Repetitions,       \* the repetition pairs the booking form offers
    Spans,             \* time-of-day spans <<start, end>> of a booking
    Users,
    Admins,            \* users for which user.isRBAdmin() holds
    Owners,            \* users for which room.is_owned_by(user) holds
    IsActive,          \* room.is_active
    IsReservable,      \* room.is_reservable
    NeedsConfirmation, \* room.reservations_need_confirmation
    NonBookableDates,  \* dates covered by a NonBookablePeriod of the room
    BlockedDates,      \* dates of an accepted BlockedRoom of the room
    BlockingOverriders,\* users for which blocking.can_be_overridden holds
    Today,             \* date.today()
    MaxAdvanceDays,    \* room.max_advance_days (0: no limit)
    BookableHours      \* room.bookable_hours: time-of-day spans (none: no limit)

ASSUME /\ Admins \subseteq Users /\ Owners \subseteq Users
       /\ BlockingOverriders \subseteq Users
       /\ NonBookableDates \subseteq Dates /\ BlockedDates \subseteq Dates
       /\ Spans \subseteq (Nat \X Nat) /\ \A sp \in Spans : sp[1] < sp[2]
       /\ {IsActive, IsReservable, NeedsConfirmation} \subseteq BOOLEAN
       /\ Repetitions \subseteq RepeatMapping
       /\ Today \in Nat /\ MaxAdvanceDays \in Nat /\ BookableHours \subseteq Spans

VARIABLES
    db,       \* the committed database of the room
    outcome,  \* how the last request ended
    mails     \* the notifications the last request sent (GenericMailer queue)

vars == <<db, outcome, mails>>

(* The booking data a validated form submits (start/end date, repetition, *)
(* time-of-day span).  A single booking has start date = end date.        *)
BookingData ==
    {x \in [start : Dates, end : Dates, repetition : Repetitions, span : Spans] :
        x.start <= x.end /\ (x.repetition[1] = NEVER => x.start = x.end)}

OccStates == {"none", "valid", "cancelled", "rejected"}

(* The notify_* functions of indico.modules.rb.notifications queue one mail *)
(* about a reservation (d = NoDate) or one of its occurrences.             *)
MailKinds == {"created", "modified", "confirmed", "cancelled", "rejected",
              "occ_cancelled", "occ_rejected"}
Mail(k, r, d) == [kind |-> k, r |-> r, d |-> d]
MailRec == [kind : MailKinds, r : Res, d : Dates \cup {NoDate}]
Outcomes == {"none", "ok", "refused", "empty", "crash"}

ResRec == [exists : BOOLEAN, is_accepted : BOOLEAN, is_cancelled : BOOLEAN,
           is_rejected : BOOLEAN, created_by : Users, data : BookingData]

NoRes == [exists |-> FALSE, is_accepted |-> FALSE, is_cancelled |-> FALSE,
          is_rejected |-> FALSE, created_by |-> CHOOSE u \in Users : TRUE,
          data |-> CHOOSE x \in BookingData : TRUE]
NoOcc == [d \in Dates |-> "none"]

-----------------------------------------------------------------------------
(* Reservation.is_pending *)
IsPending(rec) == ~(rec.is_accepted \/ rec.is_rejected \/ rec.is_cancelled)

(* ReservationOccurrence.overlaps: half-open time-of-day intervals *)
Overlaps(a, b) == a[1] < b[2] /\ b[1] < a[2]

(* The dates of the series of booking data x *)
ExpandDates(x) == Series(x.start, x.end, x.repetition)

HasValidOcc(d0, r) == \E d \in Dates : d0.occ[r][d] = "valid"

(* ReservationOccurrence.find_overlapping_with(room, [occurrence of r on d], r): *)
(* the other reservations with a valid occurrence colliding with it.         *)
Colliding(d0, r, d) ==
    {r2 \in Res \ {r} : /\ d0.res[r2].exists
                        /\ d0.occ[r2][d] = "valid"
                        /\ Overlaps(d0.res[r].data.span, d0.res[r2].data.span)}

(* Reservation.find_overlapping: reservations colliding with a valid occurrence of r *)
FindOverlapping(d0, r) ==
    UNION {Colliding(d0, r, d) : d \in {e \in Dates : d0.occ[r][e] = "valid"}}

-----------------------------------------------------------------------------
(* Room._can_be_booked (no allowed-booking-group attribute is set) *)
CanBeBooked(u, prebook, ignore_admin) ==
    \/ ~ignore_admin /\ u \in Admins
    \/ u \in Owners /\ IsActive
    \/ IsActive /\ IsReservable /\ (prebook \/ ~NeedsConfirmation)

CanBook(u) == CanBeBooked(u, FALSE, FALSE)
CanPrebook(u) == CanBeBooked(u, TRUE, FALSE)

(* _make_confirm_form keeps "submit_prebook" and "submit_book" by these   *)
(* rules; _create_booking turns the buttons into the prebook argument.    *)
HasPrebookButton(u) ==
    ~(~NeedsConfirmation \/ ~CanPrebook(u) \/ (CanBook(u) /\ CanBeBooked(u, FALSE, TRUE)))
(* Mutation: both buttons whenever the user may pre-book *)
PrebookChoicesAnyButton(u) ==
    IF CanPrebook(u) THEN BOOLEAN ELSE {~CanBook(u)}
PrebookChoices(u) ==
    IF CanBook(u) /\ HasPrebookButton(u) THEN BOOLEAN ELSE {~CanBook(u)}

(* Reservation.can_be_cancelled / can_be_rejected / can_be_modified;      *)
(* the booked-for user is the creator.                                    *)
CanBeCancelled(u, rec) == rec.created_by = u \/ u \in Admins
CanBeAccepted(u) == u \in Admins \/ u \in Owners
CanBeRejected(u) == u \in Admins \/ u \in Owners
(* Mutation: a cancelled or rejected reservation may be modified *)
CanBeModifiedAnyState(u, rec) == u \in Admins \/ rec.created_by = u \/ u \in Owners
CanBeModified(u, rec) ==
    /\ ~(rec.is_rejected \/ rec.is_cancelled)
    /\ (u \in Admins \/ rec.created_by = u \/ u \in Owners)

(* Room.check_advance_days and Room.check_bookable_hours for booking data *)
(* x; BookableHours.fits_period: the span lies within the bookable hours.  *)
CheckAdvanceDays(u, x) ==
    MaxAdvanceDays = 0 \/ u \in Admins \/ u \in Owners \/ x.end - Today < MaxAdvanceDays
FitsPeriod(bt, sp) == bt[1] <= sp[1] /\ sp[2] <= bt[2]
CheckBookableHours(u, x) ==
    u \in Admins \/ u \in Owners \/ BookableHours = {} \/ \E bt \in BookableHours : FitsPeriod(bt, x.span)

-----------------------------------------------------------------------------
FlagOf(st) == IF st = "cancelled" THEN "is_cancelled" ELSE "is_rejected"

(* Reservation.cancel / Reservation.reject: set the flag and invalidate   *)
(* every still-valid occurrence with the same state.                      *)
ResInvalidate(d0, r, st) ==
    [d0 EXCEPT !.res[r][FlagOf(st)] = TRUE,
               !.occ[r] = [d \in Dates |-> IF @[d] = "valid" THEN st ELSE @[d]]]

(* ReservationOccurrence.cancel / reject with propagate=True: when no     *)
(* occurrence of the reservation is left valid, the reservation follows.  *)
OccInvalidate(d0, r, d, st) ==
    LET d1 == [d0 EXCEPT !.occ[r][d] = st]
    IN  IF HasValidOcc(d1, r) THEN d1 ELSE ResInvalidate(d1, r, st)

(* Cancel (silently, without propagation) the valid occurrences of r on dates *)
SkipDates(d0, r, dates) ==
    [d0 EXCEPT !.occ[r] = [d \in Dates |-> IF d \in dates /\ @[d] = "valid"
                                           THEN "cancelled" ELSE @[d]]]

(* ReservationOccurrence.create_series_for_reservation *)
CreateSeries(d0, r) ==
    [d0 EXCEPT !.occ[r] = [d \in Dates |-> IF d \in ExpandDates(d0.res[r].data)
                                           THEN "valid" ELSE "none"]]

(* Mutation: the pending collisions of an accepted booking are not rejected *)
ResolveConflictsNoReject(d0, r) ==
    LET own == {d \in Dates : d0.occ[r][d] = "valid"}
        confirmed == {d \in own : \E r2 \in Colliding(d0, r, d) : d0.res[r2].is_accepted}
    IN  [d0 EXCEPT !.occ[r] = [d \in Dates |-> IF d \in confirmed THEN "cancelled" ELSE @[d]]]

(* The last loop of create_occurrences over get_conflicting_occurrences:  *)
(* an own occurrence colliding with an accepted reservation is cancelled; *)
(* otherwise, when r is accepted, the colliding pending occurrences are   *)
(* rejected (with propagation to their reservations).                     *)
ResolveConflicts(d0, r) ==
    LET own == {d \in Dates : d0.occ[r][d] = "valid"}
        confirmed == {d \in own : \E r2 \in Colliding(d0, r, d) : d0.res[r2].is_accepted}
        toReject == IF d0.res[r].is_accepted
                    THEN {<<r2, d>> \in Res \X (own \ confirmed) :
                            r2 \in Colliding(d0, r, d) /\ ~d0.res[r2].is_accepted}
                    ELSE {}
        d1 == [d0 EXCEPT !.occ = [x \in Res |-> [d \in Dates |->
                    IF x = r /\ d \in confirmed THEN "cancelled"
                    ELSE IF <<x, d>> \in toReject THEN "rejected"
                    ELSE d0.occ[x][d]]]]
        emptied == {x \in {p[1] : p \in toReject} : ~HasValidOcc(d1, x)}
    IN  [d1 EXCEPT !.res = [x \in Res |-> IF x \in emptied
                                          THEN [@[x] EXCEPT !.is_rejected = TRUE]
                                          ELSE @[x]]]

(* Reservation.create_occurrences(skip_conflicts=True, user) *)
CreateOccurrences(d0, r, u) ==
    LET d1 == CreateSeries(d0, r)
        d2 == IF u \in Admins THEN d1 ELSE SkipDates(d1, r, NonBookableDates)
        d3 == IF u \in BlockingOverriders THEN d2 ELSE SkipDates(d2, r, BlockedDates)
    IN  ResolveConflicts(d3, r)

(* Reservation.create_from_data(room, data, user, prebook) *)
CreateFromData(d0, r, x, u, prebook) ==
    CreateOccurrences([d0 EXCEPT !.res[r] = [exists |-> TRUE, is_accepted |-> ~prebook,
                                             is_cancelled |-> FALSE, is_rejected |-> FALSE,
                                             created_by |-> u, data |-> x]], r, u)

(* Mutations of modify: 'end_dt' missing from populate_fields; the       *)
(* occurrences not regenerated; the old occurrence state not carried over *)
ModifyDataKeepEnd(d0, r, x, u) ==
    LET old == d0.occ[r]
        y == [x EXCEPT !.end = d0.res[r].data.end]
        d1 == CreateOccurrences([d0 EXCEPT !.res[r].data = y, !.occ[r] = NoOcc], r, u)
    IN  [d1 EXCEPT !.occ[r] = [d \in Dates |-> IF @[d] = "valid" /\ old[d] # "none"
                                               THEN old[d] ELSE @[d]]]
ModifyDataNoRegenerate(d0, r, x, u) == [d0 EXCEPT !.res[r].data = x]
ModifyDataNoCopy(d0, r, x, u) ==
    CreateOccurrences([d0 EXCEPT !.res[r].data = x, !.occ[r] = NoOcc], r, u)

(* Reservation.modify, when an occurrence field changed: regenerate the   *)
(* series, then carry the old state of a date over to a new occurrence    *)
(* that is still valid.                                                   *)
ModifyData(d0, r, x, u) ==
    LET old == d0.occ[r]
        d1 == CreateOccurrences([d0 EXCEPT !.res[r].data = x, !.occ[r] = NoOcc], r, u)
    IN  [d1 EXCEPT !.occ[r] = [d \in Dates |-> IF @[d] = "valid" /\ old[d] # "none"
                                               THEN old[d] ELSE @[d]]]

-----------------------------------------------------------------------------
(* Each request handler maps the database it reads to the set of its     *)
(* possible results: how the request ends, the database it leaves and the *)
(* mails it sends.  A request that raises leaves the database it read     *)
(* (transaction.abort) and sends nothing: RH.process skips                *)
(* _process_success, and the next request's _process_retry_setup empties *)
(* the mail queue.  A request that returns has its queue flushed.         *)
Out(o, d) == [out |-> o, db |-> d, mails |-> {}]
Done(d1, m) == [out |-> "ok", db |-> d1, mails |-> m]

(* The rejections the conflict loop of create_occurrences made between d0 *)
(* and d1: conflict.reject(user, reason) is not silent, each queues a mail *)
RejectionMails(d0, d1, r) ==
    {Mail("occ_rejected", o[1], o[2]) :
        o \in {o \in (Res \ {r}) \X Dates : d0.occ[o[1]][o[2]] = "valid"
                                          /\ d1.occ[o[1]][o[2]] = "rejected"}}

(* Mutation: the "no valid occurrences" sanity check left out *)
UnlessEmptyUnchecked(d0, d1, r, kind) ==
    Done(d1, RejectionMails(d0, d1, r) \cup {Mail(kind, r, NoDate)})

(* create_from_data and modify raise NoReportError when no occurrence of r *)
(* is left valid, before notify_creation / notify_modification; the       *)
(* handler catches it, calls transaction.abort() and returns an error     *)
(* response, so RH.process commits nothing and flushes the mail queue.    *)
UnlessEmpty(d0, d1, r, kind) ==
    IF HasValidOcc(d1, r) THEN Done(d1, RejectionMails(d0, d1, r) \cup {Mail(kind, r, NoDate)})
    ELSE [out |-> "empty", db |-> d0, mails |-> RejectionMails(d0, d1, r)]

(* _checkProtection of a handler: an unauthorised user gets IndicoError  *)
(* (AccessError for modify) before _process runs.                         *)
Protected(d0, allowed, results) == IF allowed THEN results ELSE {Out("refused", d0)}

(* The room's checks at the top of create_from_data and modify raise an   *)
(* IndicoError, which RH.process turns into an error page after an abort. *)
RoomChecked(d0, u, x, results) ==
    IF CheckAdvanceDays(u, x) /\ CheckBookableHours(u, x) THEN results ELSE {Out("refused", d0)}

(* RHRoomBookingNewBooking._process_confirm, then _create_booking_response *)
NewBookingConfirm(d0, u, r, x) ==
    IF d0.res[r].exists THEN {}
    ELSE IF ~CanBook(u) /\ ~CanPrebook(u) THEN {Out("refused", d0)}
    ELSE RoomChecked(d0, u, x,
            {UnlessEmpty(d0, CreateFromData(d0, r, x, u, p), r, "created") : p \in PrebookChoices(u)})

(* RHRoomBookingNewBookingSimple._process (also the clone page) *)
NewBookingSimple(d0, u, r, x) ==
    IF d0.res[r].exists THEN {}
    ELSE RoomChecked(d0, u, x,
            {UnlessEmpty(d0, CreateFromData(d0, r, x, u, p), r, "created") : p \in PrebookChoices(u)})

(* Reservation.accept.  notify_confirmation is queued, then the rejection *)
(* loop over the colliding valid occurrences calls occurrence.reject with *)
(* the reason as its only argument (the other call sites pass the user    *)
(* first), which raises as soon as there is one: the request fails and is *)
(* rolled back, its queue is never flushed.                               *)
Accept(d0, r) ==
    IF FindOverlapping(d0, r) # {} THEN {Out("crash", d0)}
    ELSE {Done([d0 EXCEPT !.res[r].is_accepted = TRUE], {Mail("confirmed", r, NoDate)})}

(* RHRoomBookingAcceptBooking: refuse on a collision with an accepted     *)
(* reservation, accept a pending one.                                     *)
AcceptBooking(d0, u, r) ==
    IF ~d0.res[r].exists THEN {}
    ELSE Protected(d0, CanBeAccepted(u),
            IF \E r2 \in FindOverlapping(d0, r) : d0.res[r2].is_accepted
            THEN {Out("refused", d0)}
            ELSE IF IsPending(d0.res[r]) THEN Accept(d0, r) ELSE {})

(* RHRoomBookingCancelBooking / RHRoomBookingRejectBooking *)
CancelBooking(d0, u, r) ==
    IF ~d0.res[r].exists THEN {}
    ELSE Protected(d0, CanBeCancelled(u, d0.res[r]),
            IF d0.res[r].is_cancelled \/ d0.res[r].is_rejected THEN {}
            ELSE {Done(ResInvalidate(d0, r, "cancelled"), {Mail("cancelled", r, NoDate)})})

RejectBooking(d0, u, r) ==
    IF ~d0.res[r].exists THEN {}
    ELSE Protected(d0, CanBeRejected(u),
            IF d0.res[r].is_cancelled \/ d0.res[r].is_rejected THEN {}
            ELSE {Done(ResInvalidate(d0, r, "rejected"), {Mail("rejected", r, NoDate)})})

(* RHRoomBookingCancelBookingOccurrence / RHRoomBookingRejectBookingOccurrence *)
CancelOccurrence(d0, u, r, d) ==
    IF ~d0.res[r].exists \/ d0.occ[r][d] = "none" THEN {}
    ELSE Protected(d0, CanBeCancelled(u, d0.res[r]),
            IF d0.occ[r][d] # "valid" THEN {}
            ELSE {Done(OccInvalidate(d0, r, d, "cancelled"), {Mail("occ_cancelled", r, d)})})

RejectOccurrence(d0, u, r, d) ==
    IF ~d0.res[r].exists \/ d0.occ[r][d] = "none" THEN {}
    ELSE Protected(d0, CanBeRejected(u),
            IF d0.occ[r][d] # "valid" THEN {}
            ELSE {Done(OccInvalidate(d0, r, d, "rejected"), {Mail("occ_rejected", r, d)})})

(* Mutation: modify notifies even when no field changed (no early return) *)
ModifyBookingNotifyUnchanged(d0, u, r, x) ==
    IF ~d0.res[r].exists THEN {}
    ELSE Protected(d0, CanBeModified(u, d0.res[r]),
            RoomChecked(d0, u, x,
                IF x = d0.res[r].data THEN {Done(d0, {Mail("modified", r, NoDate)})}
                ELSE {UnlessEmpty(d0, ModifyData(d0, r, x, u), r, "modified")}))

(* RHRoomBookingModifyBooking._process and Reservation.modify *)
ModifyBooking(d0, u, r, x) ==
    IF ~d0.res[r].exists THEN {}
    ELSE Protected(d0, CanBeModified(u, d0.res[r]),
            RoomChecked(d0, u, x,
                IF x = d0.res[r].data THEN {Done(d0, {})}
                ELSE {UnlessEmpty(d0, ModifyData(d0, r, x, u), r, "modified")}))

(* A request: the handler, the session user and the handler's arguments *)
Kinds == {"confirm", "simple", "accept", "cancel", "reject",
          "cancel_occ", "reject_occ", "modify"}
Requests == [kind : Kinds, u : Users, r : Res, x : BookingData, d : Dates]

Handle(d0, q) ==
    CASE q.kind = "confirm"    -> NewBookingConfirm(d0, q.u, q.r, q.x)
      [] q.kind = "simple"     -> NewBookingSimple(d0, q.u, q.r, q.x)
      [] q.kind = "accept"     -> AcceptBooking(d0, q.u, q.r)
      [] q.kind = "cancel"     -> CancelBooking(d0, q.u, q.r)
      [] q.kind = "reject"     -> RejectBooking(d0, q.u, q.r)
      [] q.kind = "cancel_occ" -> CancelOccurrence(d0, q.u, q.r, q.d)
      [] q.kind = "reject_occ" -> RejectOccurrence(d0, q.u, q.r, q.d)
      [] q.kind = "modify"     -> ModifyBooking(d0, q.u, q.r, q.x)

-----------------------------------------------------------------------------
(* In this module a request runs alone: it reads the committed database  *)
(* and its result is committed in the same step.                          *)
Serve(results) == \E res \in results : db' = res.db /\ outcome' = res.out /\ mails' = res.mails

Init == db = [res |-> [r \in Res |-> NoRes], occ |-> [r \in Res |-> NoOcc]]
        /\ outcome = "none" /\ mails = {}

Next ==
    \E u \in Users, r \in Res :
        \/ \E x \in BookingData : \/ Serve(NewBookingConfirm(db, u, r, x))
                                  \/ Serve(NewBookingSimple(db, u, r, x))
                                  \/ Serve(ModifyBooking(db, u, r, x))
        \/ Serve(AcceptBooking(db, u, r))
        \/ Serve(CancelBooking(db, u, r))
        \/ Serve(RejectBooking(db, u, r))
        \/ \E d \in Dates : \/ Serve(CancelOccurrence(db, u, r, d))
                            \/ Serve(RejectOccurrence(db, u, r, d))

Spec == Init /\ [][Next]_vars
-----------------------------------------------------------------------------
TypeOK ==
    /\ db \in [res : [Res -> ResRec], occ : [Res -> [Dates -> OccStates]]]
    /\ outcome \in Outcomes
    /\ mails \subseteq MailRec

Live(r) == db.res[r].exists /\ ~db.res[r].is_cancelled /\ ~db.res[r].is_rejected

(* A valid occurrence of an accepted reservation never overlaps a valid   *)
(* occurrence of any other reservation: create_occurrences cancels our   *)
(* colliding occurrences or rejects the pending ones, accept refuses on  *)
(* accepted collisions, modify re-runs both.                              *)
ConfirmedExclusive ==
    \A r1, r2 \in Res, d \in Dates :
        /\ r1 # r2 /\ db.res[r1].is_accepted
        /\ db.occ[r1][d] = "valid" /\ db.occ[r2][d] = "valid"
        => ~Overlaps(db.res[r1].data.span, db.res[r2].data.span)

(* A reservation is live (neither cancelled nor rejected) exactly when one *)
(* of its occurrences is valid: the "no valid occurrences" checks of       *)
(* create_from_data and modify, the cascades of cancel/reject, and the     *)
(* propagation of occurrence cancel/reject keep the two in step.           *)
LiveIffValidOccurrence ==
    \A r \in Res : db.res[r].exists => (Live(r) <=> HasValidOcc(db, r))

(* The occurrences of a reservation lie exactly on the dates of its        *)
(* current start/end/repetition, also after modify changed them.           *)
SeriesMatchesPattern ==
    \A r \in Res : db.res[r].exists =>
        {d \in Dates : db.occ[r][d] # "none"} = ExpandDates(db.res[r].data)

(* A cancelled or rejected occurrence never becomes valid again while its  *)
(* date stays in the series, also when modify deletes and recreates the    *)
(* occurrences (the old state is copied onto the new occurrence).          *)
NoResurrection ==
    [][\A r \in Res, d \in Dates :
          db.occ[r][d] \in {"cancelled", "rejected"} /\ db'.occ[r][d] # "none"
          => db'.occ[r][d] # "valid"]_vars

(* An occurrence that a request on another reservation rejects (the       *)
(* conflict loop of create_occurrences run by create_from_data or modify)  *)
(* is rejected "due to collision with a confirmed reservation": after the  *)
(* request an accepted reservation has a valid occurrence colliding with   *)
(* it on that date.                                                        *)
RejectedOnlyOnCollision ==
    [][\A r2 \in Res, d \in Dates :
          /\ db.occ[r2][d] = "valid" /\ db'.occ[r2][d] = "rejected"
          /\ \E r \in Res \ {r2} : db'.res[r] # db.res[r]
          => \E r \in Res \ {r2} : /\ db'.res[r].is_accepted /\ db'.occ[r][d] = "valid"
                                 /\ Overlaps(db'.res[r].data.span, db'.res[r2].data.span)]_vars

(* A new reservation is accepted only when its creator may book the room, *)
(* and pending only when the creator may at least pre-book it.            *)
CreatedWithPermission ==
    [][\A r \in Res :
          ~db.res[r].exists /\ db'.res[r].exists =>
             IF db'.res[r].is_accepted THEN CanBook(db'.res[r].created_by)
             ELSE CanPrebook(db'.res[r].created_by)]_vars

(* The lifecycle status the flags of a Reservation row stand for *)
StatusOf(rec) ==
    CASE ~rec.exists       -> "none"
      [] rec.is_cancelled  -> "cancelled"
      [] rec.is_rejected   -> "rejected"
      [] rec.is_accepted   -> "accepted"
      [] OTHER             -> "pending"

(* Refinement mapping: a reservation holds the slots of its valid          *)
(* occurrences, each on its date with the reservation's time span.         *)
Abstract == INSTANCE Lifecycle
    WITH status <- [r \in Res |-> StatusOf(db.res[r])],
         slots  <- [r \in Res |-> {<<d, db.res[r].data.span>> :
                                    d \in {e \in Dates : db.occ[r][e] = "valid"}}]

(* The handlers implement the reservation lifecycle: only pending          *)
(* reservations are accepted, cancelled and rejected ones never come back, *)
(* a request takes slots only from pending reservations of others (which  *)
(* are rejected when left with none), a live reservation holds a valid    *)
(* occurrence, and accepted slots stay exclusive.                          *)
LifecycleSpec == Abstract!LCSpec

(* The change a mail announces, made by the step from db to db' *)
Announced(m) ==
    CASE m.kind = "created"       -> ~db.res[m.r].exists /\ db'.res[m.r].exists
      [] m.kind = "modified"      -> db.res[m.r].data # db'.res[m.r].data
      [] m.kind = "confirmed"     -> ~db.res[m.r].is_accepted /\ db'.res[m.r].is_accepted
      [] m.kind = "cancelled"     -> ~db.res[m.r].is_cancelled /\ db'.res[m.r].is_cancelled
      [] m.kind = "rejected"      -> ~db.res[m.r].is_rejected /\ db'.res[m.r].is_rejected
      [] m.kind = "occ_cancelled" -> db.occ[m.r][m.d] = "valid" /\ db'.occ[m.r][m.d] = "cancelled"
      [] m.kind = "occ_rejected"  -> db.occ[m.r][m.d] = "valid" /\ db'.occ[m.r][m.d] = "rejected"

(* Every notification a successful request sends (the queue flushed by   *)
(* RH._process_success after the commit) announces a change the request   *)
(* committed: the creation, the modification, the confirmation, or the   *)
(* cancel/reject of the reservation or of one occurrence it names.        *)
MailsAnnounceCommits ==
    [][outcome' = "ok" => \A m \in mails' : Announced(m)]_vars

(* A request that leaves the database unchanged sends no notification:    *)
(* the mails queued by a request the handler rolled back with             *)
(* transaction.abort() must not reach the users.                          *)
AbortedRequestsSendNothing ==
    [][db' = db => mails' = {}]_vars

(* No request handler ends with an exception other than the refusals and  *)
(* the "no valid occurrences" error the handlers raise on purpose.        *)
NoUnhandledError == outcome # "crash"
=============================================================================
