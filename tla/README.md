# TLA+ models of the room-booking engine

These modules model the room-booking reservation engine of this repository:
- the Reservation model: `src/indico/modules/rb/models/reservations.py`;
- the room permission rules: `src/indico/modules/rb/models/rooms.py`;
- the request handlers: `src/indico/modules/rb/controllers/user/reservations.py`;
- the request/transaction wrapper: `src/indico/MaKaC/webinterface/rh/base.py`.

## 1. Inventory

### Parts of the system and how they interact

| Part | Source | State | Operations that change it |
|---|---|---|---|
| Reservation | `Reservation` (reservations.py) | flags `is_accepted`, `is_cancelled`, `is_rejected`; creator; dates, repetition, time span | `create_from_data`, `modify`, `accept`, `cancel`, `reject` |
| Occurrences | `ReservationOccurrence` rows, one per date of the series (model not in `src/`) | valid / cancelled / rejected per date | `create_occurrences` (series, skipping of non-bookable and blocked dates, conflict loop), occurrence `cancel`/`reject` |
| Room permissions | `Room._can_be_booked`, `can_be_booked`, `can_be_prebooked`, `is_owned_by`, `reservations_need_confirmation` | room flags, admins, owners (constant here) | none |
| Room catalogue | `Room.attributes` (`RoomAttributeAssociation` rows), `kind`, `is_public`, `has_booking_groups`, `find_with_filters` (rooms.py) | the allowed-booking-group and manager-group attribute of each room | `set_attribute_value` |
| Booking handlers | `RHRoomBookingNewBooking` (confirm step), `…NewBookingSimple`, `…AcceptBooking`, `…CancelBooking`, `…RejectBooking`, `…Cancel/RejectBookingOccurrence`, `…ModifyBooking` | none of their own | call the model methods above |
| Request transactions | `RH.process`, `_process_retry_do` | the database transaction of the request | up to `max_retries` attempts of `_checkProtection`, `_process` and `transaction.commit()`; `transaction.abort()` and the next attempt on a retryable failure or a client disconnect |
| Repetition calendar | `RepeatFrequency`, `RepeatMapping`, `ReservationOccurrence.create_series` | none | none (pure) |
| Conflict preview | `_get_all_occurrences`, `_get_all_conflicts`, `Room.filter_available` | none (read-only) | none |
| Booking limits | `Room.check_advance_days`, `check_bookable_hours` | none | raise before any write |
| Routing and helpers | `web/flask/blueprints/admin.py`, `rb/controllers/decorators.py`, `util/decorators.py` | none | none |

Each handler runs inside `RH.process`:
1. it checks protection (refuses the unauthorised);
2. it calls one or more model methods, which cascade into the occurrences;
3. it commits, or aborts when an exception is raised.

Handlers for the same room run concurrently in different server workers. Nothing serialises them: the source takes no lock and sets no isolation level, so the database's default, read committed, applies.

### Hard behaviours

- **Conflict cascade.** `create_occurrences` cancels its own occurrences that collide with an accepted booking. If the booking is accepted, it also rejects the colliding pending occurrences of other bookings. Rejecting the last valid occurrence of a booking rejects that booking.
- **Regeneration in `modify`.** `modify` deletes and regenerates the occurrences. It then copies the old state onto each regenerated occurrence that is still valid.
- **The "no valid occurrences" check.** Creation and modify raise when no valid occurrence is left, and the handler aborts.
- **Buttons decide `prebook`.** The buttons of the confirm form decide whether a booking is created accepted or pending.
- **Concurrency.** Two requests may each check for conflicts against committed rows and both commit.

### Properties per part

- **Reservations and occurrences:**
  - an accepted booking never overlaps any other valid booking;
  - a booking is live exactly when it has a valid occurrence;
  - the occurrences follow the booking's date pattern;
  - cancelled occurrences never come back.
- **Modify:** a pending booking is rejected only for a collision that exists after the request.
- **Preview:** what the user is shown before booking agrees with what booking does.
- **Room catalogue:** whatever attributes have been written, a search for public rooms lists only rooms everyone may pre-book.
- **Permissions:** a booking is created accepted only for a user who may book, and pending only for one who may pre-book.
- **Transactions:** what the serial handlers guarantee (exclusivity, a live booking has a valid occurrence) under concurrent read-committed requests.
- **Notifications:** a mail sent after a request announces a change that request committed.
- **The promise as a whole:** seen as statuses and held slots, the engine is the abstract state machine of `Lifecycle`.

## 2. Plan

Modules, in order of importance:
1. `Booking`: all state-changing handlers of one room, each an atomic step. This is the core. **Built.**
2. `BookingTxn`: the same handlers run by concurrent workers on snapshots, with commits merged under read committed. **Built.**
3. `Calendar`: `RepeatMapping` and the DAY/WEEK/MONTH/YEAR series with real month lengths, written from the spec, as `create_series` is not under `src/`. **Built.** The room checks `check_advance_days` and `check_bookable_hours` are in `Booking`. **Built.**
4. `Preview`: `_get_all_occurrences`, `_get_all_conflicts` and `Room.filter_available` compared with what `create_occurrences` then does. **Built.**
5. `Rooms`: the attribute rows of the rooms, `set_attribute_value`, and what reads them (`kind`, `is_public`, `is_owned_by`, `_can_be_booked`, `find_with_filters`). **Built.**
6. The mail queue beside the database (`mails`), flushed by `RH._process_success`. **Built.**
7. `Lifecycle`: the abstract specification of spec §4.4, implemented by `Booking` through a refinement mapping. **Built.**
8. Occurrence cancellations in the concurrent request set of `BookingTxn`. **Built.**
   The `transaction.attempts` retry loop and client disconnects. **Built.**
9. Steps 1 and 2 of the new booking page, with flexible days, in `Preview`. **Built.**
10. Planned next:
   - a cached owner set (`is_owned_by`), if the cache's code (`rb/models/utils.py`) becomes available;
   - WEEK repetitions in the serial `Booking` run, if the state space allows.

## 3. Modules and correspondence to the code

### `Booking.tla`

**State.**
- `db.res[r]` is the Reservation row: its flags, `created_by`, and `data` (start/end date, repetition pair, time-of-day span).
- `db.occ[r][d]` is the occurrence of `r` on date `d`: `"none"`, `"valid"`, `"cancelled"` or `"rejected"`.
- `outcome` is how the last request ended. `"crash"` means an unexpected exception and `"empty"` means the "no valid occurrences" error.
- `mails` is the set of notifications the last request sent: the `GenericMailer` queue that `RH._process_success` flushes (base.py:532). A mail is a kind (`created`, `modified`, `confirmed`, `cancelled`, `rejected`, `occ_cancelled`, `occ_rejected`), a reservation and, for an occurrence, its date. The notification functions are outside `src/`, so `MailKinds`, `Mail` and `MailRec` are written from the spec and from their call sites.

**Handlers.** Each handler is an operator from the database it reads to the set of possible results `[out, db, mails]`. This lets `BookingTxn` reuse the handlers unchanged.
- A result that raises (`Out`) keeps the database it read, because the transaction is aborted, and sends nothing: `RH.process` skips `_process_success` on an exception.
- A successful result (`Done`) carries the mails its model calls queued.
- The one mixed case is `UnlessEmpty`. When the "no valid occurrences" error is caught by the handler, which calls `transaction.abort()` and returns normally, the database is rolled back. The rejection mails that `create_occurrences` queued for other bookings (`RejectionMails`, reservations.py:497-501) are still flushed.

| Definition | Code |
|---|---|
| `CreateSeries`, `SkipDates`, `ResolveConflicts`, `CreateOccurrences` | `create_occurrences`, in order: series, non-bookable dates (skipped for admins), blockings (skipped for overriders), conflict loop |
| `CreateFromData` | `create_from_data` |
| `ModifyData` | `modify` when an occurrence field changed: delete, regenerate, copy the old state onto still-valid new occurrences |
| `ResInvalidate` | `Reservation.cancel` / `reject` |
| `OccInvalidate` | occurrence cancel/reject with propagation |
| `Accept` | `Reservation.accept` |
| `HasPrebookButton`, `PrebookChoices` | `_make_confirm_form` and `_create_booking` |
| `Protected` | `_checkProtection` |
| `UnlessEmpty` | the "no valid occurrences" check together with the handler's `transaction.abort()` |
| `Done`, `RejectionMails` | `_process_success` flushing the mail queue; the rejection mails of the conflict loop |
| `StatusOf` | the derived statuses `is_valid` / `is_pending` |
| `NewBookingConfirm`, `NewBookingSimple`, `AcceptBooking`, `CancelBooking`, `RejectBooking`, `CancelOccurrence`, `RejectOccurrence`, `ModifyBooking` | the handlers |

`ReservationOccurrence` is not under `src/`, so three definitions are written from its documented behaviour:
- `Overlaps`: half-open time spans.
- `ExpandDates`: the series dates.
- `OccInvalidate`: when no valid occurrence is left, the booking follows. This is inferred from the `propagate=False` calls in `create_occurrences` and the re-check of `is_valid` in `accept`.

**Abstraction.**
- The dates are a few consecutive days, and only the NEVER and DAY repetitions are used in the `Booking` runs. WEEK and MONTH are checked in `Calendar` and `Preview`.
- A time span is a pair of naturals.
- Edit logs, contact data and equipment are left out. No property is about them. Mails keep only their kind and target, not their text or recipients.

**Refinement.** `Abstract == INSTANCE Lifecycle WITH status <- …, slots <- …` maps each reservation to its status (`StatusOf` of its flags) and to its slots, the `<<date, span>>` of each valid occurrence. `LifecycleSpec == Abstract!LCSpec` is checked as a PROPERTY.

`MCBooking.cfg` uses `VIEW MCView == <<db, outcome>>`. No action reads `mails`; only the action property `MailsAnnounceCommits` reads `mails'`, which the step determines from `db` and the request. Two states that differ only in `mails` therefore have the same successors, and the view loses no behaviour the properties tell apart.

### `Lifecycle.tla`

`Lifecycle.tla` is the abstract specification of what the engine promises about one room (spec §4.4). It says nothing about occurrences, permissions or forms.
- **State.** `status[r]` is one of none, pending, accepted, cancelled and rejected. `slots[r]` is the set of `<<date, span>>` pairs `r` holds.
- **Actions.** A request on `r` is one of the following:
  - `Create`: a new live reservation with some slots;
  - `Accept`: pending to accepted;
  - `Withdraw`: cancel or reject the whole reservation;
  - `Release`: give up some slots, ending the reservation when none is left;
  - `Rebook`: move to new slots.
- **The other reservations.** In `Create` and `Rebook` the others may only lose slots, and only if they are pending (`OthersYield`). One left without a slot is rejected.
- **Exclusivity.** Every next state must satisfy `Exclusive`: no slot of an accepted reservation collides with a slot of another reservation.

It is not mapped: it models the spec's promise, not code.

`RoomChecked` is the pair of room checks at the top of `create_from_data` and `modify`. `CheckAdvanceDays` and `CheckBookableHours` follow `Room.check_advance_days` and `check_bookable_hours`: admins and owners are exempt, and the limit is `end - today < max_advance_days`.

### `Calendar.tla`

- **Dates.** A date is a day number of a calendar whose months have the lengths `MonthLengths`. `MonthOf`, `DayOfMonth` and `DaysBefore` convert between the two.
- **Repetitions.** `NEVER`…`YEAR` are `RepeatFrequency`. `OldMapping` is `RepeatMapping._mapping`: each implemented pair with its old repeatability number. `GetNewMapping` is `getNewMapping`.
- **Series.** `ReservationOccurrence.create_series` is not under `src/`, so `Series` is written from the spec. It steps the start date by unit × interval up to the end date. `AddMonths` clamps a day the target month lacks to its last day. `SeriesFrom` is RECURSIVE.

### `Rooms.tla`

The Room columns (location, owner, flags, capacity, equipment) are constants: nothing under these sources edits a room. The state is `attrs[rm][name]`, the value of the room's `allowed-booking-group` and `manager-group` attribute rows (`NoAttr` when there is no row), and `error`, how the last write ended.

| Definition | Code |
|---|---|
| `HasAttribute`, `GetAttributeValue` | `get_attribute_by_name`, `has_attribute`, `get_attribute_value` |
| `HasBookingGroups`, `IsPublic`, `Kind`, `IsAutoConfirm` | the properties of the same names; the last branch of `kind` (`''`) is unreachable |
| `IsOwnedBy` | `is_owned_by`: the owner, or a member of the manager group |
| `CanBeBookedRoom`, `CanBookRoom`, `CanPrebookRoom` | `_can_be_booked` with the allowed booking group, `can_be_booked`, `can_be_prebooked` |
| `QueryRooms`, `DetailsMatch` | the SQL query of `find_with_filters`; `c * 0.8` is compared as `5 * capacity >= 4 * c`, which orders the same for integers |
| `FindWithFilters` | the whole of `find_with_filters`: the query, then the Python `is_public` and `is_owned_by` filters, then the rooms of at most 120% of the capacity unless none is left |
| `SetAttributeValue` | `set_attribute_value`: an existing row is updated, or deleted for a falsy value; a new row needs the location to support the attribute, else `ValueError` and nothing written |

`RoomsNext` is any write of any group name or `""` to either attribute of any room. The search takes `FreeRooms`, the rooms `filter_available` admits for the form's period, as a constant, since `Preview` models that query.

### `Preview.tla`

These are read-only queries on a database the `Booking` handlers produced: one booking created on an empty room, with any data by any user.

| Definition | Code |
|---|---|
| `OverlappingWith` | `ReservationOccurrence.find_overlapping_with` (spec) |
| `GetAllOccurrences`, `Shifted` | `_get_all_occurrences`: the window widened by `flexible_days` (clamped to today for non server admins) and the candidate series of each shift |
| `SelectRoom`, `SelectPeriod` | steps 1 and 2 of the new booking page, `_process_select_room` and `_process_select_period` |
| `GetAllConflicts`, `ShowConfirm` | `_get_all_conflicts` and the confirm page of `_show_confirm` |
| `FilterAvailable`, `SearchAvailable` | `Room.filter_available` and its call in `find_with_filters` (old repeatability number → pair) |
| `Created` | the confirm step `NewBookingConfirm` of `Booking`, on the next free id |

The form `q` holds the booking data, the flexible days of step 1 and the user. Every shifted period stays inside the modelled dates. The properties compare what a query answers for a form with the booking `NewBookingConfirm` creates from the same form, and step 1's window with its candidates.

### `BookingTxn.tla`

Each worker `p` in `Procs` runs one request through the `transaction.attempts(max_retries)` loop of `RH.process`. `pc[p]` is `"idle"`, `"running"` (an attempt has run its handler) or `"retry"` (an attempt was aborted and the next one is due). `attempt[p]` is the loop index `i`.
- `Receive(p)` takes a request and runs its first attempt (`RunAttempt`): the handler runs on the committed database, and the worker records what it read (`snap[p]`) and its result.
- `Rerun(p)` is the next attempt. It runs the whole handler again on the database as it is now. If the handler no longer admits the request (its booking was cancelled in between), the request ends without a write.
- `Commit(p)` is `transaction.commit()` followed by `_process_success`. `Merge` applies only the columns and occurrence rows the handler changed, on top of what other requests committed meanwhile, and `mails` becomes the request's mails. Under read committed the commit does not fail for concurrent writes.
- `Disconnect(p)` is `ClientDisconnected` during an attempt. The attempt is aborted and the loop goes on while attempts are left (`AbortAttempt`). After the last attempt the loop ends, and `_process_success` runs with nothing committed.
- `Discard(p)` drops the aborted attempt's snapshot and result, as `_process_retry_setup` clears the queues at the start of each attempt.

`IdTaken` models the id sequence, so that two requests never create the same reservation.

## 4. Runs

| Run | Cfg | Expect | What it shows |
|---|---|---|---|
| `serial_booking` | `MCBooking.cfg` | pass | `TypeOK`, `ConfirmedExclusive`, `LiveIffValidOccurrence`, `SeriesMatchesPattern`, and the action properties `NoResurrection`, `CreatedWithPermission` and `MailsAnnounceCommits` (every mail a successful request sends announces a change it committed), over every sequence of requests by an admin, an owner and a plain user |
| `lifecycle_refinement` | `MCBookingLifecycle.cfg` | pass | `LifecycleSpec`: every behaviour of the handlers, mapped to statuses and slots, is a behaviour of `Lifecycle` |
| `mail_after_abort` | `MCBookingMail.cfg` | violation of `AbortedRequestsSendNothing` | An accepted booking is modified onto a pending booking's date, and the conflict loop rejects the pending occurrence, queuing its mail. Once the old cancelled state is copied back onto the regenerated occurrences, or a date is skipped, the modified booking has no valid occurrence, and `modify` raises (reservations.py:662). The Modify handler catches the error, aborts and returns normally, so `_process_success` sends the rejection mail for a rejection that was rolled back |
| `accept_pending_collision` | `MCBookingAccept.cfg` | violation of `NoUnhandledError` | An admin creates two pending bookings of one slot and accepts one. `Reservation.accept` calls `occurrence.reject` without the user (reservations.py:408) and the request fails |
| `simple_booking_permission` | `MCBookingSimple.cfg` | violation of `CreatedWithPermission` | On a non-reservable room the simple booking page creates a pending booking for a user without rights. It never checks `can_be_prebooked`, and an explicit `prebook` skips the check in `create_from_data` |
| `modify_stale_rejection` | `MCBookingModify.cfg` | violation of `RejectedOnlyOnCollision` | An admin's accepted daily booking has a cancelled first date, and a pending booking sits on that date. Modify regenerates the occurrences, and the conflict loop rejects the pending booking. Then the old cancelled state is copied back (reservations.py:643-652). The pending booking stays rejected for a collision that is gone |
| `rooms_catalogue` | `MCRooms.cfg` | pass | `PublicSearchBookable`: under every sequence of attribute writes, every active room a public-rooms search lists, under any other filters, may be pre-booked by every user |
| `preview_predicts` | `MCPreview.cfg` | pass | `PreviewPredictsCreation`: on the dates the preview and the booking share, a previewed confirmed conflict means the new occurrence is cancelled, no conflict on an unskipped date means it stays valid, and the pre-conflicts of an accepted booking are rejected. `CandidatesWithinWindow`: step 1 fetches every valid occurrence colliding with each flexible-day candidate it offers |
| `preview_series_mismatch` | `MCPreviewMatch.cfg` | violation of `PreviewMatchesBooking` | `_get_all_conflicts` builds its series from `(repeat_interval, repeat_interval)` (line 280). A weekly candidate of step 1, picked at step 2, is previewed on the confirm page as daily, with conflicts on dates it never occupies |
| `search_partial_blocking` | `MCPreviewSearch.cfg` | violation of `AvailableMeansBookable` | `filter_available` counts a blocking only when it spans the whole period (rooms.py:483). A room blocked on one date of a daily booking is listed available, and a plain user's booking loses that date |
| `txn_read_committed` | `MCBookingTxnRC.cfg` | violation of `ConfirmedExclusive` | With read-committed commits, two owners booking one slot concurrently both commit accepted bookings. The code relies entirely on the database isolation level |
| `txn_cancel_race` | `MCBookingTxnCancel.cfg` | violation of `LiveIffValidOccurrence` | The owner books dates 1 and 2 daily, then two requests cancel one date each. Each sees the other date still valid, so neither cancels the booking (controllers/user/reservations.py:129). Both commit, and the booking stays live with no valid occurrence |

Each property of a passing run has a mutant: a plausible bug in the mapped code, defined next to it, that TLC must catch.

| Property | Mutant |
|---|---|
| `TypeOK` | `end_dt` missing from the fields `modify` populates (`ModifyDataKeepEnd`) |
| `ConfirmedExclusive` | no rejection of pending collisions (`ResolveConflictsNoReject`) |
| `LiveIffValidOccurrence` | no "no valid occurrences" check (`UnlessEmptyUnchecked`) |
| `SeriesMatchesPattern` | `modify` without regenerating the occurrences (`ModifyDataNoRegenerate`) |
| `NoResurrection` | `modify` without copying the old state (`ModifyDataNoCopy`) |
| `CreatedWithPermission` | both buttons kept whenever the user may pre-book (`PrebookChoicesAnyButton`) |
| `PublicSearchBookable` | the search trusting the SQL `is_reservable` filter, without the Python `is_public` filter (`FindWithFiltersNoPublic`) |
| `PreviewPredictsCreation` | no rejection of pending collisions (`ResolveConflictsNoReject`) |
| `CandidatesWithinWindow` | the window not widened at its end (`GetAllOccurrencesNoFlexEnd`) |
| `MailsAnnounceCommits` | a modify that changes nothing still notifies (`ModifyBookingNotifyUnchanged`) |
| `LifecycleSpec` | any owner or creator may modify a cancelled or rejected booking (`CanBeModifiedAnyState`), which revives it |

## 5. Bounds and why they are enough

**`MCBooking`.**
- Two reservation ids, two dates and two time spans, `<<0,1>>` and `<<1,2>>`. The spans touch but do not overlap, which exercises the half-open boundary. The same span on the same date is a real collision.
- Three users: an admin, an owner, and a plain user.
- The room needs confirmation. Date 2 is both non-bookable and blocked. Admin and owner override the blocking.

This covers:
- every permission branch;
- accepted and pending bookings colliding on some dates and not others;
- DAY series losing one date to a non-bookable or blocked date;
- modify moving a booking onto or off a collision.

The reservations are symmetric model values. Three reservations or three dates did not finish within ten minutes.

The room checks are bounded so that they bite:
- `MaxAdvanceDays = 2` with today = 0 refuses a plain user's booking ending on day 2;
- the bookable hours admit only `<<0,1>>`.

**`MCRooms`.**
- Four rooms. In location `l1`, which supports both attributes: `r1`, moderated (needs confirmation), and `r2`, basic. In location `l2`, which supports only `manager-group`: `r3`, active but not reservable, and `r4`, inactive. Writing a booking group to `r3` or `r4` raises `ValueError`.
- An RB admin, the owner of every room, and two other users. Group `g1` holds one of them and `g2` both, so a user may be in the manager group, the booking group, both or neither.
- The search forms all ask for public rooms. Every other filter is on or off, with capacity 0 or 10 (`r1` fits the 120% bound and `r2` does not), equipment none or `e1`, and availability any or free, with `r3` booked. The details text is `t1`, which a column of `r2` contains, or `g1`, which matches a room whose attribute holds `g1`.
- Every reachable combination of attribute values, 1458 states.

**`MCPreview`.**
- Two months of four days each. A weekly series of 8 days has two dates, and a monthly one differs from both.
- Four repetitions: NEVER, DAY, WEEK and MONTH.
- One span, so every same-date occurrence collides.
- Date 3 is non-bookable. An accepted blocking covers days 5-6 and a pending one covers day 2.
- An admin (RB admin and server admin), an owner and a plain user.
- Flexible days 0 and 1, and today = 2. A candidate shifted to day 1 is dropped for a non-admin and kept for the server admin, and a candidate shifted past the end needs the widened window.

**`MCBookingTxn`.**
- Two workers, and `MaxRetries = 2`: one retry, the least that shows a retried attempt and the end of the loop.
- `txn_cancel_race` uses `MCTxnCancelRequests`: the owner books r1 daily on dates 1-2 and cancels either date. This is the least request set in which two cancellations race.
- `txn_read_committed` uses `MCTxnMixedRequests`, the same kinds on either reservation id, and owner cancellations of either day, with symmetry. Two concurrent owner bookings of one slot break exclusivity without validation.

**`MCBookingLifecycle`.**
- The constants of `MCBooking`, restricted to an owner and a plain user with no admin and no non-bookable date.
- Evaluating the refinement mapping on every step of the full `MCBooking` instance takes more than three minutes. The owner keeps every branch the refinement is about: accepted bookings that reject pending ones, modify, and cancellation.
- Without a non-bookable date the owner can modify onto date 2, which is what the `CanBeModifiedAnyState` mutant needs to revive a booking.

## 6. Fairness

No run assumes fairness or checks liveness. The one candidate, that every request a worker takes ends, holds by the shape of `RH.process`: `transaction.attempts(max_retries)` is a bounded loop, and a retry whose booking is gone ends at once. Deadlock is checked in every run: a refused request is always possible, so the models never stop.

## 7. Not modelled

- **Notification contents.** The `notify_*` functions are outside `src/`. Only which notifications a request sends is modelled.
- **Calendar views, the booking search and the room list.** `RHRoomBookingCalendar` and the booking search pages only display what `ReservationOccurrence.find_with_filters` or `find_all` returns, and that query is not under `src/`. They write nothing and have no property beyond the preview's. Step 1 of the new booking page is modelled for one room.
- **The room cache (`@cached(_cache)` on `is_owned_by`, `is_public`, `has_booking_groups` and `get_attribute_value`).** `cached` and `versioned_cache` live in `rb/models/utils.py`, which is not in the repository. Their invalidation after `set_attribute_value` cannot be modelled faithfully. `Rooms` reads the attribute rows afresh, and `Booking` keeps owners constant.
- **The room columns and the search's details text and order.** Room edits are outside these sources, so the columns are constants. The `ILIKE` match of the details text against nine columns is abstracted to a set of matching rooms per text (`ColumnHits`), and the ordering by capacity is dropped, since no property is about order. `rb_check_user_access` admits everyone in this configuration.
- **The advance-days boundary (rooms.py:684).** `advance_days < max_advance_days` refuses a booking exactly `max_advance_days` ahead, while the error message speaks of "more than" that many days. `MCBooking` puts a plain user's booking at the limit (`MaxAdvanceDays = 2`, a booking ending on day 2), so the refusal happens in `serial_booking`. A property stating the message's reading would need a violation run of its own.
- **Creating blockings and non-bookable periods.** This is outside these sources; both are constant sets here.
- **Routing, decorators, profiling, and the redis pipeline of `RH.process`.** They have no booking state.
- **Forced conflicts and ZODB `POSKeyError`.** `getForceConflicts` is a debugging setting that raises `ConflictError` on the first attempts, and the booking tables live in the SQL database, not in ZODB. Under read committed, a commit of the booking tables does not fail for a concurrent write, so no commit failure is modelled.
- **A stricter isolation level.** The source sets none. Modelling serializable commits would need the database's read sets; aborting every commit whose snapshot is stale would make every behaviour a serial one by construction, so such a run would show nothing about the handlers.
- **The docstrings of `can_be_booked` and `can_be_prebooked` (rooms.py:622-625, 632-635).** They say a reservable room may be (pre-)booked by anyone. `_can_be_booked` refuses a user outside the room's allowed booking group, and `kind` labels such a room private, so the code is consistent with itself and the docstrings are stale. No run states the docstrings' reading.
- **The date series.** `create_series` is not under `src/`, so `Series` is written from the spec. It is not compared with a second definition of the same spec, which would check nothing in the code.
