CONSTANTS
    r1 = r1  r2 = r2
    admin = admin  owner = owner  plain = plain
    Res <- MCRes
    MonthLengths <- MCMonthLengths
    Repetitions <- MCRepetitions
    Today = 0
    MaxAdvanceDays = 2
    BookableHours <- MCBookableHours
    Spans <- MCSpans
    Users <- MCUsers
    Admins <- MCAdmins
    Owners <- MCOwners
    BlockingOverriders <- MCOverriders
    IsActive = TRUE
    IsReservable = TRUE
    NeedsConfirmation = TRUE
    NonBookableDates = {2}
    BlockedDates = {2}
SYMMETRY MCSymmetry
SPECIFICATION Spec
PROPERTY AbortedRequestsSendNothing
