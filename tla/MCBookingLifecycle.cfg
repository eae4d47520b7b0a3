CONSTANTS
    r1 = r1  r2 = r2
    admin = admin  owner = owner  plain = plain
    Res <- MCRes
    MonthLengths <- MCMonthLengths
    Repetitions <- MCRepetitions
    Today = 0
    MaxAdvanceDays = 2
    BookableHours <- MCBookableHours
    Spans <- MCSpans
    Users <- MCLifecycleUsers
    Admins <- MCNoAdmins
    Owners <- MCOwners
    BlockingOverriders <- MCLifecycleOverriders
    IsActive = TRUE
    IsReservable = TRUE
    NeedsConfirmation = TRUE
    NonBookableDates = {}
    BlockedDates = {2}
SYMMETRY MCSymmetry
VIEW MCView
SPECIFICATION Spec
PROPERTY LifecycleSpec
