CONSTANTS
    s1 = s1  s2 = s2
    admin = admin  owner = owner  plain = plain
    Res <- MCRes
    MonthLengths <- MCMonthLengths
    Repetitions <- MCRepetitions
    Today = 2
    MaxAdvanceDays = 0
    BookableHours = {}
    Spans <- MCSpans
    Users <- MCUsers
    Admins <- MCAdmins
    Owners <- MCOwners
    BlockingOverriders <- MCOverriders
    IsActive = TRUE
    IsReservable = TRUE
    NeedsConfirmation = TRUE
    NonBookableDates = {}
    Blockings <- MCBlockings
    ServerAdmins <- MCAdmins
    FlexibleDays = {0, 1}
    BlockedDates <- MCBlockedDates
SPECIFICATION PreviewSpec
INVARIANT AvailableMeansBookable
