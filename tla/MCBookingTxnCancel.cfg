CONSTANTS
    r1 = r1  r2 = r2
    admin = admin  owner = owner  plain = plain
    p1 = p1  p2 = p2
    Res <- MCRes
    MonthLengths <- MCMonthLengths
    Repetitions <- MCRepetitions
    Today = 0
    MaxAdvanceDays = 0
    BookableHours <- MCBookableHours
    Spans <- MCSpans
    Users <- MCUsers
    Admins <- MCAdmins
    Owners <- MCOwners
    BlockingOverriders <- MCOverriders
    Procs <- MCProcs
    TxnRequests <- MCTxnCancelRequests
    IsActive = TRUE
    IsReservable = TRUE
    NeedsConfirmation = TRUE
    NonBookableDates = {}
    BlockedDates = {}
    MaxRetries = 2
SPECIFICATION TxnSpec
INVARIANT LiveIffValidOccurrence
