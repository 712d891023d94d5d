SPECIFICATION FairSpec
CONSTANTS
    hourly = hourly  daily = daily  monthly = monthly
    Recorders = {r1, r2}
    Cleaner = cleaner
    Sizes = {1, 2}
    Windows <- AllWindows
    Length <- WindowLength
    Quota <- WindowQuota
    Retention = 2
    MaxHour = 2
    MaxBytes = 3
    MaxResets = 1
INVARIANT TypeOK
INVARIANT OverQuotaIsSuspended
INVARIANT SuspensionJustified
PROPERTY BytesAreKept
PROPERTY OverQuotaSuspends
