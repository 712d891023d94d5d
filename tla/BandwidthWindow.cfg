SPECIFICATION FairSpec
CONSTANTS
    hourly = hourly  daily = daily  monthly = monthly
    Recorders = {r1}
    Cleaner = cleaner
    Sizes = {1, 2}
    Windows <- AllWindows
    Length <- WindowLength
    Quota <- WindowQuota
    Retention = 2
    MaxHour = 3
    MaxBytes = 4
    MaxResets = 1
PROPERTY WindowResetResumes
