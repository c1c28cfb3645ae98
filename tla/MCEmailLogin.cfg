\* Codes and sessions of one address, requests of two tabs overlapping.
SPECIFICATION Spec
CONSTANTS
    Emails = {a}
    DevEmail = dev
    AutoLogin = TRUE
    Tabs = {t1, t2}
    Browsers = {w}
    BrowserOf <- OneBrowser
    CodeTtl = 2
    Resend = 1
    MaxAttempts = 2
    SessionTtl = 1
    MaxCodes = 2
    MaxSessions = 2
    MaxClock = 3
SYMMETRY TabSymmetry
CHECK_DEADLOCK FALSE
INVARIANTS
    TypeOK
    SpentCode
    OneLoginPerCode
    PendingIsNewest
    GuessesCounted
    UndeliveredWithdrawn
    CookieIsLive
