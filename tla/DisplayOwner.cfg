\* The kernel takes every mode, or refuses the second and a trial's journal may
\* not be written.
SPECIFICATION FairOwnerSpec
CONSTANTS
    s1 = s1
    m1 = m1
    m2 = m2
    c1 = c1
    None = None
    Automatic = Automatic
    Legacy = Legacy
    Sinks = {s1}
    Modes = {m1, m2}
    Films = {f1}
    Cadences = {c1}
    TrialIds = {t1, t2}
    Offers <- MCOffers
    Preferred <- MCPreferred
    Fit <- MCFit
    Migrated <- MCMigrated
    Display = s1
    Asked = {m2}
    Refused = {m2}
    MaxRequests = 2
CHECK_DEADLOCK FALSE
INVARIANTS
    OwnerTypeOK
    AppliedWasShown
    RefusedNeverKept
PROPERTY
    Settles
