SPECIFICATION Spec
CONSTANTS
    s1 = s1
    s2 = s2
    m1 = m1
    m2 = m2
    c1 = c1
    None = None
    Automatic = Automatic
    Legacy = Legacy
    Sinks = {s1, s2}
    Modes = {m1, m2}
    Films = {f1}
    Cadences = {c1}
    TrialIds = {t1, t2}
    Offers <- MCOffers
    Preferred <- MCPreferred
    Fit <- MCFit
    Migrated <- MCMigrated
INVARIANTS
    TypeOK
    TrialJournalled
    TrialTimed
    OneClaimOnTheWire
    PlanOfTheSink
    TrialBound
PROPERTY
    KeepsItsPromise
SYMMETRY TrialSymmetry
