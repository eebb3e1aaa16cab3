\* Two dispatchers start one ticket while a third session claims and releases it, by force.
SPECIFICATION MixedSpec
CONSTANTS
    Session = {d1, d2, s3}
    Outsider = {s3}
    Actor = {d1, d2, s3}
    Name <- OwnName
    Nobody = Nobody
    Forcing = {s3}
    MaxClaims = 2
    MaxFaults = 1
INVARIANTS CreatedOnce NoStrandedClaim
PROPERTIES SettledClaimsHold EveryStartEnds
CHECK_DEADLOCK FALSE
