CONSTANTS
    good = good
    latched = latched
    vacuous = vacuous
    NoRtl = NoRtl
    Rtl <- MCRtl
    Latched <- MCLatched
    Vacuous <- MCVacuous
    Configs <- MCConfigs
    MaxPasses = 3

SPECIFICATION Spec

INVARIANT MockNeverVerified

CHECK_DEADLOCK FALSE
