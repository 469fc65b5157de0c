CONSTANTS
    good = good
    latched = latched
    vacuous = vacuous
    NoRtl = NoRtl
    Rtl <- MCRtl
    Latched <- MCLatched
    Vacuous <- MCVacuous
    Configs <- MCConfigs
    MaxPasses = 3

SPECIFICATION Spec

INVARIANT NeverVacuous

CHECK_DEADLOCK FALSE
