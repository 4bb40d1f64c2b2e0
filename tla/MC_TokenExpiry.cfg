CONSTANTS
    FortyYearsMs = 40
    MsPerSec = 10
    DefaultTtl = 3
    DefaultPetTtl = 1
    Now = {5, 6, 7, 8}

SPECIFICATION Spec

INVARIANT TtlClassifiedAsSpecified
