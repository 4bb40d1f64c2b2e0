CONSTANTS
    pet = pet
    gs = gs
    hb = hb
    Services <- MCServices
    PetService = pet
    HbService = hb
    CorrectPassword = CorrectPassword
    WrongPassword = WrongPassword
    NoPassword = NoPassword
    NoCall = NoCall
    SpdLifetimes = {2}
    SpdExpiries = {60}
    TtlValues = {2}
    RestoredPetTtl = 3
    Start = 5
    MaxTime = 6
    FortyYearsMs = 40
    MsPerSec = 10
    DefaultTtl = 3
    DefaultPetTtl = 1

SPECIFICATION LogoutSpec

INVARIANT LogoutTypeOK

PROPERTY SignoutsInOrder
