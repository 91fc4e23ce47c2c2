CONSTANTS
    r1 = r1  r2 = r2  r3 = r3
    b1 = b1  kaan = kaan  ctapi = ctapi  towitoko = towitoko
    Readers = {r1, r2, r3}
    LibName <- FirstFour
    CtapiLib = ctapi
    Installed = {kaan, ctapi, towitoko}
    Exports <- KaanPartly
    NoLib = NoLib
    CtnMod = 8
    MaxInits = 4
    MaxFailures = 0
SYMMETRY ReaderSymmetry
SPECIFICATION Spec
INVARIANT UnloadedOnlyAtZero
CHECK_DEADLOCK FALSE
