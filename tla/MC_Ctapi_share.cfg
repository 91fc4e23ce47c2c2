CONSTANTS
    r1 = r1  r2 = r2  r3 = r3
    b1 = b1  kaan = kaan  ctapi = ctapi  towitoko = towitoko
    Readers = {r1, r2, r3}
    LibName <- FirstFour
    CtapiLib = ctapi
    Installed = {kaan, ctapi, towitoko}
    Exports <- AnyExports
    NoLib = NoLib
    CtnMod = 8
    MaxInits = 6
    MaxFailures = 2
SYMMETRY ReaderSymmetry
SPECIFICATION Spec
INVARIANTS OpenReadersServed CounterCoversReaders UnloadedWithLastReader OnlyDetectUnloadsCounted
CHECK_DEADLOCK FALSE
