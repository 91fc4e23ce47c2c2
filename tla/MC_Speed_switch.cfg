CONSTANTS
    CardFD <- Multiflex
    ReaderFD <- Dumbmouse
    Accepted = {9600, 19200, 38400, 57600, 115200, 230400}
    Protocols = {"T0", "T1"}
    WIs = {10, 40}
    T0err = FALSE
SPECIFICATION Spec
INVARIANTS SpeedsAgree WaitsLongEnough NeverHalfWay
