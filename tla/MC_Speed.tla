-------------------------------- MODULE MC_Speed --------------------------------
EXTENDS Speed

Rate(f, d, speed) == [f |-> f, d |-> d, speed |-> speed]

(* scMultiflexGetCap, but for the 3K card; scDumbmouseGetCap on Unix.      *)
Multiflex == <<Default, Rate(372, 2, 19200), Rate(372, 4, 38400),
               Rate(372, 8, 76800), Rate(372, 16, 153600)>>
Dumbmouse == <<Default, Rate(372, 2, 19200), Rate(744, 4, 19200),
               Rate(372, 4, 38400), Rate(744, 8, 38400), Rate(744, 12, 57600)>>
===============================================================================
