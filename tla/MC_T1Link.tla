------------------------------- MODULE MC_T1Link -------------------------------
EXTENDS T1Link

MCByte == Int \X Nat
OneCommand == <<4>>
TwoCommands == <<3, 2>>
===============================================================================
