----------------------------- MODULE Basiccard ------------------------------
(***************************************************************************)
(* scbasiccard.c: the BasicCards of ZeitControl.  One definition per       *)
(* driver function that sends a command, in its plain form, and what       *)
(* scBasiccardEncrCAPDU makes of it when a session enciphers commands.     *)
(***************************************************************************)
EXTENDS Apdu

CONSTANTS Lens      \* lengths a caller may give as an int

Bytes == Lens \cap 0..255

\* A card of the third enhanced series is refused before ci->sw is cleared.
NotEnh3(enh3, c) == IF enh3 THEN KeepsSw([c EXCEPT !.guard = FALSE]) ELSE c

GetState              == Cmd(TRUE, 2, 3, 5, 15, Answer("state", 3))
EepromSize            == Cmd(TRUE, 2, 4, 5, 15, Data)
ClearEeprom(enh3)     == NotEnh3(enh3, Cmd(TRUE, 3, 2, 7, 17, Status))
WriteEeprom(enh3, n)  == NotEnh3(enh3, Cmd(n <= 255, 3, Byte(n), 5 + n, 262, Status))
ReadEeprom(n)         == Cmd(n <= 256, 2, Byte(n), 5, 15, Data)
EepromCrc             == Cmd(TRUE, 4, 2, 8, 18, Data)
SetState              == Cmd(TRUE, 1, 0, 4, 14, Status)
GetApplId             == Cmd(TRUE, 2, 255, 5, 15, Data)
StartEncr             == Fixed(4, 4, 10, Data)
EndEncr               == Cmd(TRUE, 1, 0, 4, 14, Status)
Echo(n)               == Cmd(n <= 255, 4, n, 6 + n, 262, Data)
AssignNad             == Cmd(TRUE, 1, 0, 4, 14, Status)
FileIo(n, le)         == Cmd(n <= 255 /\ le <= 256, 4, n, 6 + n, 262, Data)

\* The commands between StartEncr and EndEncr
Commands ==
  {GetState, EepromSize, EepromCrc, SetState, GetApplId, AssignNad}
    \cup {ClearEeprom(b) : b \in BOOLEAN}
    \cup {WriteEeprom(b, n) : b \in BOOLEAN, n \in Bytes}
    \cup {ReadEeprom(n) : n \in Lens}
    \cup {Echo(n) : n \in Bytes}
    \cup {FileIo(n, m) : n \in Bytes, m \in Lens}

Algos    == {"LFSR", "LFSR CRC", "DES", "3DES"}
Stream   == {"LFSR", "LFSR CRC"}       \* the others chain blocks
Checked  == Algos \ {"LFSR"}           \* what it deciphers is checked

\* The longest command EncrCAPDU takes
Limit(algo) == IF algo \in Stream THEN 254 + 5 + 1 ELSE 254 + 5 + 1 - 8

\* Bytes added to the data: two random and two of CRC, or zeros for the status
Overhead(algo) == IF algo = "LFSR CRC" THEN 4 ELSE 8

\* The plain LFSR leaves commands without data as they are.
Enciphers(algo, c) == algo \in Checked \/ (c.cse \in {3, 4} /\ c.p3 # 0)

(***************************************************************************)
(* The command after EncrCAPDU.  Lc counts in a byte; cases 1 and 2 get an *)
(* Lc, case 2 and 4 keep their Le at the end, and with the algorithms that *)
(* check all become case 4, for the checksum in the answer.  EndEncr       *)
(* becomes case 3.                                                         *)
(***************************************************************************)
Enciphered(algo, c, end) ==
  LET lc == IF c.cse \in {3, 4} THEN c.p3 ELSE 0
      le == IF c.cse \in {2, 4} THEN 1 ELSE 0
      header == 5 - (IF c.cse = 1 THEN 1 ELSE 0)
      data   == c.cmdlen - header - (IF c.cse = 4 THEN 1 ELSE 0)
  IN  IF algo = "LFSR" THEN c
      ELSE [c EXCEPT !.cse = IF end THEN 3 ELSE 4,
                     !.p3 = Byte(lc + Overhead(algo)),
                     !.cmdlen = 5 + data + Overhead(algo) + le]
=============================================================================
