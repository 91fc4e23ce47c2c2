-------------------------------- MODULE Gsm ---------------------------------
(***************************************************************************)
(* scgsmsim.c: the SIM cards of GSM 11.11 and 11.14.  One definition per   *)
(* driver function that sends a command.                                   *)
(***************************************************************************)
EXTENDS Apdu

CONSTANTS Lens,     \* lengths a caller may give as an int
          Sw2s      \* values ci->sw[1] may have

Bytes == Lens \cap 0..255

Select        == Fixed(4, 2, 8, Data)
Status_       == Fixed(2, 0, 5, Data)
ReadBin(n)    == Read(n)
UpdateBin(n)  == Write(n, NoData)
ReadRec(n)    == Read(n)
UpdateRec(n)  == Write(n, NoData)
\* The fifth byte stays 0 whatever the length of the pattern, and there is no
\* Le; the answer is used if it is one byte and ignored else.
Seek(n)       == Cmd(TRUE, 4, 0, 5 + n, 261, Answer("lone", 1))
Increase      == Fixed(4, 3, 8, Data)
VerifyCHV     == Fixed(3, 8, 13, NoData)
ChangeCHV     == Fixed(3, 16, 21, NoData)
DisableCHV    == Fixed(3, 8, 13, NoData)
EnableCHV     == Fixed(3, 8, 13, NoData)
UnblockCHV    == Fixed(3, 16, 21, NoData)
Invalidate    == Fixed(1, 0, 4, NoData)
Rehabilitate  == Fixed(1, 0, 4, NoData)
RunGsmAlgo    == Fixed(4, 16, 21, Either(12))
Sleep         == Fixed(1, 0, 4, NoData)
GetResp(sw2)  == Follow(Fixed(2, sw2, 5, Data))
TermProf(n)   == Write(n, NoData)
\* The fifth byte stays 0, as in Seek.
Envelope(n)   == Cmd(TRUE, 4, 0, 5 + n, 261, Data)
Fetch(sw2)    == Follow(Fixed(2, sw2, 5, Data))
TermResp(n)   == Write(n, NoData)

Commands ==
  {Select, Status_, Increase, VerifyCHV, ChangeCHV, DisableCHV, EnableCHV, UnblockCHV,
   Invalidate, Rehabilitate, RunGsmAlgo, Sleep}
    \cup (UNION {{ReadBin(n), ReadRec(n)} : n \in Lens})
    \cup (UNION {{UpdateBin(n), UpdateRec(n), Seek(n), TermProf(n), Envelope(n), TermResp(n)} :
                   n \in Bytes})
    \cup (UNION {{GetResp(s), Fetch(s)} : s \in Sw2s})
=============================================================================
