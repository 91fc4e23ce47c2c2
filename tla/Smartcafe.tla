----------------------------- MODULE Smartcafe ------------------------------
(***************************************************************************)
(* scsmartcafe.c: the Smart Cafe Java cards.  One definition per driver    *)
(* function that sends a command.  ClearMem and DeleteML leave ci->sw as   *)
(* it is when the exchange fails.                                          *)
(***************************************************************************)
EXTENDS Apdu

CONSTANTS Lens,     \* lengths a caller may give as an int
          Sw2s      \* values ci->sw[1] may have

Bytes == Lens \cap 0..255

GetResp(sw2)    == Follow(Fixed(2, sw2, 5, Data))
ClearMem        == KeepsSw(Fixed(1, 0, 4, NoData))
CreateML(start) == IF start THEN Cmd(TRUE, 3, 11, 16, 16, NoData)
                            ELSE Cmd(TRUE, 1, 0, 4, 16, NoData)
DeleteML        == KeepsSw(Fixed(1, 0, 4, NoData))
GetData         == Fixed(2, 0, 5, Data)
\* aid and param are counted in one byte with their own lengths; each is
\* limited, their sum is not.
Install(kind, aid, param) ==
  LET lc == CASE kind = "load"    -> aid + 3
              [] kind = "install" -> aid + param + 3
              [] kind = "heap"    -> aid + param + 5
              [] OTHER            -> 0
  IN  Cmd(kind # "other" /\ aid <= 16 /\ (kind # "load" => param <= 240), 3, Byte(lc), 5 + lc, 261, NoData)
LoadApplet(n)   == Write(n, NoData)
PutKey(n)       == Cmd(n \in {8, 16}, 3, n, 5 + n, 21, NoData)
Select(n)       == Cmd(n <= 16, 4, n, 6 + n, 22, Data)
SetPIN(n)       == Cmd(n <= 8, 3, n, 5 + n, 13, NoData)
VerifyPIN(n)    == Cmd(n <= 8, 3, n, 5 + n, 13, NoData)

Commands ==
  {ClearMem, DeleteML, GetData, CreateML(TRUE), CreateML(FALSE)}
    \cup {Install(k, a, n) : k \in {"load", "install", "heap", "other"}, a \in Bytes, n \in Bytes}
    \cup (UNION {{LoadApplet(n), PutKey(n), Select(n), SetPIN(n), VerifyPIN(n)} : n \in Bytes})
    \cup {GetResp(s) : s \in Sw2s}
=============================================================================
