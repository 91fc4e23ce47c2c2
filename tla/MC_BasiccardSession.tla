------------------------- MODULE MC_BasiccardSession ------------------------
EXTENDS BasiccardSession
McLens == {0, 1, 247, 252, 255, 256}
McKeys == {"k1", "k2"}
=============================================================================
