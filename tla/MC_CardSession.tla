--------------------------- MODULE MC_CardSession ---------------------------
(* Lengths at every limit a driver function has, and at the wrap of a byte. *)
EXTENDS CardSession

McLens == {-1, 0, 1, 2, 5, 8, 12, 13, 16, 17, 20, 21, 24, 25, 36, 37, 60, 61, 62, 64, 65, 70, 71,
           128, 240, 241, 248, 252, 253, 255, 256}
McSw2s == {0, 16}
McKeys == {"k1", "k2", "k3"}
=============================================================================
