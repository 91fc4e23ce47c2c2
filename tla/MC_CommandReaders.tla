------------------------- MODULE MC_CommandReaders -------------------------
(***************************************************************************)
(* All six readers.  The lengths are those at the edges: of the short form *)
(* of the ACR20 (commands of 254 bytes and around), of the buffers of the  *)
(* GCR400 and the GPR400, and of a byte.                                   *)
(***************************************************************************)
EXTENDS CommandReaders

McReaders == Serial \cup {"gpr400", "bluedot"}
McShapes ==
  [cse : {1}, cla : {0}, lc : {0}, le : {-1}]
  \cup [cse : {2}, cla : {0}, lc : {0}, le : {0, 252, 253, 255}]
  \cup [cse : {3}, cla : {0, 160}, lc : {1, 248, 249, 255}, le : {-1}]
  \cup [cse : {4}, cla : {160}, lc : {1, 248, 249}, le : {0, 16}]
=============================================================================
