------------------------- MODULE MC_RoomThreadPool -------------------------
(***************************************************************************)
(* Instance of RoomThreadPool: three meetings on two workers, two of them  *)
(* sharing a worker.                                                       *)
(***************************************************************************)
EXTENDS RoomThreadPool

MCRooms == {1, 2, 3}

(* libstdc++ hashes an integer to itself.                                  *)
MCHash == [r \in MCRooms |-> r]
=============================================================================
