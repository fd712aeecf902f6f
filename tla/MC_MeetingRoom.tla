--------------------------- MODULE MC_MeetingRoom ---------------------------
(***************************************************************************)
(* Instances of MeetingRoom: ann has two connections, of one device or of  *)
(* two, bob (in the instances with two users) has one and is the creator.  *)
(***************************************************************************)
EXTENDS MeetingRoom, TLC

CONSTANTS ann, bob, a1, a2, b1, m1, m2

MCOwner == [s \in Sessions |-> IF s = b1 THEN bob ELSE ann]
MCToken == [s \in Sessions |-> IF s = b1 THEN "bob" ELSE "ann"]
MCTwoDevices == [s \in Sessions |-> s]
(* With one user and one device the two connections, and the two meetings, *)
(* are alike.                                                              *)
Symmetry == Permutations({a1, a2}) \cup Permutations({m1, m2})

MCHost == [m \in Meetings |-> IF bob \in Users THEN bob ELSE ann]
=============================================================================
