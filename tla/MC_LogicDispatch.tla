-------------------------- MODULE MC_LogicDispatch --------------------------
(***************************************************************************)
(* Instances of LogicDispatch.  Connections are interchangeable in the     *)
(* runs that check no liveness.                                            *)
(***************************************************************************)
EXTENDS LogicDispatch, TLC

Symmetry == Permutations(Conns)
=============================================================================
