----------------------------- MODULE MCStigmergy -----------------------------
(* Instances of Stigmergy for TLC. *)
EXTENDS Stigmergy, TLC

RobotSymmetry == Permutations(Robot)
==============================================================================
