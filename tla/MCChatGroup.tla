---------------------------- MODULE MCChatGroup ----------------------------
(* ChatGroup for TLC: the devices are interchangeable.                      *)
EXTENDS ChatGroup, TLC

Symmetry == Permutations(Devices)
=============================================================================
