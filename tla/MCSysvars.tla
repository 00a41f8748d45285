----------------------------- MODULE MCSysvars -----------------------------
(***************************************************************************)
(* Small instances of Sysvars for TLC: a list of three entries, and slots  *)
(* far enough apart for short warps, for warps of exactly the length of    *)
(* the list and for longer ones.                                           *)
(***************************************************************************)
EXTENDS Sysvars

CONSTANTS hash0, hash1

MCTargets == 0..12
List(slots) == [i \in DOMAIN slots |-> [slot |-> slots[i], hash |-> hash1]]
MCUserLists == {<<>>, List(<<2>>), List(<<7, 6, 2>>), List(<<5, 1>>)}
=============================================================================
