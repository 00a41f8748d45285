---------------------------- MODULE MCEnvironment ----------------------------
(***************************************************************************)
(* A small instance of Environment for TLC: the upgradeable loader and two *)
(* programs, two ELFs, one gated and one custom syscall, u64s of three     *)
(* bits.                                                                   *)
(***************************************************************************)
EXTENDS Environment

CONSTANTS p, q, native, v2, v3, e1, e2, gated, custom

MCProgram == {v3, p, q}
MCLoader == {native, v2, v3}
MCAdditions == {<<p, v3, e1>>, <<p, v2, e2>>, <<q, v3, e1>>}
MCFeatureSets == {{}, {gated}}
MCDeployments == {<<p, e2>>, <<p, NoElf>>}

Ix(program, callee, given) == [program |-> program, callee |-> callee, given |-> given]
MCMessages ==
  { <<Ix(p, q, FALSE)>>,
    <<Ix(v3, Missing, FALSE), Ix(p, Missing, TRUE)>>,
    <<Ix(q, v3, FALSE)>> }
=============================================================================
