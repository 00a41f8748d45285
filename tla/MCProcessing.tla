---------------------------- MODULE MCProcessing ----------------------------
(***************************************************************************)
(* Small instances of Processing for TLC: two data accounts, two programs  *)
(* and a precompile, a handful of calls that mix single instructions,      *)
(* chains and transactions, and account lists with and without sysvars,    *)
(* program accounts and duplicated keys.                                   *)
(***************************************************************************)
EXTENDS Processing

CONSTANTS a, b, p, q, precompile, native, v2, v3, ixs_id, clock_id,
          sysvar, system, no_data, x, y

MCKey == {a, b, p, q, precompile, native, v2, v3, ixs_id, clock_id, sysvar, system}
MCProgram == {p, q, precompile}
MCInitialCache == [prog \in {p} |-> v2]
MCAdditions == {<<p, v3>>, <<q, v3>>}

Data(d) == [owner |-> p, data |-> d]
(* Contents changed, the account closed, or given to a loader.              *)
MCWritten ==
  {Data(y), [owner |-> system, data |-> no_data], [owner |-> v2, data |-> x]}

Ix(program, ro, rw) == [program |-> program, ro |-> ro, rw |-> rw]
ReadClock == Ix(p, {clock_id}, {a})       \* p reads the clock, writes a
ReadIxs == Ix(q, {ixs_id, a}, {b})        \* q introspects, writes b
CallsQ == Ix(p, {q, ixs_id}, {a})         \* p has q's account for a CPI
WritesP == Ix(q, {ixs_id}, {p, a})        \* asks for a program as writable
Verify == Ix(precompile, {}, {})
UsesV3 == Ix(p, {v3}, {p, b})             \* names the upgradeable loader

MC(api, ixs, strict) == [api |-> api, ixs |-> ixs, strict |-> strict]
MCCalls ==
  { MC("instruction", <<ReadClock>>, TRUE),
    MC("instruction", <<UsesV3>>, FALSE),
    MC("chain", <<>>, FALSE),
    MC("chain", <<CallsQ, ReadIxs>>, TRUE),
    MC("chain", <<ReadClock, Verify, ReadIxs>>, FALSE),
    MC("transaction", <<>>, FALSE),
    MC("transaction", <<CallsQ, ReadIxs>>, TRUE),
    MC("transaction", <<Verify, WritesP, UsesV3>>, FALSE) }

Entry(k, acc) == [key |-> k, account |-> acc]
ClockAt(s) == Entry(clock_id, [owner |-> sysvar, data |-> [slot |-> s]])
MCAccountLists ==
  { <<Entry(a, Data(x)), Entry(b, Data(x)), ClockAt(1)>>,
    \* duplicates, as hydration of a context produces them
    <<ClockAt(1), Entry(a, Data(x)), ClockAt(0), Entry(b, Data(x)), Entry(a, Data(y))>>,
    \* program accounts and an instructions sysvar of the caller's making
    <<Entry(p, [owner |-> v3, data |-> x]), Entry(a, Data(x)), Entry(b, Data(x)),
      Entry(q, [owner |-> system, data |-> no_data]),
      Entry(ixs_id, [owner |-> system, data |-> no_data])>>,
    \* accounts of a deployed program, and a stale instructions sysvar
    <<Entry(p, [owner |-> v2, data |-> x]), Entry(a, Data(x)), Entry(b, Data(x)),
      Entry(v3, [owner |-> native, data |-> x]), ClockAt(0),
      Entry(ixs_id, [owner |-> sysvar, data |-> [ixs |-> <<ReadIxs>>, index |-> 0]])>>,
    <<Entry(v3, [owner |-> native, data |-> x]), Entry(b, Data(x))>> }
=============================================================================
