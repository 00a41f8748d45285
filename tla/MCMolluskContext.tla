-------------------------- MODULE MCMolluskContext --------------------------
(***************************************************************************)
(* Small instances of MolluskContext: one data account, two programs of    *)
(* which one is added later, a clock, three slots.                         *)
(***************************************************************************)
EXTENDS MolluskContext

CONSTANTS a, p, q, native, v2, v3, ixs_id, clock_id, sysvar, system,
          no_data, stub, x, y

MCKey == {a, p, q, native, v2, v3, ixs_id, clock_id, sysvar, system}
MCInitialCache == [prog \in {p} |-> v2]
MCAdditions == {<<p, v3>>, <<q, v3>>}
Data(d) == [owner |-> p, data |-> d]
MCWritten == {Data(y)}

Ix(program, ro, rw) == [program |-> program, ro |-> ro, rw |-> rw]
ReadClock == Ix(p, {clock_id}, {a})
ReadIxs == Ix(q, {ixs_id, a}, {})
Names == Ix(p, {q}, {a})

MC(api, ixs, strict) == [api |-> api, ixs |-> ixs, strict |-> strict]
MCCalls ==
  { MC("instruction", <<ReadClock>>, TRUE),
    MC("chain", <<Names, ReadIxs>>, FALSE),
    MC("transaction", <<ReadIxs, ReadClock>>, FALSE) }

Store(k, account) == [l \in {k} |-> account]
Clock0 == [owner |-> sysvar, data |-> [slot |-> 0]]
MCStores == { Store(a, Data(x)), Store(p, [owner |-> system, data |-> no_data]) }
MCUserWrites ==
  { <<a, Data(x)>>, <<clock_id, Clock0>>,
    <<ixs_id, [owner |-> sysvar, data |-> [ixs |-> <<>>, index |-> 0]]>> }
=============================================================================
