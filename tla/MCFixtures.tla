----------------------------- MODULE MCFixtures -----------------------------
(***************************************************************************)
(* Small instances of Fixtures: two accounts, a program and its address    *)
(* among the accounts, chains of two, and states of the harness that       *)
(* differ in everything.                                                   *)
(***************************************************************************)
EXTENDS Fixtures

CONSTANTS a, b, prog, sysvar, feature, test_feature, low, high, maximum,
          funds, custom, invalid, borrow

MCKeyOrder == <<a, b, prog, sysvar>>

State(limit, costs, features, clock, restart, stake) ==
  [limit |-> limit, costs |-> costs, features |-> features, clock |-> clock,
   restart |-> restart, stake |-> stake, slot |-> 0]
MCHarness ==
  { State(1, low, {feature}, 0, 0, 0),
    State(2, high, {test_feature}, 1, 1, 1) }

Mention(k, s, w) == [key |-> k, signer |-> s, writable |-> w]
Move(from, to, extra, read, outcome) ==
  [program |-> prog, reads |-> read, fails |-> outcome,
   metas |-> <<Mention(from, TRUE, TRUE), Mention(to, FALSE, TRUE)>> \o extra]
Holding(k, n) == [key |-> k, lamports |-> n]
Plain(from, to, read) == Move(from, to, <<>>, read, Success)
Both == <<Holding(a, 1), Holding(b, 1)>>

MCCalls ==
  { [instructions |-> <<Plain(a, b, read)>>, accounts |-> Both] :
      read \in {"limit", "costs", "features", "clock", "stake"} }
  \cup
  { [instructions |-> <<Plain(b, a, "index"), Plain(a, b, "index")>>, accounts |-> Both],
    [instructions |-> <<Plain(a, b, "clock"), Plain(a, b, "features")>>, accounts |-> Both],
    [instructions |-> <<Plain(a, b, "nothing"), Move(b, a, <<>>, "nothing", borrow)>>,
     accounts |-> <<Holding(b, 1), Holding(prog, 0), Holding(a, 1)>>],
    [instructions |-> <<Move(a, b, <<>>, "costs", custom), Plain(a, b, "nothing")>>,
     accounts |-> <<Holding(a, 0), Holding(b, 0), Holding(a, 1)>>],
    [instructions |-> <<Move(a, b, <<>>, "restart", invalid)>>, accounts |-> Both],
    [instructions |-> <<Move(a, b, <<Mention(prog, FALSE, FALSE)>>, "nothing", Success)>>,
     accounts |-> Both],
    [instructions |->
       <<[Plain(a, b, "nothing") EXCEPT
            !.metas = <<Mention(a, FALSE, FALSE), Mention(b, FALSE, TRUE), Mention(a, TRUE, TRUE)>>]>>,
     accounts |-> Both],
    [instructions |-> <<Plain(a, b, "nothing"), Plain(b, a, "nothing")>>,
     accounts |-> Both \o <<Holding(sysvar, 0), Holding(sysvar, 1)>>],
    [instructions |-> <<Plain(a, b, "clock")>>, accounts |-> <<Holding(a, 1)>>] }
=============================================================================
