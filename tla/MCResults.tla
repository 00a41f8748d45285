----------------------------- MODULE MCResults -----------------------------
(***************************************************************************)
(* Small instances of Results: results of an instruction and of            *)
(* transactions over two addresses, and lists of checks and comparisons    *)
(* that fail nowhere, at once, late, or more than once.                    *)
(***************************************************************************)
EXTENDS Results

CONSTANTS a, b, system, prog, success, failure

Units == [type |-> "units", units |-> 0]
Time == [type |-> "time", time |-> 0]
Success == [type |-> "outcome", outcome |-> success]
Returned == [type |-> "returned", returned |-> <<0>>]
Inner == [type |-> "inner", inner |-> 1]
AllExempt == [type |-> "all_rent_exempt"]

Acc(o, l, d) ==
  [data |-> d, lamports |-> l, owner |-> o, executable |-> FALSE, rent_epoch |-> 0]
At(k, acc) == [key |-> k, account |-> acc]
Funded == Acc(prog, 3, <<0, 1>>)
Poor == Acc(prog, 2, <<0, 1>>)
Closed == Acc(system, 0, <<>>)
AlmostClosed == [Closed EXCEPT !.rent_epoch = 1]

Res(u, o, accs, i) ==
  [units |-> u, time |-> u, outcome |-> o, returned |-> <<u>>, inner |-> i,
   accounts |-> accs]
MCResultSet ==
  { Res(0, success, <<At(a, Funded), At(b, Closed)>>, <<1>>),
    Res(0, success, <<At(a, Funded), At(b, Poor)>>, <<0>>),
    Res(1, success, <<At(a, Poor), At(b, Closed)>>, <<1>>),
    Res(0, success, <<At(a, Funded), At(b, AlmostClosed)>>, <<1>>),
    Res(0, failure, <<At(a, Funded)>>, <<0>>),
    Res(0, success, <<At(b, Closed), At(a, Funded)>>, <<>>),
    Res(0, success, <<At(a, Poor), At(a, Funded)>>, <<1, 1>>) }

On(k, reqs) == [type |-> "account", key |-> k, requires |-> reqs]
IsFunded ==
  On(a, [data |-> <<0, 1>>, lamports |-> 3, owner |-> prog, executable |-> FALSE])
IsClosed == On(b, [state |-> "closed"])
IsExempt == On(b, [state |-> "rent_exempt", space |-> 0])
SecondByte == On(a, [slice |-> [offset |-> 1, bytes |-> <<1>>]])
OneByte == On(b, [owner |-> prog, slice |-> [offset |-> 0, bytes |-> <<0>>]])

MCCheckLists ==
  { <<>>, <<Units, Success, Returned>>, <<AllExempt, Inner>>, <<OneByte, Units>>,
    <<IsClosed, IsFunded>>, <<SecondByte, IsExempt, Time>>, <<Inner>> }

Among(t, ks, fs) == [type |-> t, keys |-> ks, fields |-> fs]
Fields(t, fs) == [type |-> t, fields |-> fs]
MCCompareLists ==
  { <<>>, <<[type |-> "units"], [type |-> "time"]>>,
    <<Fields("all", {"owner", "space"}), [type |-> "returned"]>>,
    <<Among("only", {b}, {"lamports"}), Among("except", {b}, {"lamports"})>>,
    <<Among("except", {a}, AccountField), [type |-> "outcome"]>>,
    <<Among("only", {a, b}, {"data", "executable"}), Fields("all", AccountField)>> }
=============================================================================
