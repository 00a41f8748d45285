------------------------------ MODULE MCBencher ------------------------------
(***************************************************************************)
(* A small instance of Bencher for TLC: two programs in two builds; two    *)
(* instructions that call one address, one that calls another and makes a  *)
(* CPI into the first, one that deploys or closes a program, and one       *)
(* without its account; and benches with plain and repeated names, and     *)
(* with names that are not read back as they are.                          *)
(***************************************************************************)
EXTENDS Bencher

CONSTANTS p, q, v1, v2, closed, i1, i2, cpi, deploy, lost,
          n1, n2, padded, barred, inset

MCName == {v1, v2, n1, n2, padded, barred, inset}
MCTrimmed == [n \in MCName |-> CASE n \in {padded, inset} -> n1
                                 [] n = barred -> n2
                                 [] OTHER -> n]
MCInset == [n \in {inset} |-> 1]
MCImage == {v1, v2, closed}
MCTarget == [ix \in {i1, i2, cpi, deploy, lost} |-> IF ix \in {i1, i2, lost} THEN p ELSE q]
MCReaches == [ix \in {i1, i2, cpi, deploy, lost} |->
                CASE ix = cpi -> {p, q} [] ix = deploy -> {q} [] OTHER -> {p}]

Does(cus, ends, new) ==
  [cus |-> cus, ends |-> ends,
   deploys |-> [id \in {p, q} |-> IF id = p THEN new ELSE Untouched]]

\* Under v1 the first instruction takes "two" units, under v2 the second one
\* succeeds if all is fine.
Build(two, fine, new) ==
  [ix \in {i1, i2, cpi, deploy, lost} |->
     [view \in [MCReaches[ix] -> MCImage] |->
        CASE ix = lost -> Does(0, "panic", Untouched)
          [] closed \in {view[id] : id \in MCReaches[ix]} -> Does(1, "failure", Untouched)
          [] ix = i1 -> Does(IF view[p] = v1 THEN two ELSE 1, "success", Untouched)
          [] ix = i2 -> Does(2, IF view[p] = v1 \/ fine THEN "success" ELSE "failure",
                             Untouched)
          [] ix = cpi -> Does(IF view[p] = v1 THEN 3 ELSE 4, "success", Untouched)
          [] ix = deploy -> Does(2, "success", new)]]
MCOutcomes == {Build(1, TRUE, v2), Build(3, FALSE, closed)}
MCCaches == {[id \in {p, q} |-> v1]}

B(n, ix) == [name |-> n, ix |-> ix]
MCBenchLists ==
  { <<>>, <<B(n1, i1), B(n2, i2)>>, <<B(n1, i1), B(n1, i2), B(n2, cpi)>>,
    <<B(n2, deploy), B(n1, i1)>>, <<B(n1, i1), B(n2, lost)>>,
    <<B(padded, i1), B(inset, i2)>>, <<B(barred, i2)>> }
MCProgramLists == {<<>>, <<v1, v2>>}
=============================================================================
