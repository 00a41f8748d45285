------------------------------ MODULE MCRunner ------------------------------
(***************************************************************************)
(* A small instance of Runner for TLC: two ELFs that differ in the units   *)
(* of one fixture and in the effect of another, a fixture that makes a     *)
(* CPI, and one that deploys or closes a program; command lines of both    *)
(* kinds with every outcome: passing, failing, panicking, and with         *)
(* preloads in a misleading order.                                         *)
(***************************************************************************)
EXTENDS Runner

CONSTANTS p, q, v1, v2, closed, e1, e2, e3, f1, f2, cpi, deploy, f4, f5, inset, other,
          n1, n2, n3, n4, barred, number

MCName == {n1, n2, n3, n4, barred, number}
MCTrimmed == [n \in MCName |-> IF n \in {barred, number} THEN n1 ELSE n]
MCInset == [n \in {number} |-> 1]
Fixtures == {f1, f2, cpi, deploy, f4, f5, inset}
MCPath == Fixtures \cup {other}
MCNameOf == [f \in MCPath |->
               CASE f = f1 -> n1 [] f = f2 -> n2 [] f = cpi -> n4 [] f = f4 -> barred
                 [] f = inset -> number [] OTHER -> n3]
MCReaches == [f \in Fixtures |->
                CASE f = f2 -> {q} [] f = cpi -> {p, q} [] OTHER -> {p}]
MCBuiltin == [id \in {p, q} |-> Missing]
MCViews(f) == [MCReaches[f] -> {v1, v2, closed, Missing}]

R(cus, effect) == [compute_units |-> cus, effect |-> effect]
Runnable(view) == \A id \in DOMAIN view : view[id] \notin {closed, Missing}

\* The harness panics for want of the called program, which is at p unless p
\* is not reached; a closed program, or one that a CPI misses, is a failure.
MCOutcome ==
  [f \in Fixtures |->
     [view \in MCViews(f) |->
        LET called == IF f = f2 THEN q ELSE p
        IN  CASE view[called] = Missing -> Missing
              [] view[called] # Missing /\ ~Runnable(view) -> R(0, e3)
              [] OTHER ->
                   CASE f = f1  -> R(IF view[p] = v1 THEN 1 ELSE 2, e1)
                     [] f = f2  -> R(1, IF view[q] = v1 THEN e1 ELSE e2)
                     [] f = cpi -> R(1, IF view[q] = v1 THEN e2 ELSE e1)
                     [] OTHER   -> R(1, e1)]]
MCDeploys ==
  [f \in Fixtures |->
     [view \in MCViews(f) |->
        [id \in {p, q} |->
           IF f = deploy /\ id = q /\ Runnable(view)
           THEN IF view[p] = v1 THEN v2 ELSE closed
           ELSE Missing]]]
MCEffects == [f \in Fixtures |-> R(1, e1)]

A(flag, id, elf) == [flag |-> flag, id |-> id, elf |-> elf]
None == <<>>
Misleading ==
  <<A("add_program_with_loader_and_elf", q, v1), A("add_program_with_loader", q, v2),
    A("add_program", p, v2)>>
LastWins == <<A("add_program", q, v1), A("add_program", q, v2)>>

Line(s, t, fs, pre, cfg, only, report) ==
  [source |-> s, elf |-> t, id |-> p, files |-> fs, preloads |-> pre, config |-> cfg,
   ignore_compute_units |-> cfg = {"units"}, inputs_only |-> s # Missing \/ only,
   cus_report |-> report]

\* Both kinds, on every set of files, with the preloads that make them run.
Compared ==
  {Line(s, t, fs, pre, cfg, FALSE, FALSE) :
     s \in {Missing, v1}, t \in {v1, v2},
     fs \in {{f1, f2, other}, {f1, cpi}, {f2, deploy, cpi}, {other}},
     pre \in {None, Misleading, LastWins}, cfg \in {Missing, {"units"}, {"rest"}}}
Reporting ==
  {Line(s, t, {f1, f2, other}, LastWins, Missing, TRUE, TRUE) :
     s \in {Missing, v1}, t \in {v1, v2}}
    \cup {Line(Missing, v1, fs, LastWins, Missing, TRUE, TRUE) :
            fs \in {{f1, cpi}, {f2, deploy}, {f4}, {inset}}}
    \cup {Line(v1, v2, {f1, deploy}, None, {"rest"}, FALSE, TRUE)}
Stopped ==
  {Line(Missing, v1, {f1}, None, Broken, FALSE, TRUE),
   Line(Missing, v1, {f1}, None, NoExtension, FALSE, TRUE),
   Line(Missing, Absent, {f1}, None, Missing, FALSE, TRUE),
   Line(Absent, v1, {f1}, None, Missing, FALSE, FALSE),
   Line(v1, v2, {f1}, <<A("add_program", q, Absent)>>, Broken, FALSE, FALSE),
   Line(Missing, v2, {f1, f5}, None, Missing, FALSE, FALSE)}
MCCommands == Compared \cup Reporting \cup Stopped
=============================================================================
