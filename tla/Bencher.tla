------------------------------- MODULE Bencher -------------------------------
(***************************************************************************)
(* The two benchers (bencher/src/lib.rs) and the files they keep.  Between *)
(* runs of the benches the programs are built anew; the files stay.        *)
(*                                                                         *)
(* A bencher of compute units owns its Mollusk.  A matrix bencher borrows  *)
(* one, and adds each of its programs in turn under the id that its first  *)
(* bench calls.                                                            *)
(*                                                                         *)
(* What a bench takes depends on every program that its instruction can    *)
(* run, the one it calls and those of its CPIs: on what its Mollusk has at *)
(* their addresses.  A Mollusk changes by what is added, and by what       *)
(* instructions deploy and close, as Environment models it.                *)
(***************************************************************************)
EXTENDS Reports

CONSTANTS
  ProgramId,    \* addresses
  Program,      \* names of programs, under which their ELF files are found
  Ix,           \* instructions
  Target,       \* instruction -> the address it calls
  Reaches,      \* instruction -> the addresses of all programs it can run
  Image,        \* what can be at an address: a program, a closed one, nothing
  Untouched,    \* no instruction has deployed or closed a program there
  Outcomes,     \* builds: what an instruction does, by what it reaches
  Caches,       \* what is added to the Mollusks: address -> image
  BenchLists,   \* the benches of a bencher
  ProgramLists, \* the programs of a matrix
  MaxTables     \* bound: tables of both files together

Bench == [name : Name, ix : Ix]

(* What the harness makes of an instruction: it panics if the program or   *)
(* an account is missing, and what was deployed stays after a failure.     *)
Outcome ==
  [cus : Nat, ends : {"success", "failure", "panic"},
   deploys : [ProgramId -> Image \cup {Untouched}]]

ASSUME BencherAssumption ==
  /\ Target \in [Ix -> ProgramId] /\ Reaches \in [Ix -> SUBSET ProgramId]
  /\ \A ix \in Ix : Target[ix] \in Reaches[ix]
  /\ Program \subseteq Image /\ Untouched \notin Image
  /\ \A build \in Outcomes, ix \in Ix : build[ix] \in [[Reaches[ix] -> Image] -> Outcome]
  /\ Caches \subseteq [ProgramId -> Image]
  /\ BenchLists \subseteq Seq(Bench) /\ ProgramLists \subseteq Seq(Program)
  /\ Program \subseteq Name /\ MaxTables \in Nat

VARIABLES
  outcome,     \* the build: instruction -> what it reaches -> what it does
  cache,       \* the Mollusk: what was added at an address
  deployed,    \*   and what instructions have put there since
  lent,        \* history: what was at an address when the bencher was made
  kind,        \* "units" or "matrix"
  pc,          \* "idle", "ready", "column" or "bench"
  benches,     \* the field of that name
  programs,    \* program_names
  must_pass,
  todo,        \* the benches still to run
  results,     \* the results of this execution, of this column in a matrix
  mx_results,  \* the columns so far
  failures,    \* history: failed benches of this execution
  executed,    \* history: results of the last execution that wrote its report
  file,        \* compute_units.md
  mx_file      \* mx_compute_units.md

mollusk == <<cache, deployed>>
bencher == <<kind, benches, programs, must_pass>>
execution == <<todo, results, mx_results, failures>>
files == <<executed, file, mx_file>>
vars == <<outcome, cache, deployed, lent, kind, pc, benches, programs, must_pass, todo,
          results, mx_results, failures, executed, file, mx_file>>

NothingDeployed == [id \in ProgramId |-> Untouched]

(* The SVM's lookup: what was deployed comes before what was added.        *)
Find(id) == IF deployed[id] # Untouched THEN deployed[id] ELSE cache[id]

Init ==
  /\ outcome \in Outcomes /\ cache \in Caches
  /\ deployed = NothingDeployed /\ lent = cache
  /\ kind = "units" /\ pc = "idle"
  /\ benches = <<>> /\ programs = <<>> /\ must_pass = FALSE
  /\ todo = <<>> /\ results = <<>> /\ mx_results = <<>> /\ failures = 0
  /\ executed = <<>> /\ file = <<>> /\ mx_file = <<>>

(* The programs are built anew, and the next process has a new Mollusk.    *)
Rebuild(build, c) ==
  /\ pc = "idle"
  /\ outcome' = build
  /\ cache' = c /\ deployed' = NothingDeployed /\ lent' = c
  /\ UNCHANGED <<bencher, pc, execution, files>>

(* new, bench and must_pass, for one bencher and then the other: after a   *)
(* matrix the Mollusk it borrowed is there for the next one.               *)
NewBencher(k, bs, ps, must) ==
  /\ pc = "idle"
  /\ kind' = k /\ benches' = bs /\ programs' = ps /\ must_pass' = must
  /\ lent' = [id \in ProgramId |-> Find(id)]
  /\ pc' = "ready"
  /\ UNCHANGED <<outcome, mollusk, execution, files>>

(* A bencher of units takes its Mollusk with it: the next one gets another. *)
Gone ==
  /\ pc' = "idle"
  /\ kind' = "units" /\ benches' = <<>> /\ programs' = <<>> /\ must_pass' = FALSE
  /\ \/ kind = "matrix" /\ cache' = cache
     \/ kind = "units" /\ cache' \in Caches
  /\ lent' = cache'

(* The bencher is dropped.                                                 *)
Drop ==
  /\ pc = "ready" /\ Gone
  /\ deployed' = IF kind = "matrix" THEN deployed ELSE NothingDeployed
  /\ UNCHANGED <<outcome, execution, files>>

-----------------------------------------------------------------------------
(* MolluskComputeUnitBencher::execute takes the benches: a second          *)
(* execution has none.                                                     *)
Execute ==
  /\ pc = "ready" /\ kind = "units" /\ Len(file) + Len(mx_file) < MaxTables
  /\ todo' = benches /\ benches' = <<>>
  /\ results' = <<>> /\ failures' = 0
  /\ pc' = "bench"
  /\ UNCHANGED <<outcome, mollusk, lent, kind, programs, must_pass, mx_results, files>>

(* MolluskComputeUnitMatrixBencher::execute leaves them.                   *)
ExecuteMatrix ==
  /\ pc = "ready" /\ kind = "matrix" /\ Len(file) + Len(mx_file) < MaxTables
  /\ mx_results' = <<>> /\ failures' = 0
  /\ pc' = "column"
  /\ UNCHANGED <<outcome, mollusk, lent, bencher, todo, results, files>>

\* Mutant: each program is added under the id of the last bench.
UnderLastBench(c, program) ==
  IF benches = <<>> THEN c
  ELSE [c EXCEPT ![Target[benches[Len(benches)].ix]] = program]

(* add_program: "Extract the program ID from the first instruction."       *)
UnderFirstBench(c, program) ==
  IF benches = <<>> THEN c ELSE [c EXCEPT ![Target[Head(benches).ix]] = program]

(* The next program of the matrix.                                         *)
StartColumn ==
  /\ pc = "column" /\ Len(mx_results) < Len(programs)
  /\ cache' = UnderFirstBench(cache, programs[Len(mx_results) + 1])
  /\ todo' = benches /\ results' = <<>>
  /\ pc' = "bench"
  /\ UNCHANGED <<outcome, deployed, lent, bencher, mx_results, failures, files>>

(* process_instruction, on what the bench reaches.                         *)
OutcomeOf(bench) == outcome[bench.ix][[id \in Reaches[bench.ix] |-> Find(id)]]

(* What instructions have put at an address, after one more of them.       *)
Deployed(bench) ==
  LET new == OutcomeOf(bench).deploys
  IN  [id \in ProgramId |-> IF new[id] # Untouched THEN new[id] ELSE deployed[id]]

\* Mutant: a failure is noticed when the results have been written.
NeverAborts(bench) == OutcomeOf(bench).ends = "panic"

(* The harness panics, or must_pass does at the first failure.             *)
Aborts(bench) ==
  \/ OutcomeOf(bench).ends = "panic"
  \/ must_pass /\ OutcomeOf(bench).ends = "failure"

RunBench ==
  /\ pc = "bench" /\ todo # <<>>
  /\ ~Aborts(Head(todo))
  /\ results' = Append(results, Result(Head(todo).name, OutcomeOf(Head(todo)).cus))
  /\ failures' = failures + IF OutcomeOf(Head(todo)).ends = "success" THEN 0 ELSE 1
  /\ todo' = Tail(todo)
  /\ deployed' = Deployed(Head(todo))
  /\ UNCHANGED <<outcome, cache, lent, bencher, pc, mx_results, files>>

(* A panic ends the test: before anything is written.                      *)
Unwind ==
  /\ Gone
  /\ todo' = <<>> /\ results' = <<>> /\ mx_results' = <<>> /\ failures' = 0
  /\ UNCHANGED <<outcome, files>>

BenchPanics ==
  /\ pc = "bench" /\ todo # <<>> /\ Aborts(Head(todo))
  /\ deployed' = IF kind = "matrix" THEN Deployed(Head(todo)) ELSE NothingDeployed
  /\ Unwind

WriteResults ==
  /\ pc = "bench" /\ kind = "units" /\ todo = <<>> /\ ~Unreadable(file)
  /\ file' = write_results(file, results)
  /\ executed' = results
  /\ pc' = "ready"
  /\ results' = <<>> /\ failures' = 0
  /\ UNCHANGED <<outcome, mollusk, lent, bencher, todo, mx_results, mx_file>>

(* The newest table has a row that does not parse: none is written again.  *)
WritePanics ==
  /\ pc = "bench" /\ kind = "units" /\ todo = <<>> /\ Unreadable(file)
  /\ deployed' = NothingDeployed
  /\ Unwind

EndColumn ==
  /\ pc = "bench" /\ kind = "matrix" /\ todo = <<>>
  /\ mx_results' = Append(mx_results,
       [program_name |-> programs[Len(mx_results) + 1], results |-> results])
  /\ pc' = "column"
  /\ UNCHANGED <<outcome, mollusk, lent, bencher, todo, results, failures, files>>

WriteMatrix ==
  /\ pc = "column" /\ Len(mx_results) = Len(programs)
  /\ mx_file' = mx_write_results(mx_file, mx_results)
  /\ pc' = "ready"
  /\ results' = <<>> /\ mx_results' = <<>> /\ failures' = 0
  /\ UNCHANGED <<outcome, mollusk, lent, bencher, todo, executed, file>>

Next ==
  \/ \E build \in Outcomes, c \in Caches : Rebuild(build, c)
  \/ \E bs \in BenchLists, must \in BOOLEAN :
       \/ NewBencher("units", bs, <<>>, must)
       \/ \E ps \in ProgramLists : NewBencher("matrix", bs, ps, must)
  \/ Drop
  \/ Execute \/ ExecuteMatrix
  \/ StartColumn \/ RunBench \/ BenchPanics \/ EndColumn
  \/ WriteResults \/ WritePanics \/ WriteMatrix

Spec == Init /\ [][Next]_vars

-----------------------------------------------------------------------------
RowOf(table, name) == {i \in DOMAIN table : Trimmed[table[i].name] = name}

(* compute_units.md is a ledger.  Its newest table has the units of every  *)
(* bench of the last execution, although an execution that changed nothing *)
(* wrote none; and each delta is the difference to the table below it,     *)
(* new where that table lacks the name.  The exception are tables that     *)
(* are read back with other units than their own.                          *)
LedgerTrue ==
  /\ Plain(executed) /\ (file # <<>> => Legible(Head(file))) =>
       \A i \in DOMAIN executed :
         /\ file # <<>>
         /\ \E row \in RowOf(Head(file), executed[i].name) :
              Head(file)[row].cus_consumed = executed[i].cus_consumed
  /\ \A t \in DOMAIN file : \A i \in DOMAIN file[t] :
       LET row == file[t][i]
           below == IF t < Len(file) THEN file[t + 1] ELSE <<>>
       IN  IF row.delta = New THEN RowOf(below, row.name) = {}
           ELSE Legible(below) =>
                  \E j \in RowOf(below, row.name) :
                    row.cus_consumed = below[j].cus_consumed + row.delta

(* "Only create a new table if there were changes": a table is written     *)
(* only if some bench has no row in the newest table, or other units than  *)
(* the first row of its name, whatever rows and benches share a name.      *)
ChangeFound ==
  file' # file /\ file # <<>> /\ Legible(Head(file)) =>
    \E i \in DOMAIN results :
      LET rows == RowOf(Head(file), results[i].name)
      IN  \A row \in rows : (\A other \in rows : row <= other) =>
            Head(file)[row].cus_consumed # results[i].cus_consumed

UnchangedWritesNothing == [][ChangeFound]_vars

(* A bench that fails when all must pass leaves both files as they were,   *)
(* whichever bench it is and whatever has been measured before it.         *)
FilesUntouched == must_pass /\ failures > 0 => UNCHANGED <<file, mx_file>>

FailureWritesNothing == [][FilesUntouched]_vars

(* Benches none of which deploys or closes a program, whatever they meet.  *)
Settled(bs) ==
  \A i \in DOMAIN bs : \A view \in [Reaches[bs[i].ix] -> Image] :
    outcome[bs[i].ix][view].deploys = NothingDeployed

(* What is at an address in a column: its program under the first bench's  *)
(* id, unless an earlier bencher has had a program deployed there; and at  *)
(* all others what was there when the matrix was made.                     *)
AtColumn(c) ==
  [id \in ProgramId |->
     IF id = Target[Head(benches).ix] /\ deployed[id] = Untouched THEN programs[c]
     ELSE lent[id]]

(* A cell of a matrix is what its row's bench takes with its column's      *)
(* program in place, called or reached by a CPI, and everything else as it *)
(* was, although the programs follow each other in one Mollusk.  The       *)
(* exception are matrices with a bench that deploys or closes a program.   *)
TableTrue ==
  mx_file' # mx_file /\ Settled(benches) =>
    LET table == Head(mx_file')
    IN  /\ table.header = programs
        /\ Len(table.rows) = Len(benches)
        /\ \A row \in DOMAIN benches : \A c \in DOMAIN programs :
             LET ix == benches[row].ix
             IN  table.rows[row].cells[c]
                   = outcome[ix][[id \in Reaches[ix] |-> AtColumn(c)[id]]].cus

MatrixCells == [][TableTrue]_vars
=============================================================================
