------------------------------- MODULE Runner -------------------------------
(***************************************************************************)
(* The command line (cli/src): execute-fixture runs fixtures on one        *)
(* Mollusk and compares with what they recorded, run-test runs them on two *)
(* that differ in one program and compares the two.  A command loads the   *)
(* programs, runs fixture after fixture, and ends the process with a       *)
(* status; only a run without failures reports units, in a file that       *)
(* outlives the commands.                                                  *)
(*                                                                         *)
(* One Mollusk runs all fixtures.  A replay sets what Fixtures models;     *)
(* what the program cache keeps of a fixture is that of Environment: the   *)
(* programs its instruction deploys and closes.  A result depends on every *)
(* program that the instruction can run: the one it calls, and those it    *)
(* reaches by a CPI.  All directories can be read.                         *)
(***************************************************************************)
EXTENDS Reports

CONSTANTS
  ProgramId,  \* addresses
  Elf,        \* program files
  Image,      \* what the program cache has: an ELF, a builtin, a closed program
  Builtin,    \* address -> what Mollusk::default has there, or Missing
  Effect,     \* what a result has beside its units
  Path,       \* files
  FixFiles,   \* those with the extension of fixtures
  NameOf,     \* the name that parse_fixture_name makes of a path
  Reaches,    \* fixture -> the addresses of all programs it can run
  Outcome,    \* fixture -> what is there -> its result, Missing if it panics
  Deploys,    \* fixture -> what is there -> address -> what it puts there
  Effects,    \* fixture -> the result it recorded
  Missing,    \* not in a map; no option, ground truth, or status yet
  Broken,     \* a config file that cannot be loaded
  NoExtension, \* the path of a config file that ends without an extension
  Absent,     \* a program that cannot be added: no such file, or not an ELF
  Corrupt,    \* fixtures that cannot be decoded
  Commands,   \* the command lines
  MaxTables   \* bound: tables of the report

ResultType == [compute_units : Nat, effect : Effect]
Flag == {"add_program", "add_program_with_loader", "add_program_with_loader_and_elf"}
Preload == [flag : Flag, id : ProgramId, elf : Elf \cup {Absent}]
Command ==
  [source : Elf \cup {Missing, Absent},  \* run-test has a ground truth
   elf : Elf \cup {Absent}, id : ProgramId, files : SUBSET Path, preloads : Seq(Preload),
   config : SUBSET {"units", "rest"} \cup {Missing, Broken, NoExtension},
   ignore_compute_units : BOOLEAN, inputs_only : BOOLEAN, cus_report : BOOLEAN]

ASSUME RunnerAssumption ==
  /\ Corrupt \subseteq FixFiles /\ FixFiles \subseteq Path /\ NameOf \in [Path -> Name]
  /\ Elf \subseteq Image /\ Missing \notin Image \cup ResultType
  /\ Builtin \in [ProgramId -> Image \cup {Missing}]
  /\ Reaches \in [FixFiles -> SUBSET ProgramId]
  /\ \A f \in FixFiles :
       /\ Outcome[f] \in [[Reaches[f] -> Image \cup {Missing}] -> ResultType \cup {Missing}]
       /\ Deploys[f] \in [[Reaches[f] -> Image \cup {Missing}]
                           -> [ProgramId -> Image \cup {Missing}]]
  /\ Effects \in [FixFiles -> ResultType]
  /\ Commands \subseteq Command
  /\ \A c \in Commands : IsFiniteSet(c.files) /\ (c.source # Missing => c.inputs_only)
  /\ {Missing, Absent} \cap Elf = {} /\ Missing \notin Nat /\ MaxTables \in Nat
  /\ Broken # NoExtension

VARIABLES
  command,        \* the command line
  ground, target, \* the Mollusks: what was added, and put there since
  fixtures,       \* what search_paths found, in the order it did
  next,           \* place of the fixture that runs
  pc,             \* "setup", "ground", "target", "compare", "exit" or "done"
  ground_result, target_result,
  failures,
  bench_results,
  status,         \* of the process, once it has ended: 0, 1, or 101 of a panic
  file            \* the report

mollusks == <<ground, target>>
results == <<ground_result, target_result>>
vars == <<command, ground, target, fixtures, next, pc, ground_result,
          target_result, failures, bench_results, status, file>>

-----------------------------------------------------------------------------
(* The programs of a Mollusk.                                              *)

(* What is added under each address after each of the preloads, of which   *)
(* those of one flag count: the last under an address stays.               *)
Loads(added, preloads, flag) ==
  LET upTo[n \in 0..Len(preloads)] ==
        IF n = 0 THEN added
        ELSE IF preloads[n].flag # flag THEN upTo[n - 1]
        ELSE [upTo[n - 1] EXCEPT ![preloads[n].id] = preloads[n].elf]
  IN  upTo

(* A loop over the occurrences of a flag, in the order they come in.       *)
Loaded(added, preloads, flag) == Loads(added, preloads, flag)[Len(preloads)]

(* apply_program_load_args: by flag, not in the order of the command line. *)
apply_program_load_args(added, preloads) ==
  Loaded(Loaded(Loaded(added, preloads, "add_program"),
                preloads, "add_program_with_loader"),
         preloads, "add_program_with_loader_and_elf")

\* Mutant: the ELF of the command line is added before the preloads.
ElfFirst(c, elf) ==
  apply_program_load_args([Builtin EXCEPT ![c.id] = elf], c.preloads)

(* add_elf_to_mollusk comes last.                                          *)
Additions(c, elf) ==
  [apply_program_load_args(Builtin, c.preloads) EXCEPT ![c.id] = elf]

NewMollusk(c, elf) ==
  [added |-> Additions(c, elf), deployed |-> [id \in ProgramId |-> Missing]]

Find(mollusk, id) ==
  IF mollusk.deployed[id] # Missing THEN mollusk.deployed[id] ELSE mollusk.added[id]

(* What a fixture meets in the program cache.                              *)
View(mollusk, f) == [id \in Reaches[f] |-> Find(mollusk, id)]

ResultOf(mollusk, f) == Outcome[f][View(mollusk, f)]

(* The fixture can be loaded, and the harness does not panic: as it does   *)
(* for a program that is neither cached nor among the fixture's accounts.  *)
Ready(mollusk, f) == f \notin Corrupt /\ ResultOf(mollusk, f) # Missing

(* The Mollusk after a fixture: the program cache keeps what it deploys    *)
(* and forgets what it closes.                                             *)
After(mollusk, f) ==
  LET new == Deploys[f][View(mollusk, f)]
  IN  [mollusk EXCEPT !.deployed =
         [id \in ProgramId |-> IF new[id] # Missing THEN new[id] ELSE mollusk.deployed[id]]]

-----------------------------------------------------------------------------
(* The checks: those of the config file or all, less the units if they are *)
(* to be ignored.                                                          *)
Checks(c) ==
  (IF c.config = Missing THEN {"units", "rest"} ELSE c.config)
    \ IF c.ignore_compute_units THEN {"units"} ELSE {}

(* compare_with_config.                                                    *)
Agree(c, r, s) ==
  /\ "units" \in Checks(c) => r.compute_units = s.compute_units
  /\ "rest" \in Checks(c) => r.effect = s.effect

(* search_paths: fs::read_dir yields the files in any order.               *)
search_paths(files) == SetToSeqs(files \cap FixFiles)

IsRunTest(c) == c.source # Missing

ElfMissing(c) ==
  Absent \in {c.source, c.elf} \/ \E i \in DOMAIN c.preloads : c.preloads[i].elf = Absent

-----------------------------------------------------------------------------
Init ==
  /\ command \in Commands
  /\ ground = Missing /\ target = Missing
  /\ fixtures = <<>> /\ next = 1
  /\ pc = "setup"
  /\ ground_result = Missing /\ target_result = Missing
  /\ failures = 0 /\ bench_results = <<>>
  /\ status = Missing
  /\ file = <<>>

(* The next command line, once this process is gone: the report stays.     *)
NewCommand(c) ==
  /\ pc = "done"
  /\ c.cus_report => Len(file) < MaxTables
  /\ command' = c
  /\ ground' = Missing /\ target' = Missing
  /\ fixtures' = <<>> /\ next' = 1
  /\ pc' = "setup"
  /\ ground_result' = Missing /\ target_result' = Missing
  /\ failures' = 0 /\ bench_results' = <<>>
  /\ status' = Missing
  /\ UNCHANGED file

End(code) == pc' = "done" /\ status' = code

(* The next fixture, if there is one.                                      *)
Proceed(place) ==
  /\ next' = place
  /\ pc' = CASE place > Len(fixtures') -> "exit"
             [] place <= Len(fixtures') /\ IsRunTest(command) -> "ground"
             [] OTHER -> "target"

(* main: the Mollusks, the checks and the paths.                           *)
Setup ==
  /\ pc = "setup" /\ ~ElfMissing(command) /\ command.config \notin {Broken, NoExtension}
  /\ ground' = IF IsRunTest(command) THEN NewMollusk(command, command.source) ELSE Missing
  /\ target' = NewMollusk(command, command.elf)
  /\ fixtures' \in search_paths(command.files)
  /\ Proceed(1)
  /\ UNCHANGED <<command, results, failures, bench_results, status, file>>

(* The Mollusks come first: read_file panics.  Then try_load panics on a   *)
(* path without an extension, or returns an error, and with it main.       *)
SetupFails ==
  /\ pc = "setup"
  /\ \/ ElfMissing(command) /\ End(101)
     \/ ~ElfMissing(command) /\ command.config = NoExtension /\ End(101)
     \/ ~ElfMissing(command) /\ command.config = Broken /\ End(1)
  /\ UNCHANGED <<command, mollusks, fixtures, next, results, failures,
                 bench_results, file>>

Fixture == fixtures[next]

RunGround ==
  /\ pc = "ground" /\ Ready(ground, Fixture)
  /\ ground_result' = ResultOf(ground, Fixture)
  /\ ground' = After(ground, Fixture)
  /\ pc' = "target"
  /\ UNCHANGED <<command, target, fixtures, next, target_result, failures,
                 bench_results, status, file>>

\* Mutant: run-test reports the ground truth.
BenchOfGround ==
  Append(bench_results, Result(NameOf[Fixture],
    IF IsRunTest(command) THEN ground_result.compute_units
    ELSE ResultOf(target, Fixture).compute_units))

(* The bench result of this fixture, if the report is asked for.           *)
Benched ==
  Append(bench_results, Result(NameOf[Fixture], ResultOf(target, Fixture).compute_units))

RunTarget ==
  /\ pc = "target" /\ Ready(target, Fixture)
  /\ target_result' = ResultOf(target, Fixture)
  /\ target' = After(target, Fixture)
  /\ bench_results' = IF command.cus_report THEN Benched ELSE bench_results
  /\ pc' = "compare"
  /\ UNCHANGED <<command, ground, fixtures, next, ground_result, failures,
                 status, file>>

(* The fixture is not loaded, or the harness panics.                       *)
RunPanics ==
  /\ \/ pc = "ground" /\ ~Ready(ground, Fixture)
     \/ pc = "target" /\ ~Ready(target, Fixture)
  /\ End(101)
  /\ UNCHANGED <<command, mollusks, fixtures, next, results, failures,
                 bench_results, file>>

(* pass: with the recorded effects unless the inputs alone are asked for,  *)
(* and of run-test with each other.                                        *)
Pass ==
  /\ ~command.inputs_only =>
       /\ IsRunTest(command) => Agree(command, ground_result, Effects[Fixture])
       /\ Agree(command, target_result, Effects[Fixture])
  /\ IsRunTest(command) => Agree(command, ground_result, target_result)

\* Mutant: a fixture that passes makes up for those that failed.
CountedLast(pass) == IF pass THEN 0 ELSE 1

Counted(pass) == IF pass THEN failures ELSE failures + 1

(* The loop of run_all goes on after a failure.                            *)
EndFixture ==
  /\ pc = "compare"
  /\ failures' = Counted(Pass)
  /\ UNCHANGED <<command, mollusks, fixtures, results, bench_results, status, file>>
  /\ Proceed(next + 1)

-----------------------------------------------------------------------------
(* process::exit(1) comes before the report.                               *)
ExitFailed ==
  /\ pc = "exit" /\ failures > 0
  /\ End(1)
  /\ UNCHANGED <<command, mollusks, fixtures, next, results, failures,
                 bench_results, file>>

(* The report, if it is asked for, and a status of zero.                   *)
Report ==
  /\ pc = "exit" /\ failures = 0
  /\ command.cus_report => ~Unreadable(file)
  /\ file' = IF command.cus_report THEN write_results(file, bench_results) ELSE file
  /\ End(0)
  /\ UNCHANGED <<command, mollusks, fixtures, next, results, failures, bench_results>>

(* write_results panics on a report that it cannot read.                   *)
ReportPanics ==
  /\ pc = "exit" /\ failures = 0
  /\ command.cus_report /\ Unreadable(file)
  /\ End(101)
  /\ UNCHANGED <<command, mollusks, fixtures, next, results, failures,
                 bench_results, file>>

Next ==
  \/ Setup \/ SetupFails
  \/ RunGround \/ RunTarget \/ RunPanics \/ EndFixture
  \/ ExitFailed \/ Report \/ ReportPanics
  \/ \E c \in Commands : NewCommand(c)

Spec == Init /\ [][Next]_vars

-----------------------------------------------------------------------------
Found(c) == c.files \cap FixFiles
Places == 1..Len(fixtures)

(* What a command line puts at an address: the tested ELF at the tested    *)
(* address, and elsewhere the last preload of the last of the three flags, *)
(* before which there are the builtins.                                    *)
ElfAt(c, elf, id) ==
  LET Rank(i) == CHOOSE n \in 1..3 : c.preloads[i].flag =
        <<"add_program", "add_program_with_loader", "add_program_with_loader_and_elf">>[n]
      preloads == {i \in DOMAIN c.preloads : c.preloads[i].id = id}
      Outranks(i, j) == Rank(i) > Rank(j) \/ (Rank(i) = Rank(j) /\ i >= j)
  IN  CASE id = c.id -> elf
        [] id # c.id /\ preloads = {} -> Builtin[id]
        [] OTHER ->
             c.preloads[CHOOSE i \in preloads : \A j \in preloads : Outranks(i, j)].elf

Views(f) == [Reaches[f] -> Image \cup {Missing}]

(* Fixtures that may put something at an address, whatever they meet.      *)
Touch(files, id) == {f \in files : \E view \in Views(f) : Deploys[f][view][id] # Missing}

(* What the i-th of some fixtures may meet at an address: what the command *)
(* line puts there, and what fixtures before it deploy or leave closed.    *)
MayMeet(c, elf, list, i, id) ==
  {ElfAt(c, elf, id)} \cup
    {new \in Image : \E j \in 1..(i - 1) : \E view \in Views(list[j]) :
                       Deploys[list[j]][view][id] = new}

(* A fixture's result is one that it has with the programs of the command  *)
(* line, or with what fixtures before it have put in their places,         *)
(* although one Mollusk runs all of them: no later fixture, nor the other  *)
(* Mollusk or an earlier command, has a part in it.                        *)
FixturesIsolated ==
  pc = "compare" =>
    /\ \E view \in Views(Fixture) :
         /\ \A id \in Reaches[Fixture] :
              view[id] \in MayMeet(command, command.elf, fixtures, next, id)
         /\ target_result = Outcome[Fixture][view]
    /\ IsRunTest(command) =>
         \E view \in Views(Fixture) :
           /\ \A id \in Reaches[Fixture] :
                view[id] \in MayMeet(command, command.source, fixtures, next, id)
           /\ ground_result = Outcome[Fixture][view]

(* What a fixture gives alone; its comparisons.                            *)
Alone(c, elf, f) == Outcome[f][[id \in Reaches[f] |-> ElfAt(c, elf, id)]]
Runs(c, f) ==
  /\ f \notin Corrupt /\ Alone(c, c.elf, f) # Missing
  /\ IsRunTest(c) => Alone(c, c.source, f) # Missing
Started(c) == ~ElfMissing(c) /\ c.config \notin {Broken, NoExtension}
Undisturbed(files, f) == \A id \in Reaches[f] : Touch(files, id) = {}
Passes(c, f) ==
  IF IsRunTest(c) THEN Agree(c, Alone(c, c.source, f), Alone(c, c.elf, f))
  ELSE c.inputs_only \/ Agree(c, Alone(c, c.elf, f), Effects[f])

(* Whatever the order in which the directory yields its files, the status  *)
(* of the process says of all fixtures together whether each, run alone,   *)
(* passes.  The exception are directories with a fixture that can run a    *)
(* program which one of them deploys or closes.                            *)
VerdictOfFixtures ==
  pc = "done" /\ (\A f \in Found(command) : Undisturbed(Found(command), f)) =>
    status \in CASE ElfMissing(command) \/ command.config = NoExtension -> {101}
                 [] ~ElfMissing(command) /\ command.config = Broken -> {1}
                 [] Started(command) /\ ~\A f \in Found(command) : Runs(command, f) -> {101}
                 [] Started(command) /\ (\A f \in Found(command) : Runs(command, f))
                      /\ ~\A f \in Found(command) : Passes(command, f) -> {1}
                 [] OTHER -> {0} \cup IF command.cus_report /\ Unreadable(file)
                                      THEN {101} ELSE {}

ReportTrue ==
  /\ file' # file => pc = "exit" /\ status' = 0 /\ command.cus_report
  /\ status' = 0 /\ status = Missing /\ command.cus_report
       /\ Plain(bench_results) /\ (file' # <<>> => Legible(Head(file'))) =>
       \A i \in Places :
         /\ file' # <<>>
         /\ Undisturbed(Found(command), fixtures[i]) =>
              \E row \in DOMAIN Head(file') :
                Result(Trimmed[Head(file')[row].name], Head(file')[row].cus_consumed)
                  = Result(NameOf[fixtures[i]],
                           Alone(command, command.elf, fixtures[i]).compute_units)

(* A run that fails leaves the report alone.  After one that passes, the   *)
(* newest table has the units of every fixture under the tested ELF, also  *)
(* where nothing has changed and no table was written; of which fixtures   *)
(* that can run what others deploy or close are the exception, and a table *)
(* that is read back with other units.                                     *)
ReportOfTarget == [][ReportTrue]_vars
=============================================================================
