------------------------------ MODULE Fixtures ------------------------------
(***************************************************************************)
(* Ejection and replay of fuzz fixtures, of Mollusk's own and of           *)
(* Firedancer's format.  A call that runs with ejection on writes one      *)
(* fixture for each instruction that it executes.  A replay sets the       *)
(* harness up from a fixture, executes its instruction and compares the    *)
(* result with the fixture's effects; it may eject a fixture itself.       *)
(*                                                                         *)
(* What happens inside an execution is the subject of Processing.  Here a  *)
(* program is deterministic: it moves one lamport from its first account   *)
(* to its second and returns one thing that it reads of its environment.   *)
(***************************************************************************)
EXTENDS Integers, Sequences, FiniteSets

CONSTANTS
  KeyOrder,        \* all addresses, in the order of their bytes
  Program,         \* addresses of programs
  IxSysvar,        \* solana_instructions_sysvar::ID
  Feature,         \* features of the SVM
  Omitted,         \* OMITTED_FEATURES
  ProgramError,    \* errors with a ProgramError, InsufficientFunds among them
  InsufficientFunds,
  UnknownError,    \* errors without one, InvalidError among them
  InvalidError,    \* InstructionError::InvalidError
  Success,
  MaxU64,          \* the number of every unknown error
  Nothing,         \* what a program that reads nothing returns
  DefaultCosts,    \* ComputeBudget::new_with_defaults(true, true), less the limit
  DefaultRestart,  \* LastRestartSlot::default()
  Harness,         \* states of Mollusk that a test sets up
  Calls,           \* single instructions and chains, with their accounts
  MaxFiles         \* bound on the number of files

Key == {KeyOrder[i] : i \in DOMAIN KeyOrder}
Carried == {"limit", "costs", "features", "clock"}
Reads == Carried \cup {"restart", "stake", "index", "nothing"}

Outcomes == {Success} \cup ProgramError \cup UnknownError
Meta == [key : Key, signer : BOOLEAN, writable : BOOLEAN]
InstructionType ==
  {ix \in [program : Program, reads : Reads, fails : Outcomes, metas : Seq(Meta)] :
     Len(ix.metas) >= 2}
Account == [key : Key, lamports : Nat]

(* No error has the number of a success.                                   *)
ASSUME ErrorAssumption ==
  /\ InsufficientFunds \in ProgramError /\ InvalidError \in UnknownError
  /\ ProgramError \cap UnknownError = {} /\ Success \notin ProgramError \cup UnknownError
  /\ MaxU64 \notin ProgramError \cup {0} /\ 0 \notin ProgramError
ASSUME KeyAssumption ==
  /\ \A i, j \in DOMAIN KeyOrder : KeyOrder[i] = KeyOrder[j] => i = j
  /\ Program \cup {IxSysvar} \subseteq Key /\ Omitted \subseteq Feature
ASSUME HarnessAssumption ==
  \A h \in Harness :
    /\ DOMAIN h = Carried \cup {"restart", "stake", "slot"}
    /\ h.limit \in Nat \ {0} /\ h.features \subseteq Feature
(* process_instruction is a chain of one, apart from the place that the    *)
(* sysvar cache has in it.                                                 *)
ASSUME CallsAssumption ==
  Calls \subseteq [instructions : Seq(InstructionType) \ {<<>>}, accounts : Seq(Account)]

VARIABLES
  harness,    \* the fields of Mollusk that a fixture has to do with
  directory,  \* from file names to a fixture and, for the properties, its origin
  pc,         \* "idle", "running" or "panicked"
  source,     \* the file that is replayed, or Test
  call,       \* the call at hand
  ejecting,   \* "off", "mollusk" or "fd": the environment variable that is set
  accounts,   \* the account list that its next instruction gets
  place,      \* how many of its instructions have run
  result,     \* the result of the latest of them
  written     \* history: the fixtures that the call has ejected

vars == <<harness, directory, pc, source, call, ejecting, accounts, place, result, written>>

Test == [format |-> "none"]
Replaying == source # Test

-----------------------------------------------------------------------------
(* Execution.                                                              *)

Position(list, k) ==
  CHOOSE i \in DOMAIN list :
    list[i].key = k /\ \A j \in DOMAIN list : list[j].key = k => i <= j
Keys(list) == {list[i].key : i \in DOMAIN list}
Lamports(list, k) == list[Position(list, k)].lamports
MetaKeys(ix) == Keys(ix.metas)

View(ix, env, index) ==
  CASE ix.reads = "index" -> <<"index", index>>
    [] ix.reads = "nothing" -> Nothing
    [] OTHER -> <<ix.reads, env[ix.reads]>>

(* The rights of an account are those of all its mentions, and no message  *)
(* lets a program that it calls be written.                                *)
Asked(ix, k, right) == \E i \in DOMAIN ix.metas : ix.metas[i].key = k /\ ix.metas[i][right]
Signs(ix, k) == Asked(ix, k, "signer")
Writes(ix, k) == Asked(ix, k, "writable") /\ k # ix.program

CanTransfer(ix, list) ==
  LET from == ix.metas[1].key
      to   == ix.metas[2].key
  IN  /\ Signs(ix, from) /\ Writes(ix, from) /\ Writes(ix, to)
      /\ {from, to} \subseteq Keys(list)
      /\ Lamports(list, from) > 0

Transferred(ix, list) ==
  [i \in DOMAIN list |->
    LET k == list[i].key
        out == IF k = ix.metas[1].key THEN 1 ELSE 0
        in == IF k = ix.metas[2].key THEN 1 ELSE 0
    IN  IF k \in MetaKeys(ix) \cup {ix.program}
        THEN [list[i] EXCEPT !.lamports = Lamports(list, k) - out + in]
        ELSE list[i]]

Execute(ix, list, env, index) ==
  LET outcome == IF ix.fails # Success THEN ix.fails
                 ELSE IF CanTransfer(ix, list) THEN Success ELSE InsufficientFunds
  IN  [units |-> 1, outcome |-> outcome, returned |-> View(ix, env, index),
       accounts |-> IF outcome = Success THEN Transferred(ix, list) ELSE list]

(* What get_account_fallbacks supplies for the call.                       *)
FallbackKeys ==
  {call.instructions[i].program : i \in DOMAIN call.instructions} \cup {IxSysvar}

-----------------------------------------------------------------------------
(* What goes into fixtures: Mollusk's own format.                          *)

(* Features go by eight bytes of their address; the test features, which   *)
(* share theirs, are left out.                                             *)
NumberedFeatures(features) == features \ Omitted

(* The instruction's accounts, by their first position in the list.        *)
MetaIndices(ix, list) ==
  [i \in DOMAIN ix.metas |->
    [index |-> Position(list, ix.metas[i].key),
     signer |-> ix.metas[i].signer, writable |-> ix.metas[i].writable]]

NumberOf(outcome) ==
  CASE outcome = Success -> 0
    [] outcome \in ProgramError -> outcome
    [] outcome \in UnknownError -> MaxU64

OutcomeOf(number) ==
  CASE number = 0 -> Success
    [] number = MaxU64 -> InvalidError
    [] OTHER -> number

MolluskFixture(ix, list, env, r) ==
  [format |-> "mollusk",
   limit |-> env.limit, costs |-> env.costs, clock |-> env.clock,
   features |-> NumberedFeatures(env.features),
   program |-> ix.program, data |-> [reads |-> ix.reads, fails |-> ix.fails],
   metas |-> MetaIndices(ix, list), accounts |-> list,
   units |-> r.units, number |-> NumberOf(r.outcome), returned |-> r.returned,
   resulting |-> r.accounts]

-----------------------------------------------------------------------------
(* The Firedancer format.                                                  *)

(* Message::new orders addresses by their rights, then by their bytes.     *)
MessageKeys(ix) ==
  LET class(signer, writable) ==
        SelectSeq(KeyOrder, LAMBDA k :
          /\ k \in MetaKeys(ix) \cup {ix.program}
          /\ Asked(ix, k, "signer") = signer /\ Asked(ix, k, "writable") = writable)
  IN  class(TRUE, TRUE) \o class(TRUE, FALSE) \o class(FALSE, TRUE) \o class(FALSE, FALSE)

(* compiled_ix.accounts: positions among the addresses of the message.     *)
MessageIndices(ix) ==
  [i \in DOMAIN ix.metas |->
    LET k == ix.metas[i].key
    IN  [index |-> CHOOSE n \in DOMAIN MessageKeys(ix) : MessageKeys(ix)[n] = k,
         signer |-> Signs(ix, k), writable |-> Writes(ix, k)]]

(* Accounts that differ from the resulting account of their address.       *)
ModifiedAccounts(list, resulting) ==
  LET after == [i \in DOMAIN list |-> resulting[Position(resulting, list[i].key)]]
      changed == {i \in DOMAIN list : after[i] # list[i]}
  IN  [n \in 1..Cardinality(changed) |->
        after[CHOOSE i \in changed : Cardinality({j \in changed : j < i}) = n - 1]]

FdFixture(ix, list, env, r) ==
  [format |-> "fd",
   limit |-> env.limit, features |-> NumberedFeatures(env.features), slot |-> env.slot,
   program |-> ix.program, data |-> [reads |-> ix.reads, fails |-> ix.fails],
   metas |-> MessageIndices(ix), accounts |-> list,
   left |-> env.limit - r.units, outcome |-> r.outcome, returned |-> r.returned,
   modified |-> ModifiedAccounts(list, r.accounts)]

-----------------------------------------------------------------------------
(* Either format.                                                          *)

(* `unwrap` of an address that is not in the list, AccountMissing.         *)
Ejectable(format, ix, list) ==
  CASE format = "mollusk" -> MetaKeys(ix) \subseteq Keys(list)
    [] format = "fd" -> MetaKeys(ix) \subseteq Keys(list) \cup {ix.program, IxSysvar}

FixtureOf(format, ix, list, env, r) ==
  IF format = "mollusk" THEN MolluskFixture(ix, list, env, r) ELSE FdFixture(ix, list, env, r)

(* A file is named by a hash: of everything, except that Mollusk's own     *)
(* leaves the return data out.                                             *)
FileName(f) == IF f.format = "mollusk" THEN [f EXCEPT !.returned = Nothing] ELSE f

(* The directory once the file is written, over one of the same name.      *)
Dumped(f, origin) ==
  [name \in DOMAIN directory \cup {FileName(f)} |->
    IF name = FileName(f) THEN [fixture |-> f, origin |-> origin] ELSE directory[name]]

Loadable(f) == \A i \in DOMAIN f.metas : f.metas[i].index \in DOMAIN f.accounts

(* parse_fixture_context: the instruction and its accounts.                *)
LoadedInstruction(f) ==
  [program |-> f.program, reads |-> f.data.reads, fails |-> f.data.fails,
   metas |-> [i \in DOMAIN f.metas |->
     [key |-> f.accounts[f.metas[i].index].key,
      signer |-> f.metas[i].signer, writable |-> f.metas[i].writable]]]

\* Mutant: the feature set stays that of the harness.
LoadedHarnessOldFeatures(f) ==
  IF f.format = "mollusk"
  THEN [harness EXCEPT !.limit = f.limit, !.costs = f.costs,
                       !.clock = f.clock, !.restart = DefaultRestart]
  ELSE [harness EXCEPT !.limit = f.limit, !.costs = DefaultCosts, !.slot = f.slot]

(* What process_fixture and process_firedancer_fixture do to Mollusk.      *)
LoadedHarness(f) ==
  IF f.format = "mollusk"
  THEN [harness EXCEPT !.limit = f.limit, !.costs = f.costs, !.features = f.features,
                       !.clock = f.clock, !.restart = DefaultRestart]
  ELSE [harness EXCEPT !.limit = f.limit, !.costs = DefaultCosts,
                       !.features = f.features, !.slot = f.slot]

\* Mutant: an account that was not modified is taken for an empty one.
RestoredEmpty(f) ==
  [i \in DOMAIN f.accounts |->
    LET k == f.accounts[i].key
    IN  IF k \in Keys(f.modified) THEN f.modified[Position(f.modified, k)]
        ELSE [key |-> k, lamports |-> 0]]

(* parse_fixture_effects: the accounts, with the modified ones replaced.   *)
Restored(f) ==
  [i \in DOMAIN f.accounts |->
    LET k == f.accounts[i].key
    IN  IF k \in Keys(f.modified) THEN f.modified[Position(f.modified, k)]
        ELSE f.accounts[i]]

(* The result that a fixture's effects are read as.                        *)
Expected(f) ==
  IF f.format = "mollusk"
  THEN [units |-> f.units, outcome |-> OutcomeOf(f.number), returned |-> f.returned,
        accounts |-> f.resulting]
  ELSE [units |-> f.limit - f.left, outcome |-> f.outcome, returned |-> f.returned,
        accounts |-> Restored(f)]

-----------------------------------------------------------------------------
NoResult == [units |-> 0, outcome |-> Success, returned |-> Nothing, accounts |-> <<>>]
NoCall == [instructions |-> <<>>, accounts |-> <<>>]

Init ==
  /\ harness \in Harness
  /\ directory = << >> /\ pc = "idle" /\ source = Test /\ call = NoCall
  /\ ejecting = "off" /\ accounts = <<>> /\ place = 0 /\ result = NoResult
  /\ written = <<>>

(* The test changes public fields, warps or makes a new Mollusk.           *)
SetHarness(h) ==
  /\ pc = "idle" /\ h # harness
  /\ harness' = h
  /\ source' = Test /\ call' = NoCall /\ ejecting' = "off" /\ accounts' = <<>>
  /\ place' = 0 /\ result' = NoResult /\ written' = <<>>
  /\ UNCHANGED <<directory, pc>>

Begin(c, from, format) ==
  /\ pc = "idle"
  /\ format # "off" => Cardinality(DOMAIN directory) + Len(c.instructions) <= MaxFiles
  /\ pc' = "running"
  /\ source' = from /\ call' = c /\ ejecting' = format
  /\ accounts' = c.accounts /\ place' = 0 /\ result' = NoResult /\ written' = <<>>
  /\ UNCHANGED directory

BeginCall(c, format) == Begin(c, Test, format) /\ UNCHANGED harness

(* process_fixture; the comparison with Expected(f) is that of Results.    *)
Replay(name, format) ==
  LET f == directory[name].fixture
  IN  /\ Loadable(f)
      /\ Begin([instructions |-> <<LoadedInstruction(f)>>, accounts |-> f.accounts],
               directory[name], format)
      /\ harness' = LoadedHarness(f)

(* An index that the account list does not have.                           *)
LoadPanics(name) ==
  /\ pc = "idle" /\ ~Loadable(directory[name].fixture)
  /\ pc' = "panicked"
  /\ UNCHANGED <<harness, directory, source, call, ejecting, accounts, place, result, written>>

Instruction == call.instructions[place + 1]
Supplied == MetaKeys(Instruction) \subseteq Keys(accounts) \cup FallbackKeys

(* AccountMissing, before the instruction runs.                            *)
CallPanics ==
  /\ pc = "running" /\ ~Supplied
  /\ pc' = "panicked"
  /\ UNCHANGED <<harness, directory, source, call, ejecting, accounts, place, result, written>>

(* The current instruction runs.                                           *)
Ran ==
  /\ pc = "running" /\ Supplied
  /\ result' = Execute(Instruction, accounts, harness, place)
  /\ place' = place + 1
  /\ UNCHANGED <<harness, source, call, ejecting>>

(* The loop of a chain: to the next instruction, or out of it.             *)
Continue ==
  /\ pc' = IF result'.outcome # Success \/ place' = Len(call.instructions)
           THEN "idle" ELSE "running"
  /\ accounts' = result'.accounts

RunOnly == Ran /\ ejecting = "off" /\ Continue /\ UNCHANGED <<directory, written>>

\* Mutant: the fixtures of a chain get the accounts that the chain was given.
EjectFirstAccounts ==
  /\ Ran /\ ejecting # "off" /\ Ejectable(ejecting, Instruction, accounts)
  /\ LET f == FixtureOf(ejecting, Instruction, call.accounts, harness, result')
         origin == [instruction |-> Instruction, accounts |-> call.accounts,
                    env |-> harness, index |-> place, result |-> result']
     IN  directory' = Dumped(f, origin) /\ written' = Append(written, f)
  /\ Continue

(* The instruction runs and its fixture is written.                        *)
RunAndEject ==
  /\ Ran /\ ejecting # "off" /\ Ejectable(ejecting, Instruction, accounts)
  /\ LET f == FixtureOf(ejecting, Instruction, accounts, harness, result')
         origin == [instruction |-> Instruction, accounts |-> accounts,
                    env |-> harness, index |-> place, result |-> result']
     IN  directory' = Dumped(f, origin) /\ written' = Append(written, f)
  /\ Continue

(* The instruction runs, its fixture cannot be built.                      *)
EjectPanics ==
  /\ Ran /\ ejecting # "off" /\ ~Ejectable(ejecting, Instruction, accounts)
  /\ pc' = "panicked"
  /\ UNCHANGED <<directory, accounts, written>>

(* The test catches the panic.                                             *)
Catch ==
  /\ pc = "panicked" /\ pc' = "idle"
  /\ source' = Test /\ call' = NoCall /\ ejecting' = "off" /\ accounts' = <<>>
  /\ place' = 0 /\ result' = NoResult /\ written' = <<>>
  /\ UNCHANGED <<harness, directory>>

Format == {"off", "mollusk", "fd"}
Next ==
  \/ \E h \in Harness : SetHarness(h)
  \/ \E c \in Calls, format \in Format : BeginCall(c, format)
  \/ \E name \in DOMAIN directory : LoadPanics(name) \/ \E format \in Format : Replay(name, format)
  \/ CallPanics \/ RunOnly \/ RunAndEject \/ EjectPanics \/ Catch

Spec == Init /\ [][Next]_vars

-----------------------------------------------------------------------------
UniqueKeys(list) == \A i, j \in DOMAIN list : list[i].key = list[j].key => i = j

(* The addresses of the message in the order of the list.                  *)
Aligned(f, ix) ==
  \A i \in DOMAIN ix.metas :
    f.metas[i].index \in DOMAIN f.accounts /\ f.accounts[f.metas[i].index].key = ix.metas[i].key

(* What the instruction read is in the fixture.                            *)
ViewKept(f, o) ==
  CASE o.instruction.reads = "nothing" -> TRUE
    [] o.instruction.reads = "index" -> o.index = 0
    [] o.instruction.reads = "costs" ->
         f.format = "mollusk" \/ o.env.costs = DefaultCosts
    [] o.instruction.reads = "features" -> o.env.features \cap Omitted = {}
    [] o.instruction.reads = "limit" -> TRUE
    [] o.instruction.reads = "clock" -> f.format = "mollusk"
    [] OTHER -> FALSE

Replayable(f, o) ==
  /\ ViewKept(f, o)
  /\ f.format = "mollusk" => o.result.outcome \notin UnknownError \ {InvalidError}
  /\ f.format = "fd" => Aligned(f, o.instruction) /\ UniqueKeys(f.accounts)

(* A replay gives the result of the call that ejected the fixture and      *)
(* agrees with the fixture's effects, whatever the test has done to the    *)
(* harness and has replayed in between, and wherever in a chain it stood:  *)
(* if what the program read is in the fixture and, in Firedancer's format, *)
(* the account list is in the order of the message.                        *)
ReplayReproduces ==
  Replaying /\ pc = "idle" /\ Replayable(source.fixture, source.origin) =>
    result = source.origin.result /\ result = Expected(source.fixture)

(* A fixture's effects are read as the result that it was made of, unless  *)
(* the error has no number or, in Firedancer's format, an address is twice *)
(* in the list.  Every Mollusk fixture that was written can be loaded, and *)
(* a file has the name of what was written to it last.                     *)
EffectsKept ==
  \A name \in DOMAIN directory :
    LET f == directory[name].fixture
        o == directory[name].origin
    IN  /\ (IF f.format = "mollusk" THEN o.result.outcome \notin UnknownError \ {InvalidError}
            ELSE UniqueKeys(f.accounts))
           => Expected(f) = o.result
        /\ f.format = "mollusk" => Loadable(f)
        /\ FileName(f) = name

(* The fixtures of a chain are those of its instructions, in order, each   *)
(* with the accounts that the one before is read to result in (see         *)
(* EffectsKept), the failing one last and among them.                      *)
ChainFixtures ==
  ejecting # "off" /\ pc # "panicked" =>
    /\ Len(written) = place
    /\ \A i \in 1..place :
         /\ i = 1 => written[i].accounts = call.accounts
         /\ i > 1 /\ (ejecting = "fd" => UniqueKeys(call.accounts)) =>
              written[i].accounts = Expected(written[i - 1]).accounts
         /\ written[i].program = call.instructions[i].program
         /\ Expected(written[i]).outcome # Success => i = place /\ pc = "idle"

(* harness/src/lib.rs: "Mollusk will serialize every invocation of         *)
(* `process_instruction` into a fixture".                                  *)
EveryInvocationEjected ==
  ejecting # "off" => Len(written) = place

(* fixture-fd/src/context.rs: the instruction accounts are the "Accounts   *)
(* to pass to the instruction."  They name the accounts that were passed,  *)
(* where all of these are in the list.                                     *)
FdInstructionKept ==
  \A name \in DOMAIN directory :
    LET f == directory[name].fixture
        ix == directory[name].origin.instruction
    IN  f.format = "fd" /\ MetaKeys(ix) \subseteq Keys(f.accounts) => Aligned(f, ix)
=============================================================================
