# TLA+ models of Mollusk

Mollusk is a test harness for Solana programs: it runs instructions against a
minified SVM, without a validator. These modules model the harness itself: what
it promises to a test about the accounts, results and environment around an
execution. The SVM and the programs under test are external: in the models a
program does anything the runtime lets a program do.

## The system

| Component | State | Operations | Hard parts |
|---|---|---|---|
| Instruction processor (`harness/src/lib.rs`, `compile_accounts.rs`, `instructions_sysvar.rs`) | `Mollusk` (program cache, sysvars, budget, features); per call: fallback accounts, sysvar cache, transaction context, result | `process_instruction`, `_chain`, `_transaction_instructions`, each with a `process_and_validate_` form; `add_program*`; `warp_to_slot` | partial writes of failing messages, views computed once per call and used for every element of a chain, indices that count from different places, duplicate keys, panics in the middle |
| `MolluskContext` (`harness/src/lib.rs`, `account_store.rs`) | account store (shared `Rc<RefCell<_>>`), `hydrate_store` | `with_context`, the six process calls, direct access to the store and to `mollusk` | stored accounts that go stale, callbacks that store while a call runs, failures and panics between load and store |
| Program cache (`program.rs`) | the SVM's cache (entries added, entries deployed), the harness's record of additions, the syscalls of programs to come | `add_program`, `add_builtin`, `load_program`, `get_program_elf_bytes`, generated accounts | cache and record have to agree; a `RefMut` is held while a message runs; what instructions deploy stays |
| Sysvars (`sysvar.rs`) | eight sysvars | `warp_to_slot`, assignment to fields, sysvar accounts, `setup_sysvar_cache` | `SlotHashes` under warps of any direction and length |
| Results (`result/src`) | none, apart from the result | `absorb`, `run_checks`, `compare_with_config` | early returns that differ between panicking and reporting mode |
| Fuzz fixtures (`harness/src/fuzz`, `result/src/fuzz.rs`, `fuzz/*`) | files | ejection of a call, `process_fixture`, conversions of two formats | conversions that lose information |
| Epoch stake (`epoch_stake.rs`) | stake per vote account | mock of a total stake, assignment, the sum that programs read | remainders, overflow of the sum |
| Register tracing (`register_tracing.rs`) | trace files | a callback after each invocation | files written over by later runs, the ELF's hash from the record and not from what ran |
| Bencher (`bencher/src`) | the Mollusk, benches; `compute_units.md`, `mx_compute_units.md` | `execute` of both benchers, `write_results`, `mx_write_results` | deltas against a table that may be old, panics before the report, programs that follow each other in one Mollusk |
| Command line (`cli/src`) | one or two Mollusks, the report | `execute-fixture`, `run-test`, the preload flags | early exits, one Mollusk for all fixtures, their order |
| Others: file search, feature table, errors, program helpers, test programs | | | I/O, tables and constructors |

How they interact: a test owns a `Mollusk` and calls it; each call reads the
program cache and the sysvars. It writes to the cache only what its instructions
deploy, and nothing to the sysvars. A `MolluskContext` wraps a
`Mollusk`: it builds the account list of a call from its store and the
environment, calls the processor and stores the resulting accounts. Everything
runs on the test's thread. What runs *between* the steps of a call are programs
and the callbacks around each invocation; what runs between calls is the test,
which may change every public field.

What makes each component correct:

- **Processor.** A message takes effect as a whole or not at all; the first
  failure ends the call and is reported at its place; the resulting list keeps
  the keys and the order of the given list; a program's views of its environment
  (clock account and clock syscall, instructions sysvar and its index, its own
  loader) agree with each other in every element of a chain; units add up.
- **Context.** A success is in the store as the last message left it, a failure
  leaves no trace, a call sees the environment as it is now.
- **Sysvars.** `SlotHashes` depends on where warps lead and not on how; it stays
  sorted, without duplicates and within its size; a test's hashes survive short
  warps.
- **Results.** The verdict is that of all checks taken together, in panicking as
  in reporting mode; a comparison finds every difference it is asked to look for.
- **Fixtures.** Replaying what a call ejected gives the result of that call.
- **Program cache, stake, tracing.** The record is what the SVM would run, but for
  what instructions have deployed; deployments stay; a program has the syscalls of
  the moment it was loaded; stakes add up; a trace is filed with the ELF that ran.
- **Bencher.** The newest table is what was measured last, its deltas are true, a
  run that fails writes nothing, a matrix has each program in its own column.
- **Command line.** Status and report are what the fixtures give one by one,
  whatever their order, as long as none of them changes a program.

## Modules

### `AtomicProcessing`: the promise of a call

A call opens with a plan, a sequence of units with the keys each may write. A
unit commits (the account list changes at its keys only, and keeps its keys and
order), or fails, which ends the call. The call may panic. This says what
the documentation of the transaction and chain calls says ("The result is
atomic", "account changes are persisted between invocations"), and nothing of
how it is done. The instructions sysvar is among the keys of every unit: the
runtime writes the index to it.

### `Processing`: the processor

One call at a time, as a program with a control point `pc`:

| `pc` | Action | Code |
|---|---|---|
| `idle` | `AddProgram`, `WarpToSlot` | `add_program*`, `warp_to_slot` |
| `idle` | `Begin`, `BeginPanics` | `get_account_fallbacks` (panics with `ProgramNotCached`), `setup_sysvar_cache` |
| `compile` | `CompileMessage`, `CompilePanics` | `compile_accounts`, `create_transaction_context` (panics with `AccountMissing`) |
| `invoke` | `InvokeProgram`, `InvokePrecompile`, `RejectInstruction` | the body of the loop in `process_transaction_message` |
| `deconstruct` | `DeconstructMessage`, `CheckPanics` | `deconstruct_resulting_accounts`, `deconstruct_inner_instructions`, `run_checks`, `absorb`, the loop of a chain |
| `returned`, `panicked` | `Return` | the caller takes the result or catches the panic |

The three calls share all of this and differ in how they cut instructions into
messages: one message of one instruction, one message per instruction, one
message with all. `Elements` and `Message` say so, and every difference between
the calls is stated with them: the top-level instruction index, the group of
inner instructions that is reported, the index of the failure. Fixture
ejection, which some builds do here, does not change the harness and is left out.

The order of two computations differs between the calls: `process_instruction`
and the transaction call set the sysvar cache up after compiling the accounts.
Both only read what no other step changes, so `Begin` does it for all three.

Data is abstract: an account is an owner and a payload, where the payload of
the clock is its slot and that of the instructions sysvar is a list of
instructions and an index. The clock stands for all sysvars, which take the same
paths. Owners matter because the runtime rejects programs without a loader and
instructions sysvars without the right owner.

External, and modelled by what the code relies on: `Message::new` (which keys a
message has and which of them are writable), `TransactionContext::push` (stores
the index, rejects a foreign instructions sysvar), the SVM (`InvokeProgram`: a
program leaves any writable, non-executable account changed, error or not, whoever
is its owner then, uses up to what is left of the units, makes CPIs;
`RejectInstruction`: it is given up before it runs). The features "precompiles" and
"inner-instructions" are on.

The index of a failure is a `u8`: `FailureCode` wraps it around at `IndexCount`. The
instructions sysvar counts and points in sixteen bits, for which the model has no
limit: it is about calls whose instructions and their data fit there.

`log` is history: the invocations of the call. No action reads it.

The recursive sum of a sequence is a module of its own (`Sums`), which `Environment`
shares.

### `MolluskContext`: the context

EXTENDS `Processing` with `store` and `hydrate`. `ContextBegin` loads the list
(`Load` is `load_accounts_for_instructions`) and begins the call; `ContextReturn`
ends it and consumes the result. The test may store accounts between calls and,
from a callback, around each invocation, because the store is only borrowed
while loading and consuming. `ChangeEnvironment` and `SetHydrate` are the test
using the public fields.

### `Sysvars`: warps

`clock` and `slotHashes`, with `warp_to_slot` as the code has it (rebuild for
a delta above the size of the list, otherwise fill from the newest entry) and a
test that assigns `SlotHashes` and timestamps of its own. `SlotHashes::add` and
the epoch schedule are external.

### `Results`: checks and comparisons

`run_checks` and `compare_with_config` are loops over a list that the test
writes. Both use the macros `compare!` (a mismatch panics or leaves the loop,
by `config.panic`) and `throw!` (a failure panics, or is noted and the loop
goes on), so one action `Item` does for both, with what mismatches and what is
thrown as its parameters: `CheckOne` and `CompareOne`. `Mismatch` and `Thrown`
say which check fails in which way; a check of an account may do either. The
comparison of accounts is a function of its own, so a mismatch there only leaves
that function (`DifferentAccounts` is treated as thrown).

`self` and `other` are results as the processor makes them; `inner` has the
number of CPIs of each top-level instruction, one for the result of an
instruction. A requirement on an account is a record with the fields that were
set, since the last call on an `AccountCheckBuilder` for a field stands.
`is_rent_exempt` has rent as constants, which covers the default context and that
of a `Mollusk`. A closed account is the default one in all its fields, `rent_epoch`
included, which comparisons do not look at. The end of a slice is a sum that does not
overflow: the code adds unchecked, and an offset near the end of `usize` is left out. The processor calls `run_checks` with the test's configuration and
ignores the verdict: all that reaches its caller is the panic (`CheckPanics` in
`Processing`).

### `Fixtures`: ejection and replay

A call runs instruction by instruction (`RunOnly`, `RunAndEject`), each with the
accounts that the one before resulted in, as `process_instruction` and
`process_instruction_chain` do; with ejection on, each writes a fixture into
`directory`. `Replay` sets the harness up from a file (`LoadedHarness`) and runs its
instruction, which may be ejected again. Between calls the test puts the harness
into any of its states (`SetHarness`). `FixtureOf` and `Expected` are the two
directions of the conversions, for Mollusk's own format and Firedancer's:

| | Mollusk | Firedancer |
|---|---|---|
| instruction accounts | first position in the account list (`MetaIndices`) | position in the compiled message (`MessageIndices`) |
| read as | position in the account list | position in the account list |
| budget | all of it | the limit |
| sysvars | all but `LastRestartSlot`, which becomes the default | none |
| error | a number, one for all that `ProgramError` does not know | the error |
| accounts | those of the result | those that have changed (`ModifiedAccounts`, `Restored`) |
| file name | hash of all but the return data | hash of all |

Missing accounts panic: before the instruction runs (`CallPanics`), while its
fixture is built (`EjectPanics`) or read (`LoadPanics`). What a program does is
external and simple here, a transfer of one lamport that returns one thing it
reads: of what a fixture carries (`Carried`) or of what it does not. It has the rights
that the message gives its accounts, those of all mentions (`Signs`, `Writes`), which is
also what the Firedancer format writes. `origin`, kept beside each fixture, is history.

### `Environment`: program cache, stake and tracing

What a message takes from its Mollusk, message by message and test by test:

| `pc` | Action | Code |
|---|---|---|
| `test` | `AddProgram`, `AddBuiltin` | `add_program`, `add_builtin`: `Replenish` writes the record and the SVM's entry |
| `test` | `RegisterSyscall`, `SetFeatures`, `SetEpochStake` | public fields; `MockEpochStake` is `create_mock_epoch_stake` |
| `test` | `BeginMessage`, `BeginPanics` | `get_loader_key` of the fallbacks, then the borrow of the cache |
| `invoke` | `Invoke`, `InvokeMissing` | the SVM runs the instruction, which may deploy, and may fail |
| `invoke` | `ReadTotalStake`, `TotalStakePanics` | `get_epoch_stake`, in a build that checks overflow or not |
| `after` | `AfterInvocation` | `after_invocation` (`Collected`, `Persist`), then the next instruction or the end |
| `invoke`, `after` | `CallbackBorrows` | a callback that goes through the Mollusk to the borrowed cache panics |
| `invoke` | `EndMessage` | the borrow ends |
| `panicked` | `NewTest` | a new Mollusk; the trace files stay |

The SVM's cache has two parts: `loaded`, which the harness fills, and `modified`,
which instructions fill by deploying and closing, and which is looked up first. The
harness never merges them. The runtime shows a program from the slot after its deployment
on, and the harness runs its messages at slot 0: what is deployed with the clock at 0 stays
invisible, which is an entry with `NoElf`, as a closed program's is. `Processing` has the accounts of a message and no cache
but the loaders; here it is the other way round, so the two models meet in
`load_program` only. An ELF stands for the trace it leaves.

### `Reports` and `Bencher`: tables of compute units

`Reports` has the pure part: a file is a sequence of tables, newest first, and
`write_results` adds one if a row is new or has other units than the row of that name
in the newest table. Layout is left out except for what it does to names, which have no
line breaks: reading a table back trims them (`Trimmed`), and a bar in a name ends it.
What follows the bar is then taken for the units: if it is a number (`Inset`, as in
"transfer|5"), the row is read as another bench with these units, if not (`Barred`),
reading panics.

`Bencher` runs both benchers over it: `Execute`, `RunBench` and `WriteResults` are
`execute` of the one, `ExecuteMatrix`, `StartColumn`, `RunBench`, `EndColumn` and
`WriteMatrix` that of the other, `BenchPanics` and `WritePanics` end either. Between
executions the programs are built anew (`Rebuild`). Instructions are external: an
instruction has units, a verdict and deployments for all that can be at the addresses it
reaches (`Reaches`), that of its program and those of its CPIs. So one Mollusk, with what
was added to it and what instructions have deployed since (`cache`, `deployed`), is
behind all benches, and a matrix that borrows it leaves it changed. `lent`, what was there
when the bencher was made, is history.

### `Runner`: the command line

One command after the other, on one report file. `Setup` is `main` up to `run_all`
(the preloads in three loops, one for each flag, the tested ELF after them, the checks, the paths in the order of
`read_dir`), `SetupFails` its errors; `RunGround`, `RunTarget` and `EndFixture` are
`run` for one fixture, `RunPanics` the panics in it; `ExitFailed`, `Report` and
`ReportPanics` are the end of `run_all`. A fixture is what `Fixtures` makes of it: the
programs it reaches, the one it calls and those of its CPIs, a recorded result, and, for
all that the Mollusk can have at these addresses, its result (`Outcome`) and what it
deploys or closes (`Deploys`, as in `Environment`). A program that is neither cached nor among
its accounts panics, as `Missing`.

A command ends with status 0, with 1 for fixtures that fail and a config file that does
not load, or with 101, that of a panic: a config path without an extension (`NoExtension`,
whose extension is unwrapped), a program that cannot be added (`Absent`: there is no such
file, or the loader rejects it), a fixture that cannot be decoded, a report that
cannot be read. The directories of fixtures can be read.

## What is checked

| Run | Instance | Shows |
|---|---|---|
| `MCProcessing.cfg` | 8 calls (single, chains and transactions of 0 to 3 instructions, two of them validating) on 5 account lists, two programs, a precompile, two slots, one unit and one CPI | `TypeOK`, `RunsInOrder`, `UnitsAccounted`, `IntrospectionTruthful`, `FallbacksCover`, `CachedProgramsRun`, `ClockViewsAgree`, `DuplicatesAgree`, `InnerReportedByMessage`; the processor implements `AtomicProcessing` (`AtomicCalls`) |
| `MCMolluskContext.cfg` | 3 calls, 2 initial stores, 3 writes by the test, warps, added programs, hydration on and off | `ContextTypeOK`, `EnvironmentFresh`, `ContextNeverMissing`, `ContextIntrospection`, `StoreReflectsExecution`, `FailureKeepsStore` |
| `MCSysvars.cfg` | warps to slots 0 to 12, a list of 3, and 4 lists of the test's own | `HashesAreAWindow`, `HashesSorted`, `ForwardWarpFills`, `ShortWarpKeepsHashes` |
| `MCResults.cfg` | 7 lists of checks and 6 of comparisons on 7 results, of instructions and transactions, in both modes | `ChecksDecide`, `ComparisonDecides` |
| `MCFixtures.cfg` | 14 calls of one or two instructions, two states of the harness that differ in everything, two files, both formats | `ReplayReproduces`, `EffectsKept`, `ChainFixtures` |
| `MCEnvironment.cfg` | the upgradeable loader and two programs, two ELFs, one gated and one custom syscall, u64s of three bits, 3 messages, deploying and closing, both kinds of callback, with and without overflow checks | `EnvironmentTypeOK`, `RecordAgrees`, `SyscallsBoundAtLoad`, `DeploymentStays`, `TracesOfTheirElf`, `StakeExact` |
| `MCBencher.cfg` | two builds of two programs, five instructions on two addresses with a CPI into the matrix's program, a deployment and a closing, 7 lists of benches with plain, repeated, padded and barred names, matrices of two programs and of none, three tables in all | `LedgerTrue`, `UnchangedWritesNothing`, `FailureWritesNothing`, `MatrixCells` |
| `MCRunner.cfg` | 159 command lines of both kinds on sets of up to three fixtures of seven and a file that is none, two ELFs, two addresses, a CPI, a fixture that deploys under one ELF and closes under the other, three lists of preloads, two tables | `FixturesIsolated`, `VerdictOfFixtures`, `ReportOfTarget` |
| `MCInner.cfg` | as `MCProcessing.cfg` | `InnerReported` is violated, see below |
| `MCCpiCount.cfg` | as `MCResults.cfg` | `AllCpisCounted` is violated, see below |
| `MCEjection.cfg`, `MCFdAccounts.cfg` | as `MCFixtures.cfg` | `EveryInvocationEjected` and `FdInstructionKept` are violated, see below |

**Bounds.** Three instructions are one more than it takes for an element of a
chain, or an instruction of a transaction, to come after a success and before
another; what one message hands to the next is the account list, whose possible
contents are all reached with two accounts and two payloads. The lists hold what
tells lookups apart: duplicate keys with different contents, program accounts
with and without a loader, foreign and stale instructions sysvars, an account
missing for some instructions. One unit and one CPI tell sums and counts from
last values. `IndexCount` is 2 in place of 256, so that the failure of a third
instruction wraps around. In `Sysvars`, slots reach four times the size of the list, so that
warps shorter than, equal to and longer than it follow each other in both
directions. The context runs without units or CPIs, which it does not look at. In `Results`,
lists of up to three items fail nowhere, first, last and more than once, in both
ways; the results differ from each other in one thing each, and include accounts
in another order, missing, and twice at one address. In `Fixtures`, two files hold
a chain's fixtures or those of two calls, of the same or of different formats, and
let a replay follow another replay; each thing that a program reads is read by some
call; the lists hold an unused account, an address twice, in a chain too, one that is
missing, and orders that agree and disagree with the message; one instruction mentions an
address twice, with different rights. In `Environment`, two instructions
let one deploy what the next runs, a callee and its caller end in one message, and
stakes reach beyond the three bits by one addition; the panicking test is followed by
others in the same trace directory. In `Bencher`, three tables let an execution change
nothing, change and change back, and a matrix borrow the Mollusk that another leaves. In `Runner`, two fixtures fail first or last, of
three one deploys what the second calls and the third reaches by a CPI, before or after
them, and the two ELFs differ in units only, in the effect only, or in nothing a fixture
shows.

**Assumptions on inputs.** `WellFormed` lists: what a caller passes at the
clock's address is a clock, and an instructions sysvar with the right owner has
the right layout. In `EnvironmentFresh`, a store that has a clock of its own
wins when hydration is off: that is what turning it off is for, and such a clock
keeps its slot over later warps. `ReplayReproduces` is about fixtures with all
that their instruction read (`ViewKept`: not the stake, the restart slot, the place
in a chain, or a test feature) and, in Firedancer's format, whose list is in the
order of the message (`Aligned`), without an address twice. What an instruction reads of
its own metas in the instructions sysvar is not among the things read. `EffectsKept`
leaves out errors without a number, all of which are read as `InvalidError`.

**No fairness, no liveness.** A call and a command are straight-line code on one thread:
loops over finite lists, no retries and nothing to wait for, and programs under a compute
budget. That they end follows from this shape and from nothing the code does about it, so
it is not stated. How they end is: `RunsInOrder` and `VerdictOfFixtures` say
what has been done by then. `ContextNeverMissing` and `FallbacksCover` rule out the panics
of a call that a test does not expect.

**Deadlock** is checked in every run; the test can always do something.

### Where the documents say otherwise

- `README.md` says of inner instructions that every `InstructionResult` has "a
  vector of all CPIs that occurred during execution". A chain's element runs in a
  transaction context of its own, whose trace has one group, and the code takes
  the group at the element's index in the chain: every element after the first
  reports none (`InnerReported`, `MCInner.cfg`). `InnerReportedByMessage` shows
  that the other two calls report them.
- The doc comment of `Check::inner_instruction_count` says "the number of inner
  instructions (CPIs) invoked during execution". Of a transaction only those of
  the first instruction are counted (`AllCpisCounted`, `MCCpiCount.cfg`).
- The crate's documentation says that Mollusk "will serialize every invocation of
  `process_instruction` into a fixture". An instruction that names its own program,
  which the call takes from the fallbacks, runs and succeeds, and its ejection panics
  (`EveryInvocationEjected`, `MCEjection.cfg`).
- A Firedancer fixture says "Accounts to pass to the instruction" of what the writer
  fills with positions in the compiled message and the reader looks up in the account
  list. Unless the list is in the order of the message, the replayed instruction has
  other accounts (`FdInstructionKept`, `MCFdAccounts.cfg`).

Other observations:

- A warp resets the hash of the newest entry and the clock's timestamps. A warp
  backward leaves the entries at and above the target in `SlotHashes`, where a comment
  says the target is not included.
- A precompile in a transaction sees its own instruction's data only.
- `OnlyResultingAccounts` pairs accounts by position and as far as the shorter list
  goes, so that an address which only one result has passes. For results of the same
  accounts in the same order, each address once, `ComparisonDecides` shows the
  comparison exact.
- A program that an instruction has deployed goes on running after `add_program` under
  its address, and after its message has failed (`DeploymentStays`). Register tracing
  then files the trace with the hash of the ELF that was added.
- A program which is added has the syscalls of all features whatever `feature_set` is,
  and one that is deployed has none of those a test has registered
  (`SyscallsBoundAtLoad`).
- A transaction reports the index of its failure as a `u8`, while the trace length, a public
  setting of the compute budget, may allow more instructions: a failure of the 257th is
  reported as one of the first. `RunsInOrder` leaves out failures at places beyond
  `IndexCount`, and is exact for all others.
- Names of benches are written and looked up as they are, and read back trimmed: a name with
  a space at an end is "new" in every table, although it has a previous value.
- Two benches of one name get a new table at every execution if their units differ: the
  second is compared with the first one's row (`UnchangedWritesNothing`).
- A name with a bar is written. If a number follows the bar, it is read back as a bench
  with the name before the bar and that number for its units, of which the next execution may
  have a delta; if not, the next execution panics before anything is written
  (`LedgerTrue` and `ReportOfTarget` leave tables with a number out).
- A matrix adds each program under the id that the first bench calls. A bench that calls another
  address takes the same units in every column, unless it reaches that id by a CPI; and
  a bench that deploys or closes a program changes all that run after it, in its column and
  in later ones (`MatrixCells` leaves these matrices out).
- The effects of a Firedancer fixture are wrong for an account list that has an address
  twice, of which one entry is not the account that results: the second entry is written
  as modified, and both are read as the first (`ChainFixtures` leaves these lists out).
- The verdict on a fixture that calls, or reaches by a CPI, a program which a fixture
  deploys or closes depends on the order in which the directory yields the two
  (`VerdictOfFixtures` and `ReportOfTarget` leave these out, `FixturesIsolated` says what
  the result can be).

## What is proved

TLAPS checks every safety property of every passing run for all values of the constants
that satisfy the modules' assumptions: any calls, accounts, benches, commands or
fixtures, of any length and number. Eight modules hold the proofs:

| Module | Theorems | Property |
|---|---|---|
| `ProcessingProofs`, the processor | `TypeCorrect` | `TypeOK` |
| | `Order` | `RunsInOrder` |
| | `ClockAgreement` | `ClockViewsAgree` |
| | `DuplicateAgreement` | `DuplicatesAgree` |
| | `FallbackCoverage` | `FallbacksCover` |
| | `Accounting` | `UnitsAccounted` |
| | `TruthfulIntrospection` | `IntrospectionTruthful` |
| | `StubsRun` | `CachedProgramsRun` |
| | `InnerOfLast` | `InnerReportedByMessage` |
| | `Atomicity` | `AtomicCalls`: `Processing` implements `AtomicProcessing` |
| the same module, the context | `ContextTyped` | `ContextTypeOK` |
| | `FreshEnvironment` | `EnvironmentFresh` |
| | `NothingMissing` | `ContextNeverMissing` |
| | `StoreCannotMislead` | `ContextIntrospection` |
| | `Persistence` | `StoreReflectsExecution` |
| | `FailureIsolated` | `FailureKeepsStore` |
| | `ContextAtomicity` | the calls of a context implement `AtomicProcessing` |
| `SysvarsProofs` | `PathIndependence` | `HashesAreAWindow` |
| | `SearchableHashes` | `HashesSorted` |
| | `NoGap` | `ForwardWarpFills` |
| | `HashesPersist` | `ShortWarpKeepsHashes` |
| `ResultsProofs` | `ChecksDecision` | `ChecksDecide` |
| | `ComparisonDecision` | `ComparisonDecides` |
| `FixturesProofs` | `Reproduction` | `ReplayReproduces` |
| | `EffectsTruth` | `EffectsKept` |
| | `ChainOrder` | `ChainFixtures` |
| `EnvironmentProofs` | `EnvironmentTyped` | `EnvironmentTypeOK` |
| | `RecordAgreement` | `RecordAgrees` |
| | `SyscallBinding` | `SyscallsBoundAtLoad` |
| | `ExactStake` | `StakeExact` |
| | `DeploymentPersists` | `DeploymentStays` |
| | `TracedElf` | `TracesOfTheirElf` |
| `BencherProofs` | `Ledger` | `LedgerTrue` |
| | `ReasonToWrite` | `UnchangedWritesNothing` |
| | `NothingAfterFailure` | `FailureWritesNothing` |
| | `CellsOfTheirPrograms` | `MatrixCells` |
| `RunnerProofs` | `Isolation` | `FixturesIsolated` |
| | `Verdict` | `VerdictOfFixtures` |
| | `Reporting` | `ReportOfTarget` |
| `SumProofs` | lemmas on sums, sequences and induction for all of the above | |

Each module goes the same way: an inductive invariant, one lemma for the initial states
and one for a step with a case for each action, then the properties from the invariant.
What the invariants add to the properties is what a step relies on from earlier ones.

**`IInv`, `HInv`** (processor; `Invariance` and `History`).

- `Clean`, `Placed`: between calls the locals are as new; in a call `element` and
  `next` point into the call.
- `ListKept`: the account list keeps the keys and the order of the given list, and
  stays well formed. So lookups end at the same entry before and after a message
  (`SameLookups`), which is why fallbacks that were computed for the given list
  still cover a later message.
- `ClockKept`: the first clock of the list has the slot that the sysvar cache was
  given. It is kept because no program can write an account of the sysvar owner,
  and this is why the clock account agrees with the syscall.
- `ContextKept`, `FrameKept`: the context has exactly the message's keys, and what
  the message may not write is in it as in the list. With it, a commit only
  changes the keys of its unit (`Atomicity`).
- `LogKept`: how many instructions have run, by `element` and `next`, and that
  only the last can have failed.
- `HInv`: the units of the log are those of the result and of the message at hand; in a
  message that is a whole call, the CPIs counted are those of the log, one by one; an
  instructions sysvar that the harness made has the call's instructions and the index
  of the one that ran last; the account of a program that the test has not given keeps
  the loader of the cache.

**`CInv`** (context; `ContextInvariance`) has both of these, since a context makes the
processor's calls with lists of its own, and: the list has all that the instructions name
but the instructions sysvar, and nothing twice that they do not name (`LoadKept`); the
environment's accounts come first and no message changes them (`FreshKept`); after a
success the list is what the last message left (`StoredKept`).

**`SInv`** (`SysvarsInvariance`): the list is sorted, and only the zeros of the default
list are in it twice. `SlotHashes::add` looks a slot up by bisection, so that it needs
the order which it keeps.

**`VInv`** (`ResultsInvariance`): in the loop, `pass` is the verdict on the items so far,
all of which have passed if a failure panics. The lemmas below it show that what
`compare!` and `throw!` make of one item is that item's definition.

**`FInv`** (`FixturesInvariance`): a file's fixture is that of its origin, an execution
(`FilesMade`); a replay has set what the fixture has, and nothing that its instruction
reads from elsewhere (`SourceKept`); a chain's next accounts are those that its latest
fixture is read to result in (`ChainKept`). `ModifiedRestored` is the lemma on
Firedancer's effects: the modified accounts, put back by key, give the resulting list.

**`EInv`** (`EnvironmentInvariance`): the record and the harness's part of the cache are
written together (`RecordKept`); syscalls are added only, and an instruction deploys with
those of the features (`SyscallsKept`); the sum that a program has read is that of a map
which does not change while a message runs (`StakeKept`, with `MockStakeExact` on the
mock's remainders); a trace not yet written is of an ELF that the record has, or of one
that was deployed (`TracesKept`).

**`BInv`** (`BencherInvariance`): no failure is counted where all must pass; the matrix
changes the borrowed Mollusk at the address of its first bench, and at others only by
what benches deploy (`Borrowed`), its columns before the current one are complete, and
what has run and what is still to run of the current one make up the benches
(`MatrixKept`).

**`RInv`** (`RunnerInvariance`): what was added to a Mollusk is what the command line says,
the tested ELF last, and what has been deployed is from a fixture before
(`MollusksKept`); so a fixture meets what `FixturesIsolated` allows, and exactly what the
command line says if no fixture touches the programs it reaches (`Undisturbed`). Results
are those of what is met (`ResultsKept`), rows and failures those of the fixtures run alone,
where none is disturbed (`BenchesKept`, `FailuresKept`).

Each of these was first checked by TLC as an invariant of the module's run.

**Assumptions.** The assumptions on constants say what kinds of addresses, errors and
programs there are and that they are distinct, and that calls, lists, benches and commands
have the right shape: lists are finite sequences, a command's directory and the keys of a
store are finite sets (`RunnerAssumption`, `FiniteKeysAssumption`), numbers have the
ranges of their types (`StakeAssumption`). Those which say more than that:

- `SyscallsAssumption`: a test registers syscalls under names that no feature has.
- `UserListsAssumption`: a list that a test assigns to `SlotHashes` is sorted, as
  `SlotHashes::new` makes it, with each slot once and no longer than the sysvar is.
- `ErrorAssumption`: no error has the number 0, which stands for success, and none that has
  a number has the one of all errors without (`u64::MAX`). The numbers are
  `ProgramError`'s own, where `Custom(0)` is not 0 either.
- `MissingAssumption`, `New \notin Int` and the like: a value that stands for `None` is
  none of the values.

TLC evaluates all of them in the runs.

**Induction.** What a loop adds up or loads is a recursive function of the prefix length
(`PrefixSums` in `Sums`, `Loads` in `Runner`, `Fillings` in `Sysvars`, `CellsUpTo` in
`Reports`, `Collections` in `Environment`). The proofs show that each definition defines
a function (as `PrefixSumsDefined` does) and reason about it with `InductiveSet`: a set of
naturals with 0 and every successor is `Nat`. The library's induction takes an operator as
its parameter, which the provers cannot instantiate.

**What the proofs have changed.** Two statements that TLC had passed turned out false of
other instances, and one weaker than need be:

- `UnchangedWritesNothing` did not hold of a newest table with several rows of one name.
- `ChainFixtures` did not hold in Firedancer's format of a chain whose list has an address
  twice that no instruction names: the second entry differs from the resulting account of
  its address, is written as modified, and both are read as the first. The run now has
  such a chain.
- `ReplayReproduces` was restricted to instructions that ask for the same rights at each
  mention of an address, because the model took the rights of one mention. The message
  merges them, and the restriction is gone.

**Model-checked only**: the violations above, which are counterexamples. Every property
of a passing run is proved.

## Not modelled

Logging, execution times, rent, the layout of accounts, ELF loading and verification,
the table of feature flags, and the components of the table above without a module. Of
fixtures: partial validation (which is `CompareWithConfig` of `Results`), the choice
between blobs and JSON, seed addresses, metadata, execution time in the hash of a file,
collisions of hashes and of eight-byte feature numbers. Of the `RefCell`s: the program
cache's borrow is in `Environment`; the account store's is taken and given back within
single steps of `MolluskContext`, where nothing else runs. Of the
command line: how clap reads arguments, keys that do not parse, what is printed, and
files that vanish while the command runs. Of register tracing: the contents of traces
and errors of the file system. The search for ELF files and protobuf encoding are I/O
or generated code and will stay out, as will the vendored programs and the programs
under test, which the models replace by anything the runtime allows.

## Plan

All modules are written and all of their safety properties proved. What could follow:

1. A common statement of the two views of a program's lookup, that of `Processing` (an
   account's loader) and that of `Environment` (the cache's entry), which meet in
   `load_program` only.
2. An end of a slice with the width of `usize` in `Results`, whose overflow panics in one
   build and wraps around in the other.
