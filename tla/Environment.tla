----------------------------- MODULE Environment -----------------------------
(***************************************************************************)
(* What a running message takes from its Mollusk: the program cache        *)
(* (harness/src/program.rs), the epoch stake (harness/src/epoch_stake.rs)  *)
(* and the callback around every invocation, of which register tracing     *)
(* (harness/src/register_tracing.rs) is the one the harness brings along.  *)
(*                                                                         *)
(* A message borrows the cache of the SVM for as long as it runs.  Its     *)
(* callbacks get the same Mollusk; what borrows that cache again panics,   *)
(* what reads the record the harness keeps beside it does not.             *)
(*                                                                         *)
(* External: the SVM looks a program up among those that instructions have *)
(* deployed before those the harness added, and only the harness could     *)
(* merge the two, which it never does.                                     *)
(***************************************************************************)
EXTENDS Integers, Sequences, FiniteSets, Sums

CONSTANTS
  Program,            \* program addresses
  Loader,             \* loader keys, owners of programs
  NativeLoader,       \* the loader of builtins
  UpgradeableLoader,  \* LOADER_V3: a loader, and the builtin that deploys
  Elf,                \* program files
  NoElf,              \* of a builtin, a closed or a not yet visible program
  Missing,            \* not in a map, or nothing
  Gated,              \* syscalls that features switch on and off
  Custom,             \* syscalls that a test registers
  Builtins,           \* the programs cached from the start
  Additions,          \* the <<program, loader, elf>> a test adds
  BuiltinAdditions,   \* the builtins a test adds
  FeatureSets,        \* the features a test may set
  Deployments,        \* the <<program, elf>> an instruction deploys
  Messages,           \* the messages that run
  U64,                \* number of values of a u64
  Base,               \* BASE_STAKE_PER_ACCOUNT
  Targets,            \* totals passed to create_mock_epoch_stake
  Stakes,             \* stakes that a test gives to one more vote account
  MaxVotes            \* bound: vote accounts

(* What the harness records of a program, and what the SVM caches of it:   *)
(* the syscalls it may use were bound when it was loaded.                  *)
CacheEntry == [loader_key : Loader, elf_bytes : Elf \cup {NoElf}]
ProgramCacheEntry ==
  [owner : Loader, elf : Elf \cup {NoElf}, syscalls : SUBSET (Gated \cup Custom)]

(* A syscall of a test's own has a name that no gated one has: all of      *)
(* those are in the environment from the start.                            *)
ASSUME SyscallsAssumption == Gated \cap Custom = {}

ASSUME MissingAssumption == Missing \notin CacheEntry \cup ProgramCacheEntry

(* An instruction names a program, and may name one more that it calls;    *)
(* `given` says that the test passes the program's account itself.         *)
Instruction ==
  [program : Program, callee : Program \cup {Missing}, given : BOOLEAN]

ASSUME ProgramsAssumption ==
  /\ UpgradeableLoader \in Program \cap Loader /\ NativeLoader \in Loader \ Program
  /\ UpgradeableLoader \in Builtins /\ Builtins \subseteq Program
  /\ NoElf \notin Elf /\ Missing \notin Program
ASSUME InputsAssumption ==
  /\ Additions \subseteq (Program \ Builtins) \X Loader \X Elf
  /\ BuiltinAdditions \subseteq Program
  /\ FeatureSets \subseteq SUBSET Gated
  /\ Deployments \subseteq (Program \ Builtins) \X (Elf \cup {NoElf})
  /\ Messages \subseteq Seq(Instruction)
ASSUME StakeAssumption ==
  /\ U64 \in Nat \ {0} /\ Base \in 1..(U64 - 1)
  /\ MaxVotes \in Nat
  /\ Targets \subseteq 0..(U64 - 1) /\ Stakes \subseteq 0..(U64 - 1)

VARIABLES
  entries_cache,   \* the record of the harness: program -> CacheEntry
  loaded,          \* the SVM's entries: program -> ProgramCacheEntry
  modified,        \* the SVM's modified entries, deployed by instructions
  borrowed,        \* a message holds the RefMut of the SVM's cache
  program_runtime_environment,  \* the syscalls of programs added from now on
  feature_set,     \* the features of messages: the gated syscalls they enable
  epoch_stake,     \* vote account -> stake
  inspector,       \* the callback: "tracing", or the test's "own", if any
  overflow_checks, \* the build panics when an addition overflows
  pc,              \* "test", "invoke", "after" or "panicked"
  message,         \* the instructions still to run
  failed,          \* the instruction that ran last has failed
  vm_traces,       \* the programs the VM has run for this message, in order
  total_stake,     \* the total that a program of this message was told
  trace_dir,       \* files: trace -> what they say of the program and its ELF
  panic            \* why the test panicked

cacheVars == <<entries_cache, loaded, modified>>
settings == <<program_runtime_environment, feature_set, epoch_stake, inspector,
              overflow_checks>>
running == <<pc, message, failed, vm_traces, total_stake, panic>>
vars == <<entries_cache, loaded, modified, borrowed, program_runtime_environment,
          feature_set, epoch_stake, inspector, overflow_checks, pc, message,
          failed, vm_traces, total_stake, trace_dir, panic>>

-----------------------------------------------------------------------------
(* Epoch stake.                                                            *)

Total(stake) == SumOf(stake)

\* Mutant: the last account does not get the remainder.
MockWithoutRemainder(target) ==
  [vote \in 1..(target \div Base) |-> Base]

(* create_mock_epoch_stake: new vote accounts of the base stake each, the  *)
(* last with the remainder; a total below the base makes one account.      *)
MockEpochStake(target) ==
  LET accounts == target \div Base
  IN  CASE target = 0 -> <<>>
        [] target # 0 /\ accounts = 0 -> <<target>>
        [] OTHER -> [vote \in 1..accounts |->
                       Base + IF vote = accounts THEN target % Base ELSE 0]

-----------------------------------------------------------------------------
(* The program cache.                                                      *)

(* The SVM's lookup, which load_program uses too.  The slot of the cache   *)
(* is always 0, whatever the clock says: to a program that is deployed     *)
(* while the clock is at slot 0 the SVM gives a tombstone, as to one that  *)
(* has been closed, because a deployment is visible from the next slot on. *)
(* Both have NoElf here.                                                   *)
Find(p) == IF modified[p] # Missing THEN modified[p] ELSE loaded[p]

Cached(p) == Find(p) # Missing

(* A program that has been closed, or that was deployed at slot 0, is      *)
(* cached, but does not run; a builtin runs outside the VM.                *)
InVM(p) == Cached(p) /\ Find(p).elf # NoElf
Runnable(p) == Cached(p) /\ (Find(p).elf # NoElf \/ Find(p).owner = NativeLoader)

(* get_program_elf_bytes reads the record of the harness only.             *)
ElfBytes(p) ==
  IF entries_cache[p] = Missing THEN NoElf ELSE entries_cache[p].elf_bytes

\* Mutant: the record keeps the first program added under an id.
ReplenishOnce(p, entry) ==
  /\ loaded' = [loaded EXCEPT ![p] = entry]
  /\ entries_cache' = [entries_cache EXCEPT
       ![p] = IF @ # Missing THEN @
              ELSE [loader_key |-> entry.owner, elf_bytes |-> entry.elf]]
  /\ UNCHANGED modified

\* Mutant: what an instruction has deployed makes way as well.
ReplenishAll(p, entry) ==
  /\ entries_cache' = [entries_cache EXCEPT
       ![p] = [loader_key |-> entry.owner, elf_bytes |-> entry.elf]]
  /\ loaded' = [loaded EXCEPT ![p] = entry]
  /\ modified' = [modified EXCEPT ![p] = Missing]

(* replenish: the harness records the program, and the SVM's entry is      *)
(* replaced.  What instructions have deployed stays.                       *)
Replenish(p, entry) ==
  /\ entries_cache' = [entries_cache EXCEPT
       ![p] = [loader_key |-> entry.owner, elf_bytes |-> entry.elf]]
  /\ loaded' = [loaded EXCEPT ![p] = entry]
  /\ UNCHANGED modified

BuiltinEntry == [owner |-> NativeLoader, elf |-> NoElf, syscalls |-> {}]

NewEntries ==
  [p \in Program |-> IF p \in Builtins
                     THEN [loader_key |-> NativeLoader, elf_bytes |-> NoElf]
                     ELSE Missing]
NewLoaded == [p \in Program |-> IF p \in Builtins THEN BuiltinEntry ELSE Missing]
NewModified == [p \in Program |-> Missing]

(* Mollusk::default or new_debuggable: all features on, the builtins       *)
(* cached, no stake.                                                       *)
Init ==
  /\ entries_cache = NewEntries /\ loaded = NewLoaded /\ modified = NewModified
  /\ borrowed = FALSE
  /\ program_runtime_environment = Gated /\ feature_set = Gated
  /\ epoch_stake = <<>>
  /\ inspector \in {"tracing", "own"}
  /\ overflow_checks \in BOOLEAN
  /\ pc = "test" /\ message = <<>> /\ failed = FALSE /\ vm_traces = <<>>
  /\ total_stake = Missing /\ panic = Missing
  /\ trace_dir = [elf \in {} |-> Missing]

-----------------------------------------------------------------------------
(* What a test does between messages.                                      *)

\* Mutant: the environment is rebuilt from the features of the moment.
RebuiltSyscalls == feature_set \cup (program_runtime_environment \cap Custom)

(* The syscalls of the ELF that is added now.                              *)
SyscallsAtLoad == program_runtime_environment

(* add_program: the ELF is loaded with the syscalls the cache knows now.   *)
AddProgram(p, loader, elf) ==
  /\ pc = "test"
  /\ Replenish(p, [owner |-> loader, elf |-> elf,
                   syscalls |-> SyscallsAtLoad])
  /\ UNCHANGED <<borrowed, settings, running, trace_dir>>

AddBuiltin(p) ==
  /\ pc = "test"
  /\ Replenish(p, BuiltinEntry)
  /\ UNCHANGED <<borrowed, settings, running, trace_dir>>

(* program_runtime_environment.register_function, a public field.          *)
RegisterSyscall(s) ==
  /\ pc = "test" /\ s \notin program_runtime_environment
  /\ program_runtime_environment' = program_runtime_environment \cup {s}
  /\ UNCHANGED <<cacheVars, borrowed, feature_set, epoch_stake, inspector,
                 overflow_checks, running, trace_dir>>

(* The public field feature_set: the cache's environment is not rebuilt.   *)
SetFeatures(features) ==
  /\ pc = "test"
  /\ feature_set' = features
  /\ UNCHANGED <<cacheVars, borrowed, program_runtime_environment, epoch_stake,
                 inspector, overflow_checks, running, trace_dir>>

(* The public field epoch_stake: a mock, or one more vote account.         *)
SetEpochStake(stake) ==
  /\ pc = "test"
  /\ epoch_stake' = stake
  /\ UNCHANGED <<cacheVars, borrowed, program_runtime_environment, feature_set,
                 inspector, overflow_checks, running, trace_dir>>

-----------------------------------------------------------------------------
(* A message.                                                              *)

(* A panic unwinds: the RefMut is dropped and the message is gone.         *)
Panic(why) ==
  /\ pc' = "panicked" /\ panic' = why
  /\ borrowed' = FALSE
  /\ message' = <<>> /\ failed' = FALSE /\ vm_traces' = <<>> /\ total_stake' = Missing
  /\ UNCHANGED <<cacheVars, settings, trace_dir>>

Uncached(ixs) ==
  \E i \in DOMAIN ixs : ~ixs[i].given /\ ~Cached(ixs[i].program)

(* get_account_fallbacks asks load_program for the loader of every program *)
(* whose account the test does not pass, before the cache is borrowed.     *)
BeginMessage(ixs) ==
  /\ pc = "test" /\ ~Uncached(ixs)
  /\ pc' = "invoke" /\ message' = ixs
  /\ borrowed' = TRUE
  /\ UNCHANGED <<cacheVars, settings, failed, vm_traces, total_stake, trace_dir, panic>>

BeginPanics(ixs) == pc = "test" /\ Uncached(ixs) /\ Panic("not cached")

(* The programs that run for an instruction, in the order in which their   *)
(* runs end: the callee ends before its caller.                            *)
Runs(ix) ==
  LET Run(p) == IF p # Missing /\ InVM(p)
                THEN <<[program |-> p, elf |-> Find(p).elf]>> ELSE <<>>
  IN  Run(ix.callee) \o Run(ix.program)

(* What loader instructions leave in the cache: the ELF is loaded with the *)
(* syscalls that the features of the message enable, and no other; none    *)
(* for a program that is closed, or deployed at slot 0.                    *)
Deployed(d) ==
  [modified EXCEPT ![d[1]] =
     [owner |-> UpgradeableLoader, elf |-> d[2], syscalls |-> feature_set]]

(* The SVM runs an instruction whose program it finds.  One that calls the *)
(* upgradeable loader may deploy a program, and may fail afterwards.       *)
Invoke(fails) ==
  LET ix == Head(message)
  IN  /\ pc = "invoke" /\ message # <<>>
      /\ Runnable(ix.program)
      /\ vm_traces' = vm_traces \o Runs(ix)
      /\ \/ UNCHANGED modified
         \/ /\ UpgradeableLoader \in {ix.program, ix.callee}
            /\ \E d \in Deployments : modified' = Deployed(d)
      /\ failed' = fails
      /\ pc' = "after"
      /\ UNCHANGED <<entries_cache, loaded, borrowed, settings, message,
                     total_stake, trace_dir, panic>>

(* A program that the SVM does not find, or has a tombstone for.           *)
InvokeMissing ==
  LET ix == Head(message)
  IN  /\ pc = "invoke" /\ message # <<>>
      /\ ~Runnable(ix.program)
      /\ failed' = TRUE
      /\ pc' = "after"
      /\ UNCHANGED <<cacheVars, borrowed, settings, message, vm_traces,
                     total_stake, trace_dir, panic>>

\* Mutant: a sum that wraps in every build.
NeverOverflows == FALSE

(* values().sum() panics where the build checks additions.                 *)
Overflows == overflow_checks /\ Total(epoch_stake) >= U64

\* Mutant: a sum wider than the stakes.
WideTotal == Total(epoch_stake)

(* Elsewhere it wraps.                                                     *)
get_epoch_stake == Total(epoch_stake) % U64

(* A program asks for the stake of the whole cluster.                      *)
ReadTotalStake ==
  /\ pc = "invoke" /\ message # <<>> /\ InVM(Head(message).program)
  /\ ~Overflows
  /\ total_stake' = get_epoch_stake
  /\ UNCHANGED <<cacheVars, borrowed, settings, pc, message, failed, vm_traces,
                 trace_dir, panic>>

TotalStakePanics ==
  /\ pc = "invoke" /\ message # <<>> /\ InVM(Head(message).program)
  /\ Overflows
  /\ Panic("overflow")

\* Mutant: the files an older run left are kept.
KeptExec(dir, run) ==
  IF run.elf \in DOMAIN dir THEN dir[run.elf].exec ELSE ElfBytes(run.program)

(* What exec.sha256 is of: the recorded ELF, and where there is none, what *)
(* an older run with the same trace has left.                              *)
Exec(dir, run) ==
  IF ElfBytes(run.program) # NoElf THEN ElfBytes(run.program)
  ELSE IF run.elf \in DOMAIN dir THEN dir[run.elf].exec ELSE NoElf

(* handler: a trace names its own files; the same ELF runs the same way,   *)
(* so that the ELF stands for the trace.                                   *)
Persist(dir, run) ==
  [elf \in DOMAIN dir \cup {run.elf} |->
     IF elf = run.elf THEN [program_id |-> run.program, exec |-> Exec(dir, run)]
     ELSE dir[elf]]

(* iterate_vm_traces visits the runs of the message so far whose program   *)
(* the SVM still finds: what the first i of them leave.                    *)
Collections ==
  LET Visit(dir, i) ==
        IF InVM(vm_traces[i].program)
        THEN Persist(dir, vm_traces[i]) ELSE dir
      collect[i \in 0..Len(vm_traces)] ==
        IF i = 0 THEN trace_dir ELSE Visit(collect[i - 1], i)
  IN  collect

Collected == Collections[Len(vm_traces)]

\* Mutant: the instruction that failed is not passed to the callback.
AfterSuccess ==
  /\ pc = "after"
  /\ trace_dir' = IF inspector = "tracing" /\ ~failed THEN Collected ELSE trace_dir
  /\ message' = IF failed THEN <<>> ELSE Tail(message)
  /\ pc' = "invoke"
  /\ UNCHANGED <<cacheVars, borrowed, settings, failed, vm_traces, total_stake, panic>>

(* after_invocation, then the next instruction unless this one failed.     *)
AfterInvocation ==
  /\ pc = "after"
  /\ trace_dir' = IF inspector = "tracing" THEN Collected ELSE trace_dir
  /\ message' = IF failed THEN <<>> ELSE Tail(message)
  /\ pc' = "invoke"
  /\ UNCHANGED <<cacheVars, borrowed, settings, failed, vm_traces, total_stake, panic>>

(* A callback, before or after an invocation, that runs a message or loads *)
(* a program through the Mollusk it is given.                              *)
CallbackBorrows ==
  /\ inspector = "own" /\ borrowed
  /\ pc = "after" \/ (pc = "invoke" /\ message # <<>>)
  /\ Panic("already borrowed")

(* The invoke context is dropped, and the borrow with it.                  *)
EndMessage ==
  /\ pc = "invoke" /\ message = <<>>
  /\ borrowed' = FALSE
  /\ failed' = FALSE /\ vm_traces' = <<>> /\ total_stake' = Missing
  /\ pc' = "test"
  /\ UNCHANGED <<cacheVars, settings, message, trace_dir, panic>>

(* The next test has a Mollusk of its own; the files stay.                 *)
NewTest ==
  /\ pc = "panicked"
  /\ entries_cache' = NewEntries /\ loaded' = NewLoaded /\ modified' = NewModified
  /\ program_runtime_environment' = Gated /\ feature_set' = Gated
  /\ epoch_stake' = <<>>
  /\ inspector' \in {"tracing", "own"}
  /\ pc' = "test" /\ panic' = Missing
  /\ UNCHANGED <<borrowed, overflow_checks, message, failed, vm_traces,
                 total_stake, trace_dir>>

Next ==
  \/ \E add \in Additions : AddProgram(add[1], add[2], add[3])
  \/ \E p \in BuiltinAdditions : AddBuiltin(p)
  \/ \E s \in Custom : RegisterSyscall(s)
  \/ \E features \in FeatureSets : SetFeatures(features)
  \/ \E t \in Targets : SetEpochStake(MockEpochStake(t))
  \/ /\ Len(epoch_stake) < MaxVotes
     /\ \E s \in Stakes : SetEpochStake(Append(epoch_stake, s))
  \/ \E ixs \in Messages : BeginMessage(ixs) \/ BeginPanics(ixs)
  \/ \E fails \in BOOLEAN : Invoke(fails)
  \/ InvokeMissing
  \/ ReadTotalStake \/ TotalStakePanics
  \/ AfterInvocation \/ CallbackBorrows \/ EndMessage
  \/ NewTest

Spec == Init /\ [][Next]_vars

-----------------------------------------------------------------------------
EnvironmentTypeOK ==
  /\ entries_cache \in [Program -> CacheEntry \cup {Missing}]
  /\ loaded \in [Program -> ProgramCacheEntry \cup {Missing}]
  /\ modified \in [Program -> ProgramCacheEntry \cup {Missing}]
  /\ borrowed \in BOOLEAN /\ failed \in BOOLEAN /\ overflow_checks \in BOOLEAN
  /\ program_runtime_environment \in SUBSET (Gated \cup Custom)
  /\ feature_set \in SUBSET Gated
  /\ epoch_stake \in Seq(0..(U64 - 1))
  /\ inspector \in {"tracing", "own"}
  /\ pc \in {"test", "invoke", "after", "panicked"}
  /\ message \in Seq(Instruction)
  /\ vm_traces \in Seq([program : Program, elf : Elf])
  /\ total_stake \in 0..(U64 - 1) \cup {Missing}
  /\ DOMAIN trace_dir \subseteq Elf
  /\ trace_dir \in [DOMAIN trace_dir -> [program_id : Program, exec : Elf \cup {NoElf}]]

(* The harness records what the SVM would run: unless an instruction has   *)
(* deployed the program, both have it or neither does, under one loader    *)
(* and with one ELF.  Only so may a callback read the record while the     *)
(* message holds the cache, and a context make up program accounts of it.  *)
RecordAgrees ==
  \A p \in Program :
    /\ entries_cache[p] # Missing => Cached(p)
    /\ modified[p] = Missing /\ Cached(p) =>
         entries_cache[p] = [loader_key |-> Find(p).owner, elf_bytes |-> Find(p).elf]

(* What an instruction deploys is what is found from then on, a program    *)
(* that runs or a tombstone, whether or not its message fails, and         *)
(* whatever a test adds under the id: only another deployment replaces it, *)
(* or the next test with a Mollusk of its own.                             *)
DeploymentKept ==
  \A p \in Program : modified[p] # Missing /\ Find(p)' # Find(p) =>
    \/ pc = "invoke" /\ UpgradeableLoader \in {Head(message).program,
                                             Head(message).callee}
    \/ pc = "panicked"

DeploymentStays == [][DeploymentKept]_vars

(* Syscalls are bound when a program is loaded.  One that a test adds has  *)
(* those of all features, whatever features the test has set; one that an  *)
(* instruction deploys has those of the features of its message, and none  *)
(* that the test has registered.                                           *)
SyscallsBoundAtLoad ==
  /\ \A p \in Program :
       loaded[p] # Missing /\ loaded[p].elf # NoElf => Gated \subseteq loaded[p].syscalls
  /\ \A p \in Program :
       modified[p] # Missing => modified[p].syscalls \cap Custom = {}

(* Every run of the message has its files once its callback has returned,  *)
(* that of the instruction that failed included.  Their exec.sha256 is     *)
(* that of the ELF which ran, unless an instruction has deployed the       *)
(* program they name: although the record is asked and not the SVM, and    *)
(* although files of older runs, messages and tests are written over.      *)
TracesNamed ==
  pc = "after" /\ pc' = "invoke" /\ inspector = "tracing" =>
    \A i \in DOMAIN vm_traces :
      \/ modified[vm_traces[i].program] # Missing
      \/ /\ vm_traces[i].elf \in DOMAIN trace_dir'
         /\ LET files == trace_dir'[vm_traces[i].elf]
            IN  \/ files.exec = vm_traces[i].elf
                \/ modified[files.program_id] # Missing

TracesOfTheirElf == [][TracesNamed]_vars

(* Where overflow is checked, a program that asks for the total stake is   *)
(* told the sum of what it would be told account by account.  A mock       *)
(* reaches its target exactly, with no account below the base unless the   *)
(* target is, and none at twice the base or above.                         *)
StakeExact ==
  /\ overflow_checks /\ total_stake # Missing => total_stake = Total(epoch_stake)
  /\ \A target \in Targets :
       epoch_stake = MockEpochStake(target) =>
         /\ Total(epoch_stake) = target
         /\ \A vote \in DOMAIN epoch_stake :
              /\ epoch_stake[vote] < 2 * Base
              /\ epoch_stake[vote] >= Base \/ epoch_stake = <<target>>
=============================================================================
