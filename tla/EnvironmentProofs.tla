-------------------------- MODULE EnvironmentProofs --------------------------
(***************************************************************************)
(* Proofs about Environment, for every value of its constants: what the    *)
(* harness records of its programs and what the SVM caches of them agree,  *)
(* syscalls are bound when a program is loaded, stakes add up, and the     *)
(* files of register tracing name the ELF that ran.                        *)
(***************************************************************************)
EXTENDS Environment, SumProofs

-----------------------------------------------------------------------------
(* The inductive invariant.                                                *)

(* Both maps are written together, by the harness alone.                   *)
RecordKept ==
  \A p \in Program :
    entries_cache[p] = IF loaded[p] = Missing THEN Missing
                       ELSE [loader_key |-> loaded[p].owner, elf_bytes |-> loaded[p].elf]

(* Syscalls are added to the environment of programs, never taken away.    *)
SyscallsKept ==
  /\ Gated \subseteq program_runtime_environment
  /\ \A p \in Program :
       loaded[p] # Missing /\ loaded[p].elf # NoElf => Gated \subseteq loaded[p].syscalls
  /\ \A p \in Program :
       modified[p] # Missing => modified[p].syscalls \subseteq Gated

(* No stake changes while a message runs.                                  *)
StakeKept ==
  /\ pc \in {"test", "panicked"} => total_stake = Missing
  /\ total_stake # Missing =>
       /\ total_stake = Total(epoch_stake) % U64
       /\ overflow_checks => Total(epoch_stake) < U64

(* A program that ran is the one the harness has recorded, unless an       *)
(* instruction has deployed it; no trace is left between messages.         *)
TracesKept ==
  /\ pc \in {"test", "panicked"} => vm_traces = <<>>
  /\ \A i \in DOMAIN vm_traces :
       LET run == vm_traces[i] IN
       modified[run.program] = Missing => InVM(run.program) /\ Find(run.program).elf = run.elf

EInv ==
  /\ EnvironmentTypeOK
  /\ RecordKept /\ SyscallsKept /\ StakeKept /\ TracesKept

-----------------------------------------------------------------------------
(* Lemmas on the operators.                                                *)

(* The mock has its target as its total, and every account has its share.  *)
LEMMA MockStakeExact ==
  ASSUME NEW target \in 0..(U64 - 1)
  PROVE  LET stake == MockEpochStake(target) IN
         /\ stake \in Seq(0..(U64 - 1)) /\ Total(stake) = target
         /\ \A vote \in DOMAIN stake :
              /\ stake[vote] < 2 * Base
              /\ stake[vote] >= Base \/ stake = <<target>>
<1> DEFINE accounts == target \div Base
           rest == target % Base
           stake == MockEpochStake(target)
<1>1. /\ U64 \in Nat /\ Base \in Nat /\ Base > 0 /\ Base < U64
      /\ target \in Nat /\ target < U64
  BY StakeAssumption
<1>2. /\ accounts \in Nat /\ rest \in 0..(Base - 1)
      /\ target = Base * accounts + rest
  BY <1>1
<1> HIDE DEF accounts, rest
<1>3. CASE target = 0
  <2>1. stake = <<>>
    BY <1>3 DEF MockEpochStake
  <2> HIDE DEF stake
  <2>2. stake \in Seq(0..(U64 - 1)) /\ DOMAIN stake = {} /\ Total(stake) = 0
    BY <2>1, SumOfNothing DEF Total
  <2> QED BY <1>3, <2>2 DEF stake
<1>4. CASE target # 0 /\ accounts = 0
  <2>1. stake = <<target>>
    BY <1>4 DEF MockEpochStake, accounts
  <2>2. <<target>> = Append(<<>>, target) /\ <<>> \in Seq(Nat)
    OBVIOUS
  <2>3. SumOf(Append(<<>>, target)) = SumOf(<<>>) + target
    BY <1>1, <2>2, SumOfAppended
  <2>4. Total(stake) = target
    BY <1>1, <2>1, <2>2, <2>3, SumOfNothing DEF Total
  <2>5. target < Base
    BY <1>1, <1>2, <1>4
  <2> HIDE DEF stake
  <2> QED BY <1>1, <2>1, <2>4, <2>5 DEF stake
<1>5. CASE target # 0 /\ accounts # 0
  <2>1. stake = [vote \in 1..accounts |-> Base + IF vote = accounts THEN rest ELSE 0]
    BY <1>5 DEF MockEpochStake, accounts, rest
  <2> HIDE DEF stake
  <2>2. Base + rest <= target
    BY <1>1, <1>2, <1>5
  <2>3. /\ DOMAIN stake = 1..accounts
        /\ \A vote \in 1..accounts : stake[vote] = IF vote = accounts THEN Base + rest ELSE Base
    BY <1>1, <1>2, <2>1
  <2>4. stake \in [1..accounts -> 0..(U64 - 1)]
    BY <1>1, <1>2, <2>1, <2>2, <2>3
  <2> DEFINE u64 == 0..(U64 - 1)
  <2>5. stake \in Seq(u64) /\ stake \in Seq(Nat) /\ Len(stake) = accounts
    <3>1. stake \in [1..accounts -> u64] /\ stake \in [1..accounts -> Nat]
      BY <2>4
    <3> HIDE DEF u64
    <3> QED BY <1>2, <3>1
  <2> DEFINE sums == PrefixSums(stake)
  <2>6. sums = [i \in 0..accounts |-> IF i = 0 THEN 0 ELSE sums[i - 1] + stake[i]]
    BY <1>2, <2>5, PrefixSumsDefined
  <2> DEFINE S == {i \in 0..accounts :
                     sums[i] = Base * i + IF i = accounts THEN rest ELSE 0}
  <2> HIDE DEF sums
  <2>7. 0 \in S
    BY <1>1, <1>2, <1>5, <2>6
  <2>8. ASSUME NEW i \in 0..(accounts - 1), i \in S PROVE i + 1 \in S
    <3>1. i + 1 \in 1..accounts /\ sums[i + 1] = sums[i] + stake[i + 1]
      BY <1>2, <2>6
    <3>2. sums[i] = Base * i
      BY <1>1, <1>2, <2>8
    <3>3. Base * i + Base = Base * (i + 1)
      BY <1>1
    <3> QED BY <1>1, <1>2, <2>3, <3>1, <3>2, <3>3
  <2>9. S = 0..accounts
    <3> HIDE DEF S
    <3>1. S \in SUBSET (0..accounts)
      BY DEF S
    <3> QED BY <1>2, <2>7, <2>8, <3>1, InductiveUpTo
  <2>10. sums[accounts] = target
    BY <1>1, <1>2, <2>9
  <2>11. Total(stake) = target
    BY <2>5, <2>10 DEF Total, SumOf, sums
  <2> QED BY <1>1, <1>2, <2>3, <2>5, <2>11 DEF stake
<1> QED BY <1>3, <1>4, <1>5

(* The total of the stakes is a natural number, be it a u64 or not.        *)
LEMMA TotalTyped ==
  ASSUME EnvironmentTypeOK
  PROVE  U64 \in Nat \ {0} /\ Total(epoch_stake) \in Nat
<1> DEFINE u64 == 0..(U64 - 1)
<1>1. epoch_stake \in Seq(u64) /\ U64 \in Nat \ {0} /\ \A s \in u64 : s \in Nat
  BY StakeAssumption DEF EnvironmentTypeOK
<1> HIDE DEF u64
<1>2. /\ Len(epoch_stake) \in Nat /\ DOMAIN epoch_stake = 1..Len(epoch_stake)
      /\ \A vote \in 1..Len(epoch_stake) : epoch_stake[vote] \in Nat
  BY <1>1
<1>3. epoch_stake = [vote \in 1..Len(epoch_stake) |-> epoch_stake[vote]]
  BY <1>1
<1>4. epoch_stake \in Seq(Nat)
  BY <1>2, <1>3
<1> QED BY <1>1, <1>4, SumTyped DEF Total

(* A program that runs in the VM is an ELF.                                *)
LEMMA FoundTyped ==
  ASSUME EnvironmentTypeOK, NEW p \in Program
  PROVE  /\ Cached(p) => Find(p) \in ProgramCacheEntry
         /\ InVM(p) => Find(p).elf \in Elf
         /\ ElfBytes(p) \in Elf \cup {NoElf}
<1>1. Cached(p) => Find(p) \in ProgramCacheEntry
  BY DEF EnvironmentTypeOK, Cached, Find
<1>2. InVM(p) => Find(p).elf \in Elf
  BY <1>1 DEF InVM, ProgramCacheEntry
<1>3. ElfBytes(p) \in Elf \cup {NoElf}
  BY DEF EnvironmentTypeOK, ElfBytes, CacheEntry
<1> QED BY <1>1, <1>2, <1>3

(* The runs of an instruction.                                             *)
LEMMA RunsTyped ==
  ASSUME EnvironmentTypeOK, NEW ix \in Instruction
  PROVE  /\ Runs(ix) \in Seq([program : Program, elf : Elf])
         /\ \A i \in DOMAIN Runs(ix) :
              InVM(Runs(ix)[i].program) /\ Find(Runs(ix)[i].program).elf = Runs(ix)[i].elf
<1> DEFINE Run(p) == IF p # Missing /\ InVM(p)
                     THEN <<[program |-> p, elf |-> Find(p).elf]>> ELSE <<>>
           one == Run(ix.callee)
           two == Run(ix.program)
           Traced == [program : Program, elf : Elf]
           Good(t) == InVM(t.program) /\ Find(t.program).elf = t.elf
<1>1. ASSUME NEW p \in Program \cup {Missing}
      PROVE  Run(p) \in Seq(Traced) /\ \A i \in DOMAIN Run(p) : Good(Run(p)[i])
  <2>1. CASE p # Missing /\ InVM(p)
    BY <2>1, FoundTyped
  <2>2. CASE ~(p # Missing /\ InVM(p))
    BY <2>2
  <2> QED BY <2>1, <2>2
<1>2. one \in Seq(Traced) /\ two \in Seq(Traced)
      /\ (\A i \in DOMAIN one : Good(one[i])) /\ (\A i \in DOMAIN two : Good(two[i]))
  BY <1>1 DEF Instruction
<1>3. Runs(ix) = one \o two
  BY DEF Runs
<1> HIDE DEF one, two, Good
<1>4. \A i \in DOMAIN (one \o two) : Good((one \o two)[i])
  <2> SUFFICES ASSUME NEW i \in DOMAIN (one \o two) PROVE Good((one \o two)[i])
    OBVIOUS
  <2>1. \/ i \in DOMAIN one /\ (one \o two)[i] = one[i]
        \/ i - Len(one) \in DOMAIN two /\ (one \o two)[i] = two[i - Len(one)]
    BY <1>2
  <2> QED BY <1>2, <2>1
<1> QED BY <1>2, <1>3, <1>4 DEF Good

-----------------------------------------------------------------------------
(* The files of register tracing.                                          *)

Files == [program_id : Program, exec : Elf \cup {NoElf}]
Directories == UNION {[elves -> Files] : elves \in SUBSET Elf}

LEMMA PersistTyped ==
  ASSUME EnvironmentTypeOK, NEW dir \in Directories,
         NEW run \in [program : Program, elf : Elf]
  PROVE  /\ Persist(dir, run) \in Directories
         /\ DOMAIN Persist(dir, run) = DOMAIN dir \cup {run.elf}
         /\ Persist(dir, run)[run.elf] = [program_id |-> run.program, exec |-> Exec(dir, run)]
         /\ \A elf \in DOMAIN dir \ {run.elf} : Persist(dir, run)[elf] = dir[elf]
<1>1. DOMAIN dir \subseteq Elf /\ \A elf \in DOMAIN dir : dir[elf] \in Files
  BY DEF Directories
<1>2. Exec(dir, run) \in Elf \cup {NoElf}
  <2>1. ElfBytes(run.program) \in Elf \cup {NoElf}
    BY FoundTyped
  <2>2. run.elf \in DOMAIN dir => dir[run.elf].exec \in Elf \cup {NoElf}
    BY <1>1 DEF Files
  <2> QED BY <2>1, <2>2 DEF Exec
<1>3. DOMAIN Persist(dir, run) = DOMAIN dir \cup {run.elf}
  BY DEF Persist
<1>4. Persist(dir, run)[run.elf] = [program_id |-> run.program, exec |-> Exec(dir, run)]
  BY DEF Persist
<1>5. \A elf \in DOMAIN dir \ {run.elf} : Persist(dir, run)[elf] = dir[elf]
  BY DEF Persist
<1>6. Persist(dir, run) \in [DOMAIN dir \cup {run.elf} -> Files]
  BY <1>1, <1>2 DEF Persist, Files
<1>7. Persist(dir, run) \in Directories
  BY <1>1, <1>6 DEF Directories
<1> QED BY <1>3, <1>4, <1>5, <1>7

LEMMA CollectionsTyped ==
  ASSUME EnvironmentTypeOK
  PROVE  /\ Collections \in [0..Len(vm_traces) -> Directories]
         /\ Collections[0] = trace_dir
         /\ \A i \in 1..Len(vm_traces) :
              Collections[i] = IF InVM(vm_traces[i].program)
                               THEN Persist(Collections[i - 1], vm_traces[i])
                               ELSE Collections[i - 1]
<1> DEFINE n == Len(vm_traces)
           Visit(dir, i) == IF InVM(vm_traces[i].program)
                            THEN Persist(dir, vm_traces[i]) ELSE dir
           step == [i \in 1..n |-> [dir \in Directories |-> Visit(dir, i)]]
<1>1. n \in Nat /\ \A i \in 1..n : vm_traces[i] \in [program : Program, elf : Elf]
  <2> DEFINE Traced == [program : Program, elf : Elf]
  <2>1. vm_traces \in Seq(Traced)
    BY DEF EnvironmentTypeOK
  <2> HIDE DEF Traced
  <2>2. n \in Nat /\ \A i \in 1..n : vm_traces[i] \in Traced
    BY <2>1
  <2> QED BY <2>2 DEF Traced
<1>2. trace_dir \in Directories
  BY DEF EnvironmentTypeOK, Directories, Files
<1> HIDE DEF n
<1>3. \A dir \in Directories, i \in 1..n : Visit(dir, i) \in Directories
  BY <1>1, PersistTyped
<1>4. step \in [1..n -> [Directories -> Directories]]
  BY <1>3
<1> HIDE DEF Visit
<1>5. \A i \in 1..n, dir \in Directories : step[i][dir] = Visit(dir, i)
  OBVIOUS
<1> HIDE DEF step
<1>6. PICK f \in [0..n -> Directories] :
        f[0] = trace_dir /\ \A i \in 1..n : f[i] = step[i][f[i - 1]]
  <2>1. StaysIn(Directories, n, trace_dir, step)
    BY <1>2, <1>4 DEF StaysIn
  <2>2. HasFunction(Directories, n, trace_dir, step)
    BY <1>1, <2>1, Recursion
  <2> QED BY <2>2 DEF HasFunction
<1>7. \A i \in 1..n : f[i] = Visit(f[i - 1], i)
  <2> SUFFICES ASSUME NEW i \in 1..n PROVE f[i] = Visit(f[i - 1], i)
    OBVIOUS
  <2>1. f[i - 1] \in Directories
    BY <1>1
  <2> QED BY <1>5, <1>6, <2>1
<1>8. f = [i \in 0..n |-> IF i = 0 THEN trace_dir ELSE Visit(f[i - 1], i)]
  <2>1. \A i \in 0..n : f[i] = IF i = 0 THEN trace_dir ELSE Visit(f[i - 1], i)
    BY <1>1, <1>6, <1>7
  <2> QED BY <2>1
<1>9. \A g : g = [i \in 0..n |-> IF i = 0 THEN trace_dir ELSE Visit(g[i - 1], i)] => g = f
  <2> SUFFICES ASSUME NEW g, g = [i \in 0..n |-> IF i = 0 THEN trace_dir ELSE Visit(g[i - 1], i)]
               PROVE  g = f
    OBVIOUS
  <2> DEFINE S == {i \in 0..n : g[i] = f[i]}
  <2>1. 0 \in S
    BY <1>1, <1>8
  <2>2. \A i \in 0..(n - 1) : i \in S => i + 1 \in S
    BY <1>1, <1>8
  <2>3. S = 0..n
    <3> HIDE DEF S
    <3>1. S \in SUBSET (0..n)
      BY DEF S
    <3> QED BY <1>1, <2>1, <2>2, <3>1, InductiveUpTo
  <2>4. DOMAIN g = 0..n /\ DOMAIN f = 0..n /\ \A i \in 0..n : g[i] = f[i]
    BY <2>3
  <2> QED BY <2>4, <1>8
<1>10. Collections = CHOOSE g : g = [i \in 0..n |-> IF i = 0 THEN trace_dir ELSE Visit(g[i - 1], i)]
  BY DEF Collections, Visit, n
<1>11. Collections = f
  BY <1>8, <1>9, <1>10
<1>12. f[0] = trace_dir
  BY <1>1, <1>6
<1> QED BY <1>7, <1>11, <1>12 DEF n, Visit

(* After a callback each run has its files, and they name the ELF that ran *)
(* or a program that an instruction has deployed.                          *)
LEMMA CollectedNames ==
  ASSUME EInv
  PROVE  \A i \in DOMAIN vm_traces :
           \/ modified[vm_traces[i].program] # Missing
           \/ /\ vm_traces[i].elf \in DOMAIN Collected
              /\ \/ Collected[vm_traces[i].elf].exec = vm_traces[i].elf
                 \/ modified[Collected[vm_traces[i].elf].program_id] # Missing
<1> DEFINE n == Len(vm_traces)
           Named(dir, run) ==
             \/ modified[run.program] # Missing
             \/ /\ run.elf \in DOMAIN dir
                /\ dir[run.elf].exec = run.elf \/ modified[dir[run.elf].program_id] # Missing
           S == {i \in 0..n : \A j \in 1..i : Named(Collections[i], vm_traces[j])}
<1>1. /\ n \in Nat /\ DOMAIN vm_traces = 1..n
      /\ \A i \in 1..n : vm_traces[i] \in [program : Program, elf : Elf]
  <2> DEFINE Traced == [program : Program, elf : Elf]
  <2>1. vm_traces \in Seq(Traced)
    BY DEF EInv, EnvironmentTypeOK
  <2> HIDE DEF Traced
  <2>2. n \in Nat /\ DOMAIN vm_traces = 1..n /\ \A i \in 1..n : vm_traces[i] \in Traced
    BY <2>1
  <2> QED BY <2>2 DEF Traced
<1>2. /\ Collections \in [0..n -> Directories]
      /\ \A i \in 1..n :
           Collections[i] = IF InVM(vm_traces[i].program)
                            THEN Persist(Collections[i - 1], vm_traces[i])
                            ELSE Collections[i - 1]
  BY CollectionsTyped DEF EInv
<1> HIDE DEF n
<1>3. 0 \in S
  BY <1>1
<1>4. ASSUME NEW i \in 0..(n - 1), i \in S PROVE i + 1 \in S
  <2> DEFINE run == vm_traces[i + 1]
             before == Collections[i]
             after == Collections[i + 1]
  <2>1. /\ i + 1 \in 1..n /\ before \in Directories /\ run \in [program : Program, elf : Elf]
        /\ after = IF InVM(run.program) THEN Persist(before, run) ELSE before
        /\ \A j \in 1..i : Named(before, vm_traces[j])
    BY <1>1, <1>2, <1>4
  <2>2. modified[run.program] = Missing => InVM(run.program) /\ Find(run.program).elf = run.elf
    BY <1>1, <2>1 DEF EInv, TracesKept
  <2> HIDE DEF before, after, run
  <2>3. ASSUME NEW j \in 1..(i + 1) PROVE Named(after, vm_traces[j])
    <3>1. CASE ~InVM(run.program)
      BY <1>1, <2>1, <2>2, <3>1 DEF run
    <3>2. CASE InVM(run.program)
      <4>1. /\ DOMAIN after = DOMAIN before \cup {run.elf}
            /\ after[run.elf] = [program_id |-> run.program, exec |-> Exec(before, run)]
            /\ \A elf \in DOMAIN before \ {run.elf} : after[elf] = before[elf]
        BY <2>1, <3>2, PersistTyped DEF EInv
      <4>2. modified[run.program] = Missing => Exec(before, run) = run.elf
        <5> SUFFICES ASSUME modified[run.program] = Missing PROVE Exec(before, run) = run.elf
          OBVIOUS
        <5>1. loaded[run.program] # Missing /\ loaded[run.program].elf = run.elf
          BY <2>2 DEF InVM, Cached, Find
        <5>2. ElfBytes(run.program) = run.elf
          <6> DEFINE entry == [loader_key |-> loaded[run.program].owner,
                               elf_bytes |-> loaded[run.program].elf]
          <6>1. run.program \in Program /\ entries_cache[run.program] = entry
            BY <2>1, <5>1 DEF EInv, RecordKept
          <6>2. loaded[run.program] \in ProgramCacheEntry
            BY <5>1, <6>1 DEF EInv, EnvironmentTypeOK
          <6>3. entry \in CacheEntry /\ entry.elf_bytes = run.elf
            BY <5>1, <6>2 DEF ProgramCacheEntry, CacheEntry
          <6> HIDE DEF entry
          <6> QED BY <6>1, <6>3, MissingAssumption DEF ElfBytes
        <5>3. run.elf # NoElf
          BY <2>1, ProgramsAssumption
        <5> QED BY <5>2, <5>3 DEF Exec
      <4>3. CASE vm_traces[j].elf = run.elf
        BY <4>1, <4>2, <4>3
      <4>4. CASE vm_traces[j].elf # run.elf
        BY <1>1, <2>1, <4>1, <4>4 DEF run
      <4> QED BY <4>3, <4>4
    <3> QED BY <3>1, <3>2
  <2> QED BY <2>1, <2>3 DEF after
<1>5. S = 0..n
  <2> HIDE DEF S
  <2>1. S \in SUBSET (0..n)
    BY DEF S
  <2> QED BY <1>1, <1>3, <1>4, <2>1, InductiveUpTo
<1>6. \A j \in 1..n : Named(Collected, vm_traces[j])
  <2>1. n \in S
    BY <1>1, <1>5
  <2> QED BY <2>1 DEF Collected, n
<1> QED BY <1>1, <1>6

-----------------------------------------------------------------------------
(* The invariant holds initially, and between messages.                    *)

LEMMA NewMolluskInv ==
  /\ NewEntries \in [Program -> CacheEntry \cup {Missing}]
  /\ NewLoaded \in [Program -> ProgramCacheEntry \cup {Missing}]
  /\ NewModified \in [Program -> ProgramCacheEntry \cup {Missing}]
  /\ \A p \in Program :
       NewEntries[p] = IF NewLoaded[p] = Missing THEN Missing
                       ELSE [loader_key |-> NewLoaded[p].owner, elf_bytes |-> NewLoaded[p].elf]
  /\ \A p \in Program : NewLoaded[p] # Missing => NewLoaded[p].elf = NoElf
  /\ \A p \in Program : NewModified[p] = Missing
<1>1. /\ BuiltinEntry \in ProgramCacheEntry
      /\ [loader_key |-> NativeLoader, elf_bytes |-> NoElf] \in CacheEntry
      /\ BuiltinEntry.owner = NativeLoader /\ BuiltinEntry.elf = NoElf /\ BuiltinEntry # Missing
  BY ProgramsAssumption, MissingAssumption DEF BuiltinEntry, ProgramCacheEntry, CacheEntry
<1> QED BY <1>1 DEF NewEntries, NewLoaded, NewModified

LEMMA InitInv == Init => EInv
<1> SUFFICES ASSUME Init PROVE EInv
  OBVIOUS
<1>1. /\ trace_dir \in [DOMAIN trace_dir -> [program_id : Program, exec : Elf \cup {NoElf}]]
      /\ DOMAIN trace_dir \subseteq Elf
  BY DEF Init
<1>2. EnvironmentTypeOK
  <2>1. /\ entries_cache \in [Program -> CacheEntry \cup {Missing}]
        /\ loaded \in [Program -> ProgramCacheEntry \cup {Missing}]
        /\ modified \in [Program -> ProgramCacheEntry \cup {Missing}]
    BY NewMolluskInv DEF Init
  <2>2. program_runtime_environment \in SUBSET (Gated \cup Custom) /\ feature_set \in SUBSET Gated
    BY DEF Init
  <2>3. /\ epoch_stake = <<>> /\ message = <<>> /\ vm_traces = <<>> /\ total_stake = Missing
        /\ borrowed = FALSE /\ failed = FALSE /\ pc = "test"
        /\ overflow_checks \in BOOLEAN /\ inspector \in {"tracing", "own"}
    BY DEF Init
  <2>4. /\ epoch_stake \in Seq(0..(U64 - 1)) /\ message \in Seq(Instruction)
        /\ vm_traces \in Seq([program : Program, elf : Elf])
    BY <2>3
  <2>5. /\ borrowed \in BOOLEAN /\ failed \in BOOLEAN /\ total_stake \in 0..(U64 - 1) \cup {Missing}
        /\ pc \in {"test", "invoke", "after", "panicked"}
    BY <2>3
  <2> QED BY <1>1, <2>1, <2>2, <2>3, <2>4, <2>5 DEF EnvironmentTypeOK
<1>3. RecordKept /\ SyscallsKept /\ StakeKept /\ TracesKept
  BY NewMolluskInv DEF Init, RecordKept, SyscallsKept, StakeKept, TracesKept
<1> QED BY <1>2, <1>3 DEF EInv

(* Between messages no total has been told and no trace is left.           *)
LEMMA ReplenishInv ==
  ASSUME EInv, pc = "test", NEW p \in Program, NEW entry \in ProgramCacheEntry,
         entry.elf # NoElf => Gated \subseteq entry.syscalls,
         Replenish(p, entry), UNCHANGED <<borrowed, settings, running, trace_dir>>
  PROVE  EInv'
<1> USE DEF settings, running
<1>1. /\ entries_cache' = [entries_cache EXCEPT
           ![p] = [loader_key |-> entry.owner, elf_bytes |-> entry.elf]]
      /\ loaded' = [loaded EXCEPT ![p] = entry] /\ modified' = modified
  BY DEF Replenish
<1>2. /\ entries_cache \in [Program -> CacheEntry \cup {Missing}]
      /\ loaded \in [Program -> ProgramCacheEntry \cup {Missing}]
      /\ [loader_key |-> entry.owner, elf_bytes |-> entry.elf] \in CacheEntry
      /\ entry # Missing
  BY MissingAssumption DEF EInv, EnvironmentTypeOK, ProgramCacheEntry, CacheEntry
<1>3. EnvironmentTypeOK'
  BY <1>1, <1>2 DEF EInv, EnvironmentTypeOK
<1>4. RecordKept'
  BY <1>1, <1>2 DEF EInv, RecordKept
<1>5. SyscallsKept'
  BY <1>1, <1>2 DEF EInv, SyscallsKept
<1>6. StakeKept' /\ TracesKept'
  BY <1>1 DEF EInv, StakeKept, TracesKept
<1> QED BY <1>3, <1>4, <1>5, <1>6 DEF EInv

LEMMA AddProgramInv ==
  ASSUME EInv, NEW add \in Additions, AddProgram(add[1], add[2], add[3])
  PROVE  EInv'
<1> DEFINE entry == [owner |-> add[2], elf |-> add[3], syscalls |-> SyscallsAtLoad]
<1>1. add[1] \in Program /\ add[2] \in Loader /\ add[3] \in Elf
  BY InputsAssumption
<1>2. SyscallsAtLoad \in SUBSET (Gated \cup Custom) /\ Gated \subseteq SyscallsAtLoad
  BY DEF SyscallsAtLoad, EInv, EnvironmentTypeOK, SyscallsKept
<1>3. entry \in ProgramCacheEntry /\ Gated \subseteq entry.syscalls
  BY <1>1, <1>2 DEF ProgramCacheEntry
<1>4. /\ pc = "test" /\ Replenish(add[1], entry)
      /\ UNCHANGED <<borrowed, settings, running, trace_dir>>
  BY DEF AddProgram
<1> HIDE DEF entry
<1> QED BY <1>1, <1>3, <1>4, ReplenishInv

LEMMA AddBuiltinInv ==
  ASSUME EInv, NEW p \in BuiltinAdditions, AddBuiltin(p)
  PROVE  EInv'
<1>1. p \in Program /\ BuiltinEntry \in ProgramCacheEntry /\ BuiltinEntry.elf = NoElf
  BY InputsAssumption, ProgramsAssumption DEF BuiltinEntry, ProgramCacheEntry
<1> QED BY <1>1, ReplenishInv DEF AddBuiltin

(* A step that leaves the program cache alone.                             *)
LEMMA SameCacheInv ==
  ASSUME EInv, UNCHANGED cacheVars, EnvironmentTypeOK', StakeKept',
         program_runtime_environment \subseteq program_runtime_environment',
         vm_traces' \in {vm_traces, <<>>},
         pc' \in {"test", "panicked"} => vm_traces' = <<>>
  PROVE  EInv'
<1> USE DEF cacheVars
<1>1. RecordKept' /\ SyscallsKept'
  BY DEF EInv, RecordKept, SyscallsKept
<1>2. TracesKept'
  BY DEF EInv, TracesKept, InVM, Cached, Find
<1> QED BY <1>1, <1>2 DEF EInv

LEMMA RegisterSyscallInv ==
  ASSUME EInv, NEW s \in Custom, RegisterSyscall(s)
  PROVE  EInv'
<1> USE DEF RegisterSyscall, running
<1>1. EnvironmentTypeOK'
  BY DEF EInv, EnvironmentTypeOK, cacheVars
<1>2. StakeKept' /\ (pc' \in {"test", "panicked"} => vm_traces' = <<>>)
  BY DEF EInv, StakeKept, TracesKept
<1> QED BY <1>1, <1>2, SameCacheInv

LEMMA SetFeaturesInv ==
  ASSUME EInv, NEW features \in FeatureSets, SetFeatures(features)
  PROVE  EInv'
<1> USE DEF SetFeatures, running
<1>1. EnvironmentTypeOK'
  BY InputsAssumption DEF EInv, EnvironmentTypeOK, cacheVars
<1>2. StakeKept' /\ (pc' \in {"test", "panicked"} => vm_traces' = <<>>)
  BY DEF EInv, StakeKept, TracesKept
<1> QED BY <1>1, <1>2, SameCacheInv

LEMMA SetEpochStakeInv ==
  ASSUME EInv, NEW stake \in Seq(0..(U64 - 1)), SetEpochStake(stake)
  PROVE  EInv'
<1> USE DEF SetEpochStake, running
<1>1. EnvironmentTypeOK'
  BY DEF EInv, EnvironmentTypeOK, cacheVars
<1>2. StakeKept' /\ (pc' \in {"test", "panicked"} => vm_traces' = <<>>)
  BY DEF EInv, StakeKept, TracesKept
<1> QED BY <1>1, <1>2, SameCacheInv

LEMMA NewTestInv ==
  ASSUME EInv, NewTest
  PROVE  EInv'
<1>1. /\ entries_cache' = NewEntries /\ loaded' = NewLoaded /\ modified' = NewModified
      /\ pc = "panicked" /\ pc' = "test" /\ program_runtime_environment' = Gated
      /\ feature_set' = Gated /\ epoch_stake' = <<>> /\ inspector' \in {"tracing", "own"}
      /\ UNCHANGED <<borrowed, overflow_checks, message, failed, vm_traces,
                     total_stake, trace_dir>>
  BY DEF NewTest
<1>2. epoch_stake' \in Seq(0..(U64 - 1))
  BY <1>1
<1>3. EnvironmentTypeOK'
  BY <1>1, <1>2, NewMolluskInv DEF EInv, EnvironmentTypeOK
<1>4. total_stake' = Missing /\ vm_traces' = <<>>
  BY <1>1 DEF EInv, StakeKept, TracesKept
<1>5. RecordKept' /\ SyscallsKept' /\ StakeKept' /\ TracesKept'
  BY <1>1, <1>4, NewMolluskInv DEF RecordKept, SyscallsKept, StakeKept, TracesKept
<1> QED BY <1>3, <1>5 DEF EInv

-----------------------------------------------------------------------------
(* The steps of a message.                                                 *)

LEMMA PanicInv ==
  ASSUME EInv, NEW why, Panic(why)
  PROVE  EInv'
<1> USE DEF Panic, settings
<1>1. message' \in Seq(Instruction) /\ vm_traces' \in Seq([program : Program, elf : Elf])
  OBVIOUS
<1>2. EnvironmentTypeOK'
  BY <1>1 DEF EInv, EnvironmentTypeOK, cacheVars
<1>3. StakeKept' /\ (pc' \in {"test", "panicked"} => vm_traces' = <<>>)
  BY DEF StakeKept
<1> QED BY <1>2, <1>3, SameCacheInv

LEMMA BeginMessageInv ==
  ASSUME EInv, NEW ixs \in Messages, BeginMessage(ixs)
  PROVE  EInv'
<1> USE DEF BeginMessage, settings
<1>1. ixs \in Seq(Instruction)
  BY InputsAssumption
<1>2. EnvironmentTypeOK'
  BY <1>1 DEF EInv, EnvironmentTypeOK, cacheVars
<1>3. StakeKept' /\ (pc' \in {"test", "panicked"} => vm_traces' = <<>>)
  BY DEF EInv, StakeKept
<1> QED BY <1>2, <1>3, SameCacheInv

LEMMA InvokeInv ==
  ASSUME EInv, NEW fails \in BOOLEAN, Invoke(fails)
  PROVE  EInv'
<1> DEFINE ix == Head(message)
           Traced == [program : Program, elf : Elf]
<1>1. /\ pc = "invoke" /\ message # <<>> /\ pc' = "after" /\ failed' = fails
      /\ vm_traces' = vm_traces \o Runs(ix)
      /\ UNCHANGED <<entries_cache, loaded, borrowed, settings, message, total_stake, trace_dir>>
      /\ modified' = modified \/ \E d \in Deployments : modified' = Deployed(d)
  BY DEF Invoke
<1>2. /\ message \in Seq(Instruction) /\ vm_traces \in Seq(Traced)
      /\ modified \in [Program -> ProgramCacheEntry \cup {Missing}]
  BY DEF EInv, EnvironmentTypeOK
<1>3. ix \in Instruction
  BY <1>1, <1>2
<1>4. /\ Runs(ix) \in Seq(Traced)
      /\ \A i \in DOMAIN Runs(ix) :
           InVM(Runs(ix)[i].program) /\ Find(Runs(ix)[i].program).elf = Runs(ix)[i].elf
  BY <1>3, RunsTyped DEF EInv
<1>5. /\ modified' \in [Program -> ProgramCacheEntry \cup {Missing}]
      /\ \A p \in Program : \/ modified'[p] = modified[p]
                            \/ modified'[p] # Missing /\ modified'[p].syscalls \subseteq Gated
  <2>1. CASE modified' = modified
    BY <1>2, <2>1
  <2>2. ASSUME NEW d \in Deployments, modified' = Deployed(d)
        PROVE  /\ modified' \in [Program -> ProgramCacheEntry \cup {Missing}]
               /\ \A p \in Program :
                    \/ modified'[p] = modified[p]
                    \/ modified'[p] # Missing /\ modified'[p].syscalls \subseteq Gated
    <3> DEFINE entry == [owner |-> UpgradeableLoader, elf |-> d[2], syscalls |-> feature_set]
    <3>1. modified' = [modified EXCEPT ![d[1]] = entry]
      BY <2>2 DEF Deployed
    <3>2. entry \in ProgramCacheEntry /\ entry.syscalls \subseteq Gated /\ entry # Missing
      BY InputsAssumption, ProgramsAssumption, MissingAssumption
      DEF EInv, EnvironmentTypeOK, ProgramCacheEntry
    <3> HIDE DEF entry
    <3> QED BY <1>2, <3>1, <3>2
  <2> QED BY <1>1, <2>1, <2>2
<1> DEFINE runs == Runs(ix)
<1> HIDE DEF Traced, ix, runs
<1>6. vm_traces' \in Seq(Traced)
  BY <1>1, <1>2, <1>4
<1>7. EnvironmentTypeOK'
  BY <1>1, <1>5, <1>6 DEF EInv, EnvironmentTypeOK, settings, Traced
<1>8. RecordKept' /\ StakeKept'
  BY <1>1 DEF EInv, RecordKept, StakeKept, settings
<1>9. SyscallsKept'
  BY <1>1, <1>5 DEF EInv, SyscallsKept, settings
<1>10. TracesKept'
  <2>1. ASSUME NEW run \in Traced, modified'[run.program] = Missing,
               modified[run.program] = Missing =>
                 InVM(run.program) /\ Find(run.program).elf = run.elf
        PROVE  InVM(run.program)' /\ Find(run.program)'.elf = run.elf
    <3>1. run.program \in Program /\ modified[run.program] = Missing
      BY <1>5, <2>1 DEF Traced
    <3> QED BY <1>1, <2>1, <3>1 DEF InVM, Cached, Find
  <2>2. ASSUME NEW i \in DOMAIN vm_traces'
        PROVE  /\ vm_traces'[i] \in Traced
               /\ modified[vm_traces'[i].program] = Missing =>
                    InVM(vm_traces'[i].program) /\ Find(vm_traces'[i].program).elf = vm_traces'[i].elf
    <3>1. \/ i \in DOMAIN vm_traces /\ vm_traces'[i] = vm_traces[i]
          \/ i - Len(vm_traces) \in DOMAIN runs /\ vm_traces'[i] = runs[i - Len(vm_traces)]
      BY <1>1, <1>2, <1>4 DEF runs
    <3> QED BY <1>2, <1>4, <1>6, <3>1 DEF EInv, TracesKept, runs
  <2> QED BY <1>1, <2>1, <2>2 DEF TracesKept
<1> QED BY <1>7, <1>8, <1>9, <1>10 DEF EInv

LEMMA InvokeMissingInv ==
  ASSUME EInv, InvokeMissing
  PROVE  EInv'
<1> USE DEF InvokeMissing, settings
<1>1. EnvironmentTypeOK'
  BY DEF EInv, EnvironmentTypeOK, cacheVars
<1>2. StakeKept' /\ pc' = "after"
  BY DEF EInv, StakeKept
<1> QED BY <1>1, <1>2, SameCacheInv

LEMMA ReadTotalStakeInv ==
  ASSUME EInv, ReadTotalStake
  PROVE  EInv'
<1> USE DEF ReadTotalStake, settings
<1>1. U64 \in Nat \ {0} /\ Total(epoch_stake) \in Nat
  BY TotalTyped DEF EInv
<1>2. total_stake' = Total(epoch_stake) % U64 /\ total_stake' \in 0..(U64 - 1)
  BY <1>1 DEF get_epoch_stake
<1>3. EnvironmentTypeOK'
  BY <1>2 DEF EInv, EnvironmentTypeOK, cacheVars
<1>4. StakeKept' /\ pc' = "invoke"
  BY <1>1, <1>2 DEF StakeKept, Overflows
<1> QED BY <1>3, <1>4, SameCacheInv

LEMMA AfterInvocationInv ==
  ASSUME EInv, AfterInvocation
  PROVE  EInv'
<1> USE DEF AfterInvocation, settings
<1>1. trace_dir \in Directories
  BY DEF EInv, EnvironmentTypeOK, Directories, Files
<1>2. Collected \in Directories
  <2>1. Len(vm_traces) \in Nat
    BY DEF EInv, EnvironmentTypeOK
  <2> QED BY <2>1, CollectionsTyped DEF EInv, Collected
<1>3. trace_dir' \in Directories
  BY <1>1, <1>2
<1>4. message' \in Seq(Instruction)
  <2>1. message \in Seq(Instruction) /\ (failed \/ message' = Tail(message))
    BY DEF EInv, EnvironmentTypeOK
  <2>2. CASE message = <<>>
    BY <2>2
  <2>3. CASE message # <<>>
    BY <2>1, <2>3
  <2> QED BY <2>2, <2>3
<1>5. EnvironmentTypeOK'
  BY <1>3, <1>4 DEF EInv, EnvironmentTypeOK, cacheVars, Directories, Files
<1>6. StakeKept' /\ pc' = "invoke"
  BY DEF EInv, StakeKept
<1> QED BY <1>5, <1>6, SameCacheInv

LEMMA EndMessageInv ==
  ASSUME EInv, EndMessage
  PROVE  EInv'
<1> USE DEF EndMessage, settings
<1>1. vm_traces' \in Seq([program : Program, elf : Elf])
  OBVIOUS
<1>2. EnvironmentTypeOK'
  BY <1>1 DEF EInv, EnvironmentTypeOK, cacheVars
<1>3. StakeKept' /\ vm_traces' = <<>>
  BY DEF EInv, StakeKept
<1> QED BY <1>2, <1>3, SameCacheInv

LEMMA NextInv == EInv /\ [Next]_vars => EInv'
<1> SUFFICES ASSUME EInv, [Next]_vars PROVE EInv'
  OBVIOUS
<1>1. CASE \E add \in Additions : AddProgram(add[1], add[2], add[3])
  BY <1>1, AddProgramInv
<1>2. CASE \E p \in BuiltinAdditions : AddBuiltin(p)
  BY <1>2, AddBuiltinInv
<1>3. CASE \E s \in Custom : RegisterSyscall(s)
  BY <1>3, RegisterSyscallInv
<1>4. CASE \E features \in FeatureSets : SetFeatures(features)
  BY <1>4, SetFeaturesInv
<1>5. CASE \E t \in Targets : SetEpochStake(MockEpochStake(t))
  BY <1>5, SetEpochStakeInv, MockStakeExact, StakeAssumption
<1>6. CASE \E s \in Stakes : SetEpochStake(Append(epoch_stake, s))
  <2>1. PICK s \in Stakes : SetEpochStake(Append(epoch_stake, s))
    BY <1>6
  <2>2. Append(epoch_stake, s) \in Seq(0..(U64 - 1))
    <3> DEFINE u64 == 0..(U64 - 1)
    <3>1. epoch_stake \in Seq(u64) /\ s \in u64
      BY StakeAssumption DEF EInv, EnvironmentTypeOK
    <3> HIDE DEF u64
    <3>2. Append(epoch_stake, s) \in Seq(u64)
      BY <3>1
    <3> QED BY <3>2 DEF u64
  <2> QED BY <2>1, <2>2, SetEpochStakeInv
<1>7. CASE \E ixs \in Messages : BeginMessage(ixs)
  BY <1>7, BeginMessageInv
<1>8. CASE \/ \E ixs \in Messages : BeginPanics(ixs)
           \/ TotalStakePanics \/ CallbackBorrows
  BY <1>8, PanicInv DEF BeginPanics, TotalStakePanics, CallbackBorrows
<1>9. CASE \E fails \in BOOLEAN : Invoke(fails)
  BY <1>9, InvokeInv
<1>10. CASE InvokeMissing
  BY <1>10, InvokeMissingInv
<1>11. CASE ReadTotalStake
  BY <1>11, ReadTotalStakeInv
<1>12. CASE AfterInvocation
  BY <1>12, AfterInvocationInv
<1>13. CASE EndMessage
  BY <1>13, EndMessageInv
<1>14. CASE NewTest
  BY <1>14, NewTestInv
<1>15. CASE UNCHANGED vars
  <2> USE <1>15 DEF vars
  <2>1. EnvironmentTypeOK'
    BY DEF EInv, EnvironmentTypeOK
  <2>2. StakeKept' /\ (pc' \in {"test", "panicked"} => vm_traces' = <<>>)
    BY DEF EInv, StakeKept, TracesKept
  <2> QED BY <2>1, <2>2, SameCacheInv DEF cacheVars
<1> QED BY <1>1, <1>2, <1>3, <1>4, <1>5, <1>6, <1>7, <1>8, <1>9, <1>10, <1>11, <1>12,
           <1>13, <1>14, <1>15 DEF Next

-----------------------------------------------------------------------------
(* The theorems.                                                           *)

(* What every reachable state satisfies.                                   *)
THEOREM EnvironmentInvariance == Spec => []EInv
BY InitInv, NextInv, PTL DEF Spec

(* EnvironmentTypeOK: stakes and totals are u64s, though the sum of the    *)
(* stakes need not be, and the files of traces are those of ELFs.          *)
THEOREM EnvironmentTyped == Spec => []EnvironmentTypeOK
BY EnvironmentInvariance, PTL DEF EInv

(* RecordAgrees: what a callback may read beside the borrowed cache is     *)
(* what the SVM runs, unless an instruction has deployed the program.      *)
THEOREM RecordAgreement == Spec => []RecordAgrees
<1>1. EInv => RecordAgrees
  BY DEF EInv, RecordKept, RecordAgrees, Cached, Find
<1> QED BY <1>1, EnvironmentInvariance, PTL

(* SyscallsBoundAtLoad: a program has the syscalls of its loading, all     *)
(* gated ones if the test added it, no custom one if it was deployed.      *)
THEOREM SyscallBinding == Spec => []SyscallsBoundAtLoad
<1>1. EInv => SyscallsBoundAtLoad
  BY SyscallsAssumption DEF EInv, SyscallsKept, SyscallsBoundAtLoad
<1> QED BY <1>1, EnvironmentInvariance, PTL

(* StakeExact: a program that is told a total is told the exact sum where  *)
(* the build checks overflow, and a mock of any target adds up to it.      *)
THEOREM ExactStake == Spec => []StakeExact
<1>1. EInv => StakeExact
  <2> SUFFICES ASSUME EInv PROVE StakeExact
    OBVIOUS
  <2>1. ASSUME overflow_checks, total_stake # Missing PROVE total_stake = Total(epoch_stake)
    <3>1. U64 \in Nat \ {0} /\ Total(epoch_stake) \in Nat
      BY TotalTyped DEF EInv
    <3>2. total_stake = Total(epoch_stake) % U64 /\ Total(epoch_stake) < U64
      BY <2>1 DEF EInv, StakeKept
    <3> QED BY <3>1, <3>2
  <2>2. ASSUME NEW target \in Targets, epoch_stake = MockEpochStake(target)
        PROVE  /\ Total(epoch_stake) = target
               /\ \A vote \in DOMAIN epoch_stake :
                    /\ epoch_stake[vote] < 2 * Base
                    /\ epoch_stake[vote] >= Base \/ epoch_stake = <<target>>
    BY <2>2, MockStakeExact, StakeAssumption
  <2> QED BY <2>1, <2>2 DEF StakeExact
<1> QED BY <1>1, EnvironmentInvariance, PTL

(* DeploymentStays: nothing but another deployment, or the Mollusk of the  *)
(* next test, replaces what an instruction has deployed.                   *)
THEOREM DeploymentPersists == Spec => DeploymentStays
<1>1. [Next]_vars => [DeploymentKept]_vars
  <2> SUFFICES ASSUME Next, NEW p \in Program, modified[p] # Missing, Find(p)' # Find(p)
               PROVE  \/ pc = "invoke" /\ UpgradeableLoader \in {Head(message).program,
                                                             Head(message).callee}
                      \/ pc = "panicked"
    BY DEF DeploymentKept
  <2>1. modified'[p] # modified[p]
    BY DEF Find
  <2>2. CASE \E fails \in BOOLEAN : Invoke(fails)
    BY <2>1, <2>2 DEF Invoke
  <2>3. CASE NewTest
    BY <2>3 DEF NewTest
  <2>4. CASE \/ \E add \in Additions : AddProgram(add[1], add[2], add[3])
             \/ \E b \in BuiltinAdditions : AddBuiltin(b)
    BY <2>1, <2>4 DEF AddProgram, AddBuiltin, Replenish
  <2>5. CASE \/ \E s \in Custom : RegisterSyscall(s)
             \/ \E features \in FeatureSets : SetFeatures(features)
             \/ \E stake : SetEpochStake(stake)
    BY <2>1, <2>5 DEF RegisterSyscall, SetFeatures, SetEpochStake, cacheVars
  <2>6. CASE \/ \E ixs \in Messages : BeginMessage(ixs) \/ BeginPanics(ixs)
             \/ InvokeMissing \/ ReadTotalStake \/ TotalStakePanics
             \/ AfterInvocation \/ CallbackBorrows \/ EndMessage
    BY <2>1, <2>6 DEF BeginMessage, BeginPanics, InvokeMissing, ReadTotalStake,
         TotalStakePanics, AfterInvocation, CallbackBorrows, EndMessage, Panic, cacheVars
  <2> QED BY <2>2, <2>3, <2>4, <2>5, <2>6 DEF Next
<1> QED BY <1>1, PTL DEF Spec, DeploymentStays

(* TracesOfTheirElf: although the record is asked and not the SVM, and     *)
(* files are written over, each run of a message has its files, and they   *)
(* name the ELF that ran unless an instruction has deployed their program. *)
THEOREM TracedElf == Spec => TracesOfTheirElf
<1>1. EInv /\ [Next]_vars => [TracesNamed]_vars
  <2> SUFFICES ASSUME EInv, Next, pc = "after", pc' = "invoke", inspector = "tracing"
               PROVE  TracesNamed
    BY DEF TracesNamed
  <2>1. AfterInvocation
    BY DEF Next, AddProgram, AddBuiltin, RegisterSyscall, SetFeatures, SetEpochStake,
           BeginMessage, BeginPanics, Invoke, InvokeMissing, ReadTotalStake,
           TotalStakePanics, CallbackBorrows, EndMessage, NewTest, Panic
  <2>2. trace_dir' = Collected
    BY <2>1 DEF AfterInvocation
  <2> QED BY <2>2, CollectedNames DEF TracesNamed
<1> QED BY <1>1, EnvironmentInvariance, PTL DEF Spec, TracesOfTheirElf
=============================================================================
