----------------------------- MODULE Processing -----------------------------
(***************************************************************************)
(* The instruction processor of the harness (harness/src/lib.rs with       *)
(* compile_accounts.rs and instructions_sysvar.rs): one call of            *)
(* process_instruction, process_instruction_chain or                       *)
(* process_transaction_instructions at a time, broken into the steps the   *)
(* code takes: fallbacks and sysvar cache, compilation of a message, one   *)
(* invocation per instruction, deconstruction of the resulting accounts.   *)
(*                                                                         *)
(* The three calls differ only in how they cut the instructions into       *)
(* messages, so a call is a sequence of messages: process_instruction has  *)
(* one message of one instruction, a chain has one message per             *)
(* instruction, a transaction has one message with all of them.            *)
(*                                                                         *)
(* External: the SVM.  A program may change every account its message lets *)
(* it write, consume units, make CPIs, and fail after any of it.           *)
(***************************************************************************)
EXTENDS Integers, Sequences, FiniteSets, Sums

CONSTANTS
  Key,                \* account addresses
  Program,            \* addresses that instructions target
  Precompile,         \* the programs that are precompiles
  Loader,             \* owners under which the runtime executes a program
  NativeLoader,       \* the loader of builtins and precompiles
  UpgradeableLoader,  \* LOADER_V3, whose presence lifts program demotion
  IxSysvar,           \* address of the instructions sysvar
  ClockKey,           \* address of the clock sysvar
  SysvarOwner,        \* owner of every sysvar account
  DefaultOwner,       \* owner of Account::default()
  Content,            \* payloads of accounts that are not sysvars
  NoData,             \* the payload of a default account
  Written,            \* accounts that an execution can leave behind
  Calls,              \* calls made on the harness
  AccountLists,       \* account lists passed with them
  InitialCache,       \* programs cached when the test starts
  Additions,          \* the <<program, loader>> pairs that a test adds
  MaxSlot,            \* bound: slots that warp_to_slot reaches
  UnitLimit,          \* compute_unit_limit of one message
  MaxCpi,             \* bound: CPIs of one top-level instruction
  IndexCount          \* values of the u8 that reports a failed instruction: 256

Instruction == [program : Program, ro : SUBSET Key, rw : SUBSET Key]
ClockData == [slot : Nat]
Introspection == [ixs : Seq(Instruction), index : Nat]
Account == [owner : Key, data : Content \cup ClockData \cup Introspection]
KeyedAccount == [key : Key, account : Account]

(* `strict` says that the call runs checks (process_and_validate_...) with *)
(* config.panic set, so that a failing check panics.  Without it a check   *)
(* only returns a Boolean that these calls ignore.                         *)
Call == [api : {"instruction", "chain", "transaction"},
         ixs : Seq(Instruction), strict : BOOLEAN]

(* One invocation of a top-level instruction, for the history.             *)
Invocation == [ix : Instruction, ok : BOOLEAN, units : Nat, cpis : Nat]

(* An account list is one the harness can make sense of: what it has at a  *)
(* sysvar's address is that sysvar, except that the instructions sysvar    *)
(* may have a foreign owner, which the runtime rejects.                    *)
WellFormed(list) ==
  /\ list \in Seq(KeyedAccount)
  /\ \A i \in DOMAIN list :
       /\ list[i].key = ClockKey =>
            list[i].account \in [owner : {SysvarOwner}, data : ClockData]
       /\ list[i].key = IxSysvar /\ list[i].account.owner = SysvarOwner =>
            list[i].account.data \in Introspection

ASSUME KeysAssumption ==
  /\ Program \subseteq Key /\ Precompile \subseteq Program
  /\ Loader \subseteq Key /\ {NativeLoader, UpgradeableLoader} \subseteq Loader
  /\ {IxSysvar, ClockKey} \subseteq Key \ Program /\ IxSysvar # ClockKey
  /\ {SysvarOwner, DefaultOwner} \subseteq Key \ Loader /\ SysvarOwner # DefaultOwner
  /\ NoData \in Content
ASSUME WrittenAssumption == Written \subseteq Account
ASSUME CallsAssumption ==
  Calls \subseteq {c \in Call : c.api = "instruction" => Len(c.ixs) = 1}
ASSUME ListsAssumption == \A list \in AccountLists : WellFormed(list)
ASSUME CacheAssumption ==
  /\ DOMAIN InitialCache \subseteq Program
  /\ InitialCache \in [DOMAIN InitialCache -> Loader]
ASSUME AdditionsAssumption == Additions \subseteq Program \X Loader
ASSUME BoundsAssumption ==
  /\ MaxSlot \in Nat /\ UnitLimit \in Nat /\ MaxCpi \in Nat
  /\ IndexCount \in Nat \ {0}

VARIABLES
  cache,      \* program_cache: program -> loader it was added under
  slot,       \* sysvars.clock.slot
  pc,         \* where the call in progress is
  call,       \* its arguments: the instructions
  given,      \*   and the accounts
  fallbacks,  \* fallback_accounts: key -> account
  clockSeen,  \* the slot that sysvar_cache gives to the clock syscall
  element,    \* the message to run next, 1..Elements(call) + 1
  next,       \* the instruction of the message to invoke next
  tx,         \* the accounts of the transaction context: key -> account
  exec,       \* the MessageResult being built
  result,     \* the (composite) result
  log         \* history: the invocations of this call

mollusk == <<cache, slot>>
locals == <<call, given, fallbacks, clockSeen, element, next, tx, exec, result, log>>
vars == <<cache, slot, pc, call, given, fallbacks, clockSeen, element, next,
          tx, exec, result, log>>

-----------------------------------------------------------------------------
(* Account lists: accounts.iter().find(|(k, _)| k == key).                 *)

Has(list, k) == \E i \in DOMAIN list : list[i].key = k

FirstIndex(list, k) ==
  CHOOSE i \in DOMAIN list :
    list[i].key = k /\ \A j \in DOMAIN list : list[j].key = k => i <= j

(* What storing the entries in order leaves at the key: the last one.      *)
FindLast(list, k) ==
  list[CHOOSE i \in DOMAIN list :
         list[i].key = k /\ \A j \in DOMAIN list : list[j].key = k => j <= i].account

Find(list, k) == list[FirstIndex(list, k)].account

-----------------------------------------------------------------------------
(* Messages: what Message::new and LegacyMessage make of instructions.     *)

Elements(c) == IF c.api = "transaction" THEN 1 ELSE Len(c.ixs)

Message(c, e) == IF c.api = "transaction" THEN c.ixs ELSE <<c.ixs[e]>>

CalledPrograms(ixs) == {ixs[i].program : i \in DOMAIN ixs}

MessageKeys(ixs) ==
  UNION {ixs[i].ro \cup ixs[i].rw \cup {ixs[i].program} : i \in DOMAIN ixs}

(* A key is writable if any instruction says so; a key called as a program *)
(* is demoted unless the upgradeable loader is among the keys.             *)
WritableKeys(ixs) ==
  LET asked == UNION {ixs[i].rw : i \in DOMAIN ixs}
  IN  IF UpgradeableLoader \in MessageKeys(ixs) THEN asked
      ELSE asked \ CalledPrograms(ixs)

\* Mutant: a chain does not set the top-level instruction index.
IndexInMessage == next - 1

(* The index that entering a top-level instruction stores in the           *)
(* instructions sysvar.  Each message counts from 0, and an element of a   *)
(* chain first sets the count to its own place in the chain.               *)

TopLevelIndex == (IF call.api = "chain" THEN element - 1 ELSE 0) + (next - 1)

-----------------------------------------------------------------------------
(* get_account_fallbacks and setup_sysvar_cache.                           *)

IxSysvarAccount(ixs) ==
  [owner |-> SysvarOwner, data |-> [ixs |-> ixs, index |-> 0]]

LoaderKey(p) == IF p \in Precompile THEN NativeLoader ELSE cache[p]

ProgramStub(p) == [owner |-> LoaderKey(p), data |-> NoData]

(* The programs on which get_loader_key panics with ProgramNotCached.      *)
Uncached(ixs, list) ==
  {p \in CalledPrograms(ixs) :
     ~Has(list, p) /\ p \notin Precompile /\ p \notin DOMAIN cache}

\* Mutant: only the first instruction's program gets a stub.
FallbackKeysOfFirst(ixs, list) ==
  {k \in {ixs[i].program : i \in DOMAIN ixs \cap {1}} \cup {IxSysvar} : ~Has(list, k)}

FallbackKeys(ixs, list) ==
  {k \in CalledPrograms(ixs) \cup {IxSysvar} : ~Has(list, k)}

\* Mutant: stubs are not owned by a loader.
FallbacksUnowned(ixs, list) ==
  [k \in FallbackKeys(ixs, list) |->
     IF k = IxSysvar THEN IxSysvarAccount(ixs)
     ELSE [owner |-> SysvarOwner, data |-> NoData]]

Fallbacks(ixs, list) ==
  [k \in FallbackKeys(ixs, list) |->
     IF k = IxSysvar THEN IxSysvarAccount(ixs) ELSE ProgramStub(k)]

\* Mutant: the sysvar cache takes the last clock account of the list.
ClockFromLast(list) ==
  IF Has(list, ClockKey) THEN FindLast(list, ClockKey).data.slot ELSE slot

ClockFor(list) ==
  IF Has(list, ClockKey) THEN Find(list, ClockKey).data.slot ELSE slot

-----------------------------------------------------------------------------
(* build_transaction_accounts.                                             *)

(* Keys for which it panics with AccountMissing: neither provided nor a    *)
(* fallback, and of no kind that has a default of its own.                 *)
Missing(ixs, list) ==
  {k \in MessageKeys(ixs) :
     /\ ~Has(list, k) /\ k \notin DOMAIN fallbacks
     /\ k \notin CalledPrograms(ixs) /\ k # IxSysvar}

CompiledAccount(k, ixs, list) ==
  CASE Has(list, k) -> Find(list, k)
    [] ~Has(list, k) /\ k \in DOMAIN fallbacks -> fallbacks[k]
    [] ~Has(list, k) /\ k \notin DOMAIN fallbacks /\ k = IxSysvar ->
         IxSysvarAccount(ixs)
    [] OTHER -> [owner |-> DefaultOwner, data |-> NoData]

-----------------------------------------------------------------------------
NoMessage == [units |-> 0, failed |-> 0, inner |-> <<>>]
EmptyMap == [k \in {} |-> NoData]
NoCall == [api |-> "chain", ixs |-> <<>>, strict |-> FALSE]

InitialResult(list) ==
  [accounts |-> list, failed |-> 0, units |-> 0, inner |-> <<>>]

Init ==
  /\ cache = InitialCache
  /\ slot = 0
  /\ pc = "idle"
  /\ call = NoCall /\ given = <<>>
  /\ fallbacks = EmptyMap /\ clockSeen = 0
  /\ element = 1 /\ next = 1
  /\ tx = EmptyMap /\ exec = NoMessage
  /\ result = InitialResult(<<>>) /\ log = <<>>

(* Mollusk::add_program... and ProgramCache::add_program.                  *)
AddProgram(p, loader) ==
  /\ pc = "idle"
  /\ cache' = [q \in DOMAIN cache \cup {p} |-> IF q = p THEN loader ELSE cache[q]]
  /\ UNCHANGED <<slot, pc, locals>>

(* Mollusk::warp_to_slot, as far as the clock's slot goes.                 *)
WarpToSlot(s) ==
  /\ pc = "idle"
  /\ slot' = s
  /\ UNCHANGED <<cache, pc, locals>>

(* Up to the first message: fallbacks and sysvar cache are computed once,  *)
(* from the accounts as they are given.  A chain of no instruction returns *)
(* at once.                                                                *)
Begin(c, list) ==
  /\ pc = "idle"
  /\ Uncached(c.ixs, list) = {}
  /\ pc' = IF Elements(c) = 0 THEN "returned" ELSE "compile"
  /\ call' = c /\ given' = list
  /\ fallbacks' = Fallbacks(c.ixs, list)
  /\ clockSeen' = ClockFor(list)
  /\ result' = InitialResult(list)
  /\ UNCHANGED <<mollusk, element, next, tx, exec, log>>

BeginPanics(c, list) ==
  /\ pc = "idle"
  /\ Uncached(c.ixs, list) # {}
  /\ pc' = "panicked"
  /\ UNCHANGED <<mollusk, locals>>

(* compile_accounts and create_transaction_context for one message.        *)
CompileMessage ==
  LET ixs == Message(call, element) IN
  /\ pc = "compile"
  /\ Missing(ixs, result.accounts) = {}
  /\ tx' = [k \in MessageKeys(ixs) |-> CompiledAccount(k, ixs, result.accounts)]
  /\ next' = 1
  /\ exec' = NoMessage
  /\ pc' = IF ixs = <<>> THEN "deconstruct" ELSE "invoke"
  /\ UNCHANGED <<mollusk, call, given, fallbacks, clockSeen, element, result, log>>

CompilePanics ==
  /\ pc = "compile"
  /\ Missing(Message(call, element), result.accounts) # {}
  /\ pc' = "panicked"
  /\ UNCHANGED <<mollusk, locals>>

-----------------------------------------------------------------------------
(* process_transaction_message: one top-level instruction after the other. *)

(* TransactionContext::push fails on a foreign instructions sysvar.        *)
CanEnter == IxSysvar \in DOMAIN tx => tx[IxSysvar].owner = SysvarOwner

(* The SVM finds a loader for the program account and the program in the   *)
(* cache.                                                                  *)
Runnable(ix) == tx[ix.program].owner \in Loader /\ ix.program \in DOMAIN cache

(* The context as the instruction sees it.                                 *)
Entered ==
  IF IxSysvar \in DOMAIN tx
  THEN [tx EXCEPT ![IxSysvar].data.index = TopLevelIndex]
  ELSE tx

(* What an execution can change: privileges are those of the message, and  *)
(* accounts that are sysvars or programs when it starts are out of its     *)
(* reach.  What it leaves may be owned by anyone, a loader included.       *)
Touchable(ix) ==
  {k \in (ix.ro \cup ix.rw) \cap WritableKeys(Message(call, element)) :
     tx[k].owner \notin Loader \cup {SysvarOwner}}

(* The index of the instruction as a u8, plus one: zero is for a success.  *)
FailureCode == ((next - 1) % IndexCount) + 1

\* Mutant: the loop goes on after a failed instruction.
EndInvocationLate(ix, ok, units, cpis) ==
  /\ exec' = [units |-> exec.units + units,
              failed |-> IF ok THEN exec.failed ELSE FailureCode,
              inner |-> Append(exec.inner, cpis)]
  /\ log' = Append(log, [ix |-> ix, ok |-> ok, units |-> units, cpis |-> cpis])
  /\ next' = next + 1
  /\ pc' = IF next = Len(Message(call, element)) THEN "deconstruct" ELSE "invoke"
  /\ UNCHANGED <<mollusk, call, given, fallbacks, clockSeen, element, result>>

(* The end of the loop body: account for the invocation, stop at the first *)
(* error.  The trace of top-level instruction i becomes group i of inner.  *)
EndInvocation(ix, ok, units, cpis) ==
  /\ exec' = [units |-> exec.units + units,
              failed |-> IF ok THEN 0 ELSE FailureCode,
              inner |-> Append(exec.inner, cpis)]
  /\ log' = Append(log, [ix |-> ix, ok |-> ok, units |-> units, cpis |-> cpis])
  /\ next' = next + 1
  /\ pc' = IF ok /\ next < Len(Message(call, element)) THEN "invoke" ELSE "deconstruct"
  /\ UNCHANGED <<mollusk, call, given, fallbacks, clockSeen, element, result>>

NextInstruction == Message(call, element)[next]

(* A program runs: any of its accounts may be left changed, error or not.  *)
InvokeProgram ==
  LET ix == NextInstruction IN
  /\ pc = "invoke"
  /\ ix.program \notin Precompile /\ CanEnter /\ Runnable(ix)
  /\ \E ok \in BOOLEAN, units \in 0..(UnitLimit - exec.units), cpis \in 0..MaxCpi,
        dirty \in SUBSET Touchable(ix) : \E after \in [dirty -> Written] :
       /\ tx' = [k \in DOMAIN tx |-> IF k \in dirty THEN after[k] ELSE Entered[k]]
       /\ EndInvocation(ix, ok, units, cpis)

(* process_precompile: only looks at instruction data.                     *)
InvokePrecompile ==
  LET ix == NextInstruction IN
  /\ pc = "invoke"
  /\ ix.program \in Precompile /\ CanEnter
  /\ tx' = Entered
  /\ \E ok \in BOOLEAN : EndInvocation(ix, ok, 0, 0)

(* The SVM gives the instruction up before any program runs.               *)
RejectInstruction ==
  LET ix == NextInstruction IN
  /\ pc = "invoke"
  /\ ~CanEnter \/ (ix.program \notin Precompile /\ ~Runnable(ix))
  /\ tx' = IF CanEnter THEN Entered ELSE tx
  /\ EndInvocation(ix, FALSE, 0, 0)

-----------------------------------------------------------------------------
(* What the message leaves, and the result of the call.                    *)

\* Mutant: only accounts the message may write are read back.
ResultingAccountsOfMessage(list) ==
  [i \in DOMAIN list |->
     IF list[i].key \in WritableKeys(Message(call, element)) /\ list[i].key \in DOMAIN tx
     THEN [list[i] EXCEPT !.account = tx[list[i].key]] ELSE list[i]]

(* deconstruct_resulting_accounts: the provided list, in its order, each   *)
(* account as the context holds it.                                        *)
ResultingAccounts(list) ==
  [i \in DOMAIN list |->
     IF list[i].key \in DOMAIN tx
     THEN [list[i] EXCEPT !.account = tx[list[i].key]] ELSE list[i]]

\* Mutant: a transaction reports the group of its first instruction.
ReportedFirstGroup == IF exec.inner = <<>> THEN <<>> ELSE <<exec.inner[1]>>

(* The vector of CPIs that the result of one message reports: the first    *)
(* group for a single instruction, the group at the element's index for an *)
(* element of a chain (none, if there is no such group), all groups for a  *)
(* transaction.                                                            *)
ReportedInner ==
  LET at == IF call.api = "chain" THEN element ELSE 1 IN
  CASE call.api = "transaction" -> exec.inner
    [] call.api # "transaction" /\ at \in DOMAIN exec.inner -> <<exec.inner[at]>>
    [] OTHER -> <<0>>

\* Mutant: partial writes of a failed message reach the result.
AbsorbedPartial ==
  [accounts |-> ResultingAccounts(result.accounts),
   failed |-> exec.failed,
   units |-> result.units + exec.units,
   inner |-> ReportedInner]

\* Mutant: the index of the failed instruction counts from zero.
AbsorbedFromZero ==
  [accounts |-> IF exec.failed = 0 THEN ResultingAccounts(result.accounts)
                ELSE result.accounts,
   failed |-> exec.failed - 1,
   units |-> result.units + exec.units,
   inner |-> ReportedInner]

\* Mutant: units of earlier elements are overwritten, not added up.
AbsorbedLastUnits ==
  [accounts |-> IF exec.failed = 0 THEN ResultingAccounts(result.accounts)
                ELSE result.accounts,
   failed |-> exec.failed,
   units |-> exec.units,
   inner |-> ReportedInner]

(* The result of the message, absorbed by the result so far.  For the      *)
(* calls with one message this is that message's result.                   *)
Absorbed ==
  [accounts |-> IF exec.failed = 0 THEN ResultingAccounts(result.accounts)
                ELSE result.accounts,
   failed |-> exec.failed,
   units |-> result.units + exec.units,
   inner |-> ReportedInner]

(* The chain's loop: on to the next element unless this one failed.        *)
Advance ==
  /\ element' = IF exec.failed = 0 THEN element + 1 ELSE element
  /\ pc' = IF exec.failed # 0 \/ element = Elements(call)
           THEN "returned" ELSE "compile"

DeconstructMessage ==
  /\ pc = "deconstruct"
  /\ result' = Absorbed
  /\ Advance
  /\ UNCHANGED <<mollusk, call, given, fallbacks, clockSeen, next, tx, exec, log>>

(* run_checks on the message's result panics.                              *)
CheckPanics ==
  /\ pc = "deconstruct"
  /\ call.strict
  /\ pc' = "panicked"
  /\ UNCHANGED <<mollusk, locals>>

(* The caller takes the result, or catches the panic; locals are dropped.  *)
Return ==
  /\ pc \in {"returned", "panicked"}
  /\ pc' = "idle"
  /\ call' = NoCall /\ given' = <<>>
  /\ fallbacks' = EmptyMap /\ clockSeen' = 0
  /\ element' = 1 /\ next' = 1
  /\ tx' = EmptyMap /\ exec' = NoMessage
  /\ result' = InitialResult(<<>>) /\ log' = <<>>
  /\ UNCHANGED mollusk

(* The steps of a call once it has begun.                                  *)
Step ==
  \/ CompileMessage \/ CompilePanics
  \/ InvokeProgram \/ InvokePrecompile \/ RejectInstruction
  \/ DeconstructMessage \/ CheckPanics

Next ==
  \/ \E add \in Additions : AddProgram(add[1], add[2])
  \/ \E s \in 0..MaxSlot : WarpToSlot(s)
  \/ \E c \in Calls, list \in AccountLists : Begin(c, list) \/ BeginPanics(c, list)
  \/ Step
  \/ Return

Spec == Init /\ [][Next]_vars

-----------------------------------------------------------------------------
TotalUnits(invocations) ==
  SumOf([i \in DOMAIN invocations |-> invocations[i].units])

Running == pc \in {"invoke", "deconstruct"}

TypeOK ==
  /\ DOMAIN cache \subseteq Program
  /\ cache \in [DOMAIN cache -> Loader]
  /\ slot \in 0..MaxSlot
  /\ pc \in {"idle", "compile", "invoke", "deconstruct", "returned", "panicked"}
  /\ call \in Call
  /\ given \in Seq(KeyedAccount)
  /\ DOMAIN fallbacks \subseteq Program \cup {IxSysvar}
  /\ fallbacks \in [DOMAIN fallbacks -> Account]
  /\ clockSeen \in Nat
  /\ element \in Nat \ {0} /\ next \in Nat \ {0}
  /\ DOMAIN tx \subseteq Key
  /\ tx \in [DOMAIN tx -> Account]
  /\ exec \in [units : Nat, failed : Nat, inner : Seq(Nat)]
  /\ result \in [accounts : Seq(KeyedAccount), failed : Nat, units : Nat,
                 inner : Seq(Nat)]
  /\ log \in Seq(Invocation)

(* Instructions run in the order of the call, each once, up to the first   *)
(* failure and no further; a call that returns says how that ended, and a  *)
(* transaction says which instruction it was, as long as the reported      *)
(* index has a value for it.                                               *)
RunsInOrder ==
  /\ Len(log) <= Len(call.ixs)
  /\ \A i \in 1..Len(log) : log[i].ix = call.ixs[i]
  /\ \A i \in 1..(Len(log) - 1) : log[i].ok
  /\ pc = "returned" /\ result.failed = 0 =>
       Len(log) = Len(call.ixs) /\ \A i \in DOMAIN log : log[i].ok
  /\ pc = "returned" /\ result.failed # 0 =>
       Len(log) > 0 /\ ~log[Len(log)].ok
  /\ /\ pc = "returned" /\ result.failed # 0 /\ call.api = "transaction"
     /\ Len(log) <= IndexCount
     => result.failed = Len(log)

(* The result's compute units are those of every invocation of the call,   *)
(* failed ones and every element of a chain included.                      *)
UnitsAccounted == pc = "returned" => result.units = TotalUnits(log)

(* A program that reads the instructions sysvar the harness built sees all *)
(* the instructions of the call and its own place among them, in a chain   *)
(* as in a transaction.                                                    *)
IntrospectionTruthful ==
  Running /\ next > 1 /\ IxSysvar \in DOMAIN tx /\ ~Has(given, IxSysvar) =>
    tx[IxSysvar] = [owner |-> SysvarOwner,
                    data |-> [ixs |-> call.ixs, index |-> Len(log) - 1]]

(* The accounts build_transaction_accounts has in store for a program or   *)
(* an instructions sysvar that is neither provided nor a fallback are      *)
(* never used, in no element of a chain.                                   *)
FallbacksCover ==
  pc = "compile" =>
    \A k \in MessageKeys(Message(call, element)) :
      k \in CalledPrograms(Message(call, element)) \cup {IxSysvar} =>
        Has(result.accounts, k) \/ k \in DOMAIN fallbacks

(* A program for which the caller passes no account runs under the loader  *)
(* it was added with, wherever in the call it is.                          *)
CachedProgramsRun ==
  pc = "invoke" /\ ~Has(given, NextInstruction.program) =>
    tx[NextInstruction.program].owner = LoaderKey(NextInstruction.program)

(* The clock account and the clock syscall tell a program the same slot,   *)
(* though one is looked up per message and the other once per call.        *)
ClockViewsAgree ==
  Running /\ ClockKey \in DOMAIN tx => tx[ClockKey].data.slot = clockSeen

(* When a caller lists a key more than once, the entries agree once a      *)
(* message with that key has succeeded.                                    *)
DuplicatesAgree ==
  \A e \in 1..(element - 1) : \A k \in MessageKeys(Message(call, e)) :
    \A i, j \in DOMAIN result.accounts :
      result.accounts[i].key = k /\ result.accounts[j].key = k =>
        result.accounts[i] = result.accounts[j]

(* README.md, Inner Instructions Tracking: every result has a vector of    *)
(* all CPIs that occurred.  Here: the CPIs of the last instruction run.    *)
InnerReported ==
  pc = "returned" /\ log # <<>> =>
    result.inner # <<>> /\ result.inner[Len(result.inner)] = log[Len(log)].cpis

(* The same outside of chains.                                             *)
InnerReportedByMessage == call.api # "chain" => InnerReported

-----------------------------------------------------------------------------
(* The promise of the three calls: AtomicProcessing.                       *)

Status ==
  CASE pc = "idle" -> "idle"
    [] pc = "panicked" -> "panicked"
    [] pc = "returned" -> IF result.failed = 0 THEN "ok" ELSE "failed"
    [] OTHER -> "open"

Plan == [e \in 1..Elements(call) |-> WritableKeys(Message(call, e)) \cup {IxSysvar}]

Atomic == INSTANCE AtomicProcessing WITH
  status <- Status, plan <- Plan, done <- element - 1, ledger <- result.accounts

AtomicCalls == Atomic!Spec
=============================================================================
