--------------------------- MODULE MolluskContext ---------------------------
(***************************************************************************)
(* MolluskContext (harness/src/lib.rs): the processor of Processing behind *)
(* a persistent account store.  Every call loads its account list from the *)
(* store and the environment, runs, and stores the resulting accounts if   *)
(* it succeeded.                                                           *)
(*                                                                         *)
(* The store is an Rc<RefCell<AS>> that the test shares: it is borrowed to *)
(* load and to consume, never while the call runs, so that a test can      *)
(* store accounts between calls and from an invocation callback.           *)
(***************************************************************************)
EXTENDS Processing

CONSTANTS
  StubData,    \* payload of the program accounts the cache makes up
  Stores,      \* account stores that tests start from
  UserWrites   \* the <<key, account>> pairs a test stores by itself

Sequence == INSTANCE SequencesExt

WellFormedStore(s) ==
  /\ DOMAIN s \subseteq Key
  /\ s \in [DOMAIN s -> Account]
  /\ ClockKey \in DOMAIN s =>
       s[ClockKey] \in [owner : {SysvarOwner}, data : ClockData]

(* A Pubkey has 32 bytes.                                                  *)
ASSUME FiniteKeysAssumption == IsFiniteSet(Key)
ASSUME StubAssumption == StubData \in Content
ASSUME StoresAssumption == \A s \in Stores : WellFormedStore(s)
ASSUME WritesAssumption ==
  \A w \in UserWrites : WellFormedStore([k \in {w[1]} |-> w[2]])

VARIABLES
  store,   \* account_store: key -> account
  hydrate  \* hydrate_store

contextVars == <<cache, slot, pc, call, given, fallbacks, clockSeen, element,
                 next, tx, exec, result, log, store, hydrate>>

-----------------------------------------------------------------------------
(* The accounts the environment makes up.                                  *)

ProgramAccount(p) == [owner |-> cache[p], data |-> StubData]
ClockAccount == [owner |-> SysvarOwner, data |-> [slot |-> slot]]
DefaultAccount == [owner |-> DefaultOwner, data |-> NoData]

(* A map as a list, in an order that does not matter: keys are distinct.   *)
KeyedAccounts(accounts) ==
  LET order == Sequence!SetToSeq(DOMAIN accounts)
  IN  [i \in DOMAIN order |-> [key |-> order[i], account |-> accounts[order[i]]]]

(* get_all_keyed_program_accounts and get_all_keyed_sysvar_accounts; the   *)
(* clock stands for the eight sysvars.                                     *)
EnvironmentAccounts ==
  KeyedAccounts([prog \in DOMAIN cache |-> ProgramAccount(prog)])
    \o <<[key |-> ClockKey, account |-> ClockAccount]>>

MetaKeys(ixs) == UNION {ixs[i].ro \cup ixs[i].rw : i \in DOMAIN ixs}

(* What the store has, else a sysvar, else a program, else the default.    *)
StoredAccount(k) ==
  CASE k \in DOMAIN store -> store[k]
    [] k \notin DOMAIN store /\ k = ClockKey -> ClockAccount
    [] k \notin DOMAIN store /\ k \in DOMAIN cache -> ProgramAccount(k)
    [] OTHER -> DefaultAccount

StoredAccounts(keys) == [k \in keys |-> StoredAccount(k)]

\* Mutant: the accounts of the first instruction only.
LoadOfFirst(ixs) ==
  (IF hydrate THEN EnvironmentAccounts ELSE <<>>)
    \o KeyedAccounts(StoredAccounts(MetaKeys(SubSeq(ixs, 1, 1)) \ {IxSysvar}))

\* Mutant: hydration after the store's own accounts, not before them.
LoadStoreFirst(ixs) ==
  KeyedAccounts(StoredAccounts(MetaKeys(ixs) \ {IxSysvar}))
    \o (IF hydrate THEN EnvironmentAccounts ELSE <<>>)

\* Mutant: an instructions sysvar in the store is loaded as any account.
LoadWithIxSysvar(ixs) ==
  (IF hydrate THEN EnvironmentAccounts ELSE <<>>)
    \o KeyedAccounts(StoredAccounts(MetaKeys(ixs) \ ({IxSysvar} \ DOMAIN store)))

(* load_accounts_for_instructions: with hydration the environment comes    *)
(* first, whatever the store has; then the accounts that the instructions  *)
(* name, each once, the instructions sysvar never.                         *)
Load(ixs) ==
  (IF hydrate THEN EnvironmentAccounts ELSE <<>>)
    \o KeyedAccounts(StoredAccounts(MetaKeys(ixs) \ {IxSysvar}))

\* Mutant: an account that is already in the store is kept.
StoreNew(list) ==
  [k \in DOMAIN store \cup {list[i].key : i \in DOMAIN list} |->
     IF k \in DOMAIN store THEN store[k] ELSE FindLast(list, k)]

\* Mutant: every key is stored with the last account of the list.
StoreLastAccount(list) ==
  [k \in DOMAIN store \cup {list[i].key : i \in DOMAIN list} |->
     IF Has(list, k) THEN list[Len(list)].account ELSE store[k]]

(* store_account for every entry of the list, in order.                    *)
StoreAll(list) ==
  [k \in DOMAIN store \cup {list[i].key : i \in DOMAIN list} |->
     IF Has(list, k) THEN FindLast(list, k) ELSE store[k]]

-----------------------------------------------------------------------------
(* with_context: program accounts join the store unless it has them.       *)
ContextInit ==
  /\ Init
  /\ \E s \in Stores :
       store = [k \in DOMAIN s \cup DOMAIN cache |->
                  IF k \in DOMAIN s THEN s[k] ELSE ProgramAccount(k)]
  /\ hydrate = TRUE

(* The test changes the environment through the public field `mollusk`.    *)
ChangeEnvironment ==
  /\ \/ \E add \in Additions : AddProgram(add[1], add[2])
     \/ \E s \in 0..MaxSlot : WarpToSlot(s)
  /\ UNCHANGED <<store, hydrate>>

(* The public field hydrate_store.                                         *)
SetHydrate(b) ==
  /\ pc = "idle"
  /\ hydrate' = b
  /\ UNCHANGED <<mollusk, pc, locals, store>>

(* before_invocation and after_invocation get to run.                      *)
InCallback == pc = "invoke" \/ (pc = "deconstruct" /\ next > 1)

(* The test stores an account: between calls, or in a callback around an   *)
(* invocation.                                                             *)
StoreAccount(k, account) ==
  /\ pc = "idle" \/ InCallback
  /\ store' = [l \in DOMAIN store \cup {k} |-> IF l = k THEN account ELSE store[l]]
  /\ UNCHANGED <<mollusk, pc, locals, hydrate>>

ContextBegin(c) ==
  /\ Begin(c, Load(c.ixs)) \/ BeginPanics(c, Load(c.ixs))
  /\ UNCHANGED <<store, hydrate>>

ContextStep == Step /\ UNCHANGED <<store, hydrate>>

\* Mutant: the result is stored whether or not it is a success.
ConsumeAlways ==
  store' = IF pc = "returned" THEN StoreAll(result.accounts) ELSE store

(* consume_mollusk_result and consume_transaction_result; a panic unwinds  *)
(* past them.                                                              *)
Consume ==
  store' = IF pc = "returned" /\ result.failed = 0
           THEN StoreAll(result.accounts) ELSE store

ContextReturn == Return /\ Consume /\ UNCHANGED hydrate

ContextNext ==
  \/ ChangeEnvironment
  \/ \E b \in BOOLEAN : SetHydrate(b)
  \/ \E w \in UserWrites : StoreAccount(w[1], w[2])
  \/ \E c \in Calls : ContextBegin(c)
  \/ ContextStep
  \/ ContextReturn

ContextSpec == ContextInit /\ [][ContextNext]_contextVars

-----------------------------------------------------------------------------
ContextTypeOK == TypeOK /\ WellFormedStore(store) /\ hydrate \in BOOLEAN

(* After a success every account the call was given is in the store as the *)
(* last message left it, although the call's list may have several entries *)
(* for it and a callback may have stored another account meanwhile; the    *)
(* rest of the store is untouched.                                         *)
StoresExecution ==
  pc = "returned" /\ result.failed = 0 /\ pc' = "idle" =>
    /\ \A k \in DOMAIN store \ {given[i].key : i \in DOMAIN given} :
         k \in DOMAIN store' /\ store'[k] = store[k]
    /\ \A i \in DOMAIN given :
         store'[given[i].key] = IF given[i].key \in DOMAIN tx THEN tx[given[i].key]
                                ELSE Find(result.accounts, given[i].key)

StoreReflectsExecution == [][StoresExecution]_contextVars

(* The doc comment of MolluskContext: account state is persisted only if   *)
(* the execution succeeded.  Whatever a call that failed or panicked has   *)
(* done to its accounts, only the test itself has changed the store.       *)
StoresOnSuccess ==
  store' # store =>
    \/ pc = "returned" /\ result.failed = 0
    \/ pc \in {"idle", "invoke", "deconstruct"} /\ pc' = pc

FailureKeepsStore == [][StoresOnSuccess]_contextVars

(* A call sees the environment as it is now, whatever older calls left in  *)
(* the store: the clock of the last warp, in the account and in the        *)
(* syscall, unless hydration is off and the store has a clock; and with    *)
(* hydration every cached program under the loader it was last added with. *)
EnvironmentFresh ==
  Running =>
    /\ hydrate \/ ClockKey \notin DOMAIN store =>
         /\ clockSeen = slot
         /\ ClockKey \in DOMAIN tx => tx[ClockKey].data.slot = slot
    /\ hydrate => \A prog \in CalledPrograms(Message(call, element)) \cap DOMAIN cache :
         tx[prog].owner = cache[prog]

(* A context never panics for want of an account: loading covers every     *)
(* account of every message of the call.                                   *)
ContextNeverMissing ==
  pc = "compile" => Missing(Message(call, element), result.accounts) = {}

(* No store entry can stand in for the instructions sysvar: programs are   *)
(* told about the call they run in.                                        *)
ContextIntrospection ==
  Running /\ next > 1 /\ IxSysvar \in DOMAIN tx =>
    tx[IxSysvar].data = [ixs |-> call.ixs, index |-> Len(log) - 1]
=============================================================================
