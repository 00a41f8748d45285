-------------------------- MODULE ProcessingProofs --------------------------
(***************************************************************************)
(* Proofs about Processing and about MolluskContext, which makes the same  *)
(* calls, for every value of their constants.  First the processor alone:  *)
(* its type invariant, its safety invariants, and that the three calls     *)
(* implement AtomicProcessing.  Then the context: all of this holds of the *)
(* calls it makes, with the account lists that it loads instead of those   *)
(* of a test, and with it the invariants of the context itself and what    *)
(* its steps do to the store.                                              *)
(***************************************************************************)
EXTENDS MolluskContext, SumProofs, FiniteSetTheorems

-----------------------------------------------------------------------------
(* The inductive invariant: what each step of a call relies on.            *)

InCall == pc \in {"compile", "invoke", "deconstruct"}

(* Between calls no trace of an earlier one is left.                       *)
Clean ==
  pc = "idle" =>
    /\ call = NoCall /\ given = <<>> /\ fallbacks = EmptyMap
    /\ element = 1 /\ next = 1 /\ log = <<>>
    /\ tx = EmptyMap /\ exec = NoMessage /\ result = InitialResult(<<>>)

Placed ==
  /\ InCall => call \in Calls /\ element \in 1..Elements(call)
  /\ pc = "invoke" => next \in DOMAIN Message(call, element)
  /\ pc = "deconstruct" => next \in 1..(Len(Message(call, element)) + 1)

(* The result's list is the given list with other accounts.                *)
ListKept ==
  /\ WellFormed(result.accounts)
  /\ DOMAIN result.accounts = DOMAIN given
  /\ \A i \in DOMAIN given : result.accounts[i].key = given[i].key

FallbacksKept ==
  InCall =>
    /\ DOMAIN fallbacks = FallbackKeys(call.ixs, given)
    /\ IxSysvar \in DOMAIN fallbacks => fallbacks[IxSysvar] = IxSysvarAccount(call.ixs)

ClockKept ==
  InCall /\ Has(result.accounts, ClockKey) =>
    Find(result.accounts, ClockKey).data.slot = clockSeen

ContextKept ==
  Running =>
    /\ DOMAIN tx = MessageKeys(Message(call, element))
    /\ ClockKey \in DOMAIN tx =>
         tx[ClockKey] \in [owner : {SysvarOwner}, data : ClockData]
    /\ IxSysvar \in DOMAIN tx /\ tx[IxSysvar].owner = SysvarOwner =>
         tx[IxSysvar].data \in Introspection

(* What the message may not write is in the context as the list has it.    *)
FrameKept ==
  Running =>
    \A k \in DOMAIN tx \ (WritableKeys(Message(call, element)) \cup {IxSysvar}) :
      Has(result.accounts, k) => tx[k] = Find(result.accounts, k)

(* How far the call is, by element and next and by the history.            *)
LogKept ==
  /\ \A i \in 1..Len(log) : i \in DOMAIN call.ixs /\ log[i].ix = call.ixs[i]
  /\ pc = "compile" => Len(log) = element - 1
  /\ Running => Len(log) = (element - 1) + (next - 1)
  /\ pc \in {"compile", "invoke"} => exec.failed = 0
  /\ pc = "deconstruct" /\ exec.failed = 0 => next = Len(Message(call, element)) + 1
  /\ pc = "deconstruct" /\ exec.failed # 0 =>
       /\ next - 1 <= IndexCount => exec.failed = next - 1
       /\ Len(log) > 0 /\ ~log[Len(log)].ok
  /\ \A i \in 1..(Len(log) - 1) : log[i].ok
  /\ InCall /\ exec.failed = 0 => \A i \in 1..Len(log) : log[i].ok

IInv ==
  /\ TypeOK /\ Clean /\ Placed /\ ListKept /\ FallbacksKept /\ ClockKept
  /\ ContextKept /\ FrameKept /\ LogKept /\ ClockViewsAgree /\ DuplicatesAgree /\ RunsInOrder

-----------------------------------------------------------------------------
(* Lemmas on the operators.                                                *)

(* A lookup of a key that the list has finds the first entry of that key.  *)
LEMMA FirstIndexFound ==
  ASSUME NEW list \in Seq(KeyedAccount), NEW k, Has(list, k)
  PROVE  /\ FirstIndex(list, k) \in DOMAIN list
         /\ list[FirstIndex(list, k)].key = k
         /\ \A j \in DOMAIN list : list[j].key = k => FirstIndex(list, k) <= j
<1> DEFINE S == {i \in DOMAIN list : list[i].key = k}
<1>1. S \in SUBSET Nat /\ S # {}
  BY DEF Has
<1>2. \E m \in S : \A n \in S : m <= n
  BY <1>1, SmallestElement
<1> QED BY <1>2 DEF FirstIndex

(* Lists that agree on their keys agree on where a lookup ends.            *)
LEMMA SameLookups ==
  ASSUME NEW list \in Seq(KeyedAccount), NEW other \in Seq(KeyedAccount), NEW k,
         DOMAIN other = DOMAIN list,
         \A i \in DOMAIN list : other[i].key = list[i].key
  PROVE  /\ Has(other, k) = Has(list, k)
         /\ FirstIndex(other, k) = FirstIndex(list, k)
<1>1. Has(other, k) = Has(list, k)
  BY DEF Has
<1>2. \A i \in DOMAIN list :
        (other[i].key = k /\ \A j \in DOMAIN other : other[j].key = k => i <= j)
          = (list[i].key = k /\ \A j \in DOMAIN list : list[j].key = k => i <= j)
  OBVIOUS
<1>3. FirstIndex(other, k) = FirstIndex(list, k)
  BY <1>2, Zenon DEF FirstIndex
<1> QED BY <1>1, <1>3

(* What a lookup in a well-formed list returns.                            *)
LEMMA FindTyped ==
  ASSUME NEW list, WellFormed(list), NEW k, Has(list, k)
  PROVE  /\ Find(list, k) \in Account
         /\ k = ClockKey => Find(list, k) \in [owner : {SysvarOwner}, data : ClockData]
         /\ k = IxSysvar /\ Find(list, k).owner = SysvarOwner =>
              Find(list, k).data \in Introspection
<1>1. list \in Seq(KeyedAccount)
  BY DEF WellFormed
<1>2. FirstIndex(list, k) \in DOMAIN list /\ list[FirstIndex(list, k)].key = k
  BY <1>1, FirstIndexFound
<1>3. list[FirstIndex(list, k)] \in KeyedAccount
  BY <1>1, <1>2
<1> QED BY <1>2, <1>3 DEF Find, WellFormed, KeyedAccount

(* Messages are made of the call's instructions, and of keys.              *)
LEMMA MessageOfCall ==
  ASSUME NEW c \in Calls, NEW e \in 1..Elements(c)
  PROVE  /\ c \in Call
         /\ Message(c, e) \in Seq(Instruction)
         /\ c.api # "transaction" => Message(c, e) = <<c.ixs[e]>> /\ e \in DOMAIN c.ixs
         /\ c.api = "transaction" => Message(c, e) = c.ixs /\ e = 1
<1>1. c \in Call
  BY CallsAssumption
<1>2. c.ixs \in Seq(Instruction)
  BY <1>1 DEF Call
<1>3. CASE c.api = "transaction"
  BY <1>1, <1>2, <1>3 DEF Message, Elements
<1>4. CASE c.api # "transaction"
  BY <1>1, <1>2, <1>4 DEF Message, Elements
<1> QED BY <1>3, <1>4

LEMMA OneMessage ==
  ASSUME NEW c \in Calls, NEW e \in 1..Elements(c), c.api # "chain"
  PROVE  e = 1
<1>1. c \in Call /\ (c.api = "instruction" => Len(c.ixs) = 1)
  BY CallsAssumption
<1>2. c.api \in {"instruction", "transaction"}
  BY <1>1 DEF Call
<1>3. Elements(c) = 1
  BY <1>1, <1>2 DEF Elements
<1> QED BY <1>3

LEMMA KeysOfMessage ==
  ASSUME NEW ixs \in Seq(Instruction)
  PROVE  /\ MessageKeys(ixs) \subseteq Key
         /\ CalledPrograms(ixs) \subseteq Program
         /\ CalledPrograms(ixs) \subseteq MessageKeys(ixs)
<1>1. \A i \in DOMAIN ixs : ixs[i] \in Instruction
  OBVIOUS
<1>2. \A i \in DOMAIN ixs :
        ixs[i].program \in Program /\ ixs[i].ro \subseteq Key /\ ixs[i].rw \subseteq Key
  BY <1>1 DEF Instruction
<1> QED BY <1>2, KeysAssumption DEF MessageKeys, CalledPrograms

LEMMA ProgramsOfMessage ==
  ASSUME NEW c \in Calls, NEW e \in 1..Elements(c)
  PROVE  CalledPrograms(Message(c, e)) \subseteq CalledPrograms(c.ixs)
<1>1. \A i \in DOMAIN Message(c, e) : \E j \in DOMAIN c.ixs : Message(c, e)[i] = c.ixs[j]
  BY MessageOfCall
<1> QED BY <1>1 DEF CalledPrograms

(* What a message's accounts are when it is compiled.                      *)
LEMMA CompiledTyped ==
  ASSUME NEW c \in Calls, NEW e \in 1..Elements(c), NEW list, WellFormed(list),
         fallbacks \in [DOMAIN fallbacks -> Account],
         DOMAIN fallbacks \subseteq Program \cup {IxSysvar},
         IxSysvar \in DOMAIN fallbacks => fallbacks[IxSysvar] = IxSysvarAccount(c.ixs),
         Missing(Message(c, e), list) = {},
         NEW k \in MessageKeys(Message(c, e))
  PROVE  LET account == CompiledAccount(k, Message(c, e), list) IN
         /\ account \in Account
         /\ Has(list, k) => account = Find(list, k)
         /\ k = ClockKey => /\ Has(list, k) /\ account = Find(list, k)
                            /\ account \in [owner : {SysvarOwner}, data : ClockData]
         /\ k = IxSysvar /\ account.owner = SysvarOwner => account.data \in Introspection
<1> DEFINE ixs == Message(c, e)
<1>1. c.ixs \in Seq(Instruction) /\ ixs \in Seq(Instruction)
  BY MessageOfCall DEF Call
<1>2. k \in Key /\ CalledPrograms(ixs) \subseteq Program
  BY <1>1, KeysOfMessage
<1>3. \A is \in Seq(Instruction) :
        /\ IxSysvarAccount(is) \in Account
        /\ IxSysvarAccount(is).data \in Introspection
  BY KeysAssumption DEF IxSysvarAccount, Account, Introspection
<1>4. CASE Has(list, k)
  <2>1. CompiledAccount(k, ixs, list) = Find(list, k)
    BY <1>4 DEF CompiledAccount
  <2> QED BY <1>4, <2>1, FindTyped
<1>5. CASE ~Has(list, k) /\ k \in DOMAIN fallbacks
  <2>1. CompiledAccount(k, ixs, list) = fallbacks[k]
    BY <1>5 DEF CompiledAccount
  <2>2. k # ClockKey
    BY <1>5, KeysAssumption
  <2> QED BY <1>1, <1>3, <1>5, <2>1, <2>2
<1>6. CASE ~Has(list, k) /\ k \notin DOMAIN fallbacks
  <2>1. k \in CalledPrograms(ixs) \cup {IxSysvar}
    BY <1>6 DEF Missing
  <2>2. k # ClockKey
    BY <1>2, <2>1, KeysAssumption
  <2>3. CASE k = IxSysvar
    <3>1. CompiledAccount(k, ixs, list) = IxSysvarAccount(ixs)
      BY <1>6, <2>3 DEF CompiledAccount
    <3> QED BY <1>6, <1>1, <1>3, <2>2, <3>1
  <2>4. CASE k # IxSysvar
    <3>1. CompiledAccount(k, ixs, list) = [owner |-> DefaultOwner, data |-> NoData]
      BY <1>6, <2>4 DEF CompiledAccount
    <3> QED BY <1>6, <2>2, <2>4, <3>1, KeysAssumption DEF Account
  <2> QED BY <2>3, <2>4
<1> QED BY <1>4, <1>5, <1>6

-----------------------------------------------------------------------------
(* The invariant holds initially.                                          *)

LEMMA EmptyListKept ==
  /\ WellFormed(<<>>) /\ <<>> \in Seq(KeyedAccount)
  /\ InitialResult(<<>>) \in [accounts : Seq(KeyedAccount), failed : Nat, units : Nat,
                              inner : Seq(Nat)]
  /\ InitialResult(<<>>).accounts = <<>> /\ InitialResult(<<>>).failed = 0
  /\ \A k : ~Has(<<>>, k)
BY DEF WellFormed, InitialResult, Has

LEMMA NoCallTyped ==
  /\ NoCall \in Call /\ NoCall.ixs = <<>> /\ Elements(NoCall) = 0
  /\ NoMessage \in [units : Nat, failed : Nat, inner : Seq(Nat)]
  /\ NoMessage.failed = 0
  /\ DOMAIN EmptyMap = {} /\ EmptyMap \in [DOMAIN EmptyMap -> Account]
BY DEF NoCall, Call, Elements, NoMessage, EmptyMap

(* The state of a harness that runs no call.                               *)
Idle ==
  /\ DOMAIN cache \subseteq Program /\ cache \in [DOMAIN cache -> Loader]
  /\ slot \in 0..MaxSlot /\ pc = "idle"
  /\ call = NoCall /\ given = <<>> /\ fallbacks = EmptyMap /\ clockSeen = 0
  /\ element = 1 /\ next = 1 /\ tx = EmptyMap /\ exec = NoMessage
  /\ result = InitialResult(<<>>) /\ log = <<>>

LEMMA IdleInv == Idle => IInv
<1> SUFFICES ASSUME Idle PROVE IInv
  OBVIOUS
<1> USE DEF Idle
<1>1. TypeOK
  BY EmptyListKept, NoCallTyped DEF TypeOK
<1>2. Clean /\ Placed /\ FallbacksKept /\ ContextKept /\ FrameKept /\ ClockKept /\ ClockViewsAgree
  BY DEF Clean, Placed, FallbacksKept, ContextKept, FrameKept, ClockKept, ClockViewsAgree,
         InCall, Running
<1>3. ListKept
  BY EmptyListKept DEF ListKept
<1>4. LogKept /\ RunsInOrder
  BY NoCallTyped DEF LogKept, RunsInOrder, InCall, Running
<1>5. DuplicatesAgree
  BY DEF DuplicatesAgree
<1> QED BY <1>1, <1>2, <1>3, <1>4, <1>5 DEF IInv

LEMMA IdleAgainInv == Idle' => IInv'
BY IdleInv, PTL

LEMMA InitInv == Init => IInv
BY IdleInv, CacheAssumption, BoundsAssumption DEF Init, Idle

-----------------------------------------------------------------------------
(* Steps between calls, and panics.                                        *)

(* A step that leaves the call alone, or ends it by a panic.               *)
LEMMA LocalsKeptInv ==
  ASSUME IInv, UNCHANGED locals, pc' \in {pc, "panicked"},
         DOMAIN cache' \subseteq Program, cache' \in [DOMAIN cache' -> Loader],
         slot' \in 0..MaxSlot
  PROVE  IInv'
<1> USE DEF locals
<1>1. TypeOK'
  BY DEF IInv, TypeOK
<1>2. Clean' /\ Placed'
  BY DEF IInv, Clean, Placed, InCall
<1>3. ListKept'
  BY DEF IInv, ListKept
<1>4. FallbacksKept' /\ ClockKept' /\ ContextKept' /\ FrameKept' /\ ClockViewsAgree'
  BY DEF IInv, FallbacksKept, ClockKept, ContextKept, FrameKept, ClockViewsAgree,
         InCall, Running
<1>5. LogKept' /\ RunsInOrder'
  BY DEF IInv, LogKept, RunsInOrder, InCall, Running
<1>6. DuplicatesAgree'
  BY DEF IInv, DuplicatesAgree
<1> QED BY <1>1, <1>2, <1>3, <1>4, <1>5, <1>6 DEF IInv

LEMMA AddProgramInv ==
  ASSUME IInv, NEW add \in Additions, AddProgram(add[1], add[2])
  PROVE  IInv'
<1>1. add[1] \in Program /\ add[2] \in Loader
  BY AdditionsAssumption
<1>2. DOMAIN cache' \subseteq Program /\ cache' \in [DOMAIN cache' -> Loader]
  BY <1>1 DEF AddProgram, IInv, TypeOK
<1>3. UNCHANGED locals /\ pc' = pc /\ slot' \in 0..MaxSlot
  BY DEF AddProgram, IInv, TypeOK
<1> QED BY <1>2, <1>3, LocalsKeptInv

LEMMA WarpToSlotInv ==
  ASSUME IInv, NEW s \in 0..MaxSlot, WarpToSlot(s)
  PROVE  IInv'
<1>1. UNCHANGED locals /\ pc' = pc /\ UNCHANGED cache /\ slot' \in 0..MaxSlot
  BY DEF WarpToSlot
<1> QED BY <1>1, LocalsKeptInv DEF IInv, TypeOK

LEMMA PanicsInv ==
  ASSUME IInv, pc' = "panicked", UNCHANGED <<mollusk, locals>>
  PROVE  IInv'
BY LocalsKeptInv DEF IInv, TypeOK, mollusk

LEMMA ReturnInv ==
  ASSUME IInv, Return
  PROVE  IInv'
<1>1. Idle'
  BY DEF IInv, TypeOK, Return, mollusk, Idle
<1> QED BY <1>1, IdleAgainInv

-----------------------------------------------------------------------------
(* The steps of a call.                                                    *)

LEMMA FallbacksTyped ==
  ASSUME TypeOK, NEW ixs \in Seq(Instruction), NEW list, Uncached(ixs, list) = {}
  PROVE  /\ DOMAIN Fallbacks(ixs, list) = FallbackKeys(ixs, list)
         /\ FallbackKeys(ixs, list) \subseteq Program \cup {IxSysvar}
         /\ Fallbacks(ixs, list) \in [FallbackKeys(ixs, list) -> Account]
         /\ IxSysvar \in FallbackKeys(ixs, list) =>
              Fallbacks(ixs, list)[IxSysvar] = IxSysvarAccount(ixs)
<1>1. FallbackKeys(ixs, list) \subseteq CalledPrograms(ixs) \cup {IxSysvar}
  BY DEF FallbackKeys
<1>2. IxSysvarAccount(ixs) \in Account
  BY KeysAssumption DEF IxSysvarAccount, Account, Introspection
<1>3. ASSUME NEW k \in FallbackKeys(ixs, list), k # IxSysvar
      PROVE  ProgramStub(k) \in Account
  <2>1. k \in CalledPrograms(ixs) /\ ~Has(list, k)
    BY <1>3 DEF FallbackKeys
  <2>2. k \in Precompile \/ k \in DOMAIN cache
    BY <2>1 DEF Uncached
  <2>3. LoaderKey(k) \in Key
    BY <2>2, KeysAssumption DEF LoaderKey, TypeOK
  <2> QED BY <2>3, KeysAssumption DEF ProgramStub, Account
<1> QED BY <1>1, <1>2, <1>3, KeysOfMessage DEF Fallbacks

LEMMA BeginInv ==
  ASSUME IInv, NEW c \in Calls, NEW list, WellFormed(list), Begin(c, list)
  PROVE  IInv'
<1>1. c \in Call /\ c.ixs \in Seq(Instruction) /\ list \in Seq(KeyedAccount)
  BY CallsAssumption DEF Call, WellFormed
<1>2. /\ element = 1 /\ next = 1 /\ log = <<>> /\ tx = EmptyMap /\ exec = NoMessage
      /\ UNCHANGED <<mollusk, element, next, tx, exec, log>>
  BY DEF Begin, IInv, Clean
<1>3. /\ call' = c /\ given' = list /\ fallbacks' = Fallbacks(c.ixs, list)
      /\ clockSeen' = ClockFor(list)
      /\ result' = [accounts |-> list, failed |-> 0, units |-> 0, inner |-> <<>>]
  BY DEF Begin, InitialResult
<1>4. /\ DOMAIN fallbacks' = FallbackKeys(c.ixs, list)
      /\ DOMAIN fallbacks' \subseteq Program \cup {IxSysvar}
      /\ fallbacks' \in [DOMAIN fallbacks' -> Account]
      /\ IxSysvar \in DOMAIN fallbacks' => fallbacks'[IxSysvar] = IxSysvarAccount(c.ixs)
  BY <1>1, <1>3, FallbacksTyped DEF Begin, IInv
<1>5. clockSeen' \in Nat /\ (Has(list, ClockKey) => Find(list, ClockKey).data.slot = clockSeen')
  <2>1. CASE Has(list, ClockKey)
    <3>1. Find(list, ClockKey).data.slot \in Nat
      BY <1>1, <2>1, FindTyped DEF ClockData
    <3> QED BY <1>3, <2>1, <3>1 DEF ClockFor
  <2>2. CASE ~Has(list, ClockKey)
    BY <1>3, <2>2, BoundsAssumption DEF ClockFor, IInv, TypeOK
  <2> QED BY <2>1, <2>2
<1>6. /\ Elements(c) \in Nat /\ (Elements(c) = 0 => Len(c.ixs) = 0)
      /\ pc' = IF Elements(c) = 0 THEN "returned" ELSE "compile"
  BY <1>1 DEF Begin, Elements
<1>7. TypeOK'
  BY <1>1, <1>2, <1>3, <1>4, <1>5, <1>6 DEF IInv, TypeOK, mollusk
<1>8. Clean' /\ Placed' /\ ContextKept' /\ FrameKept' /\ ClockViewsAgree'
  BY <1>2, <1>3, <1>6 DEF Clean, Placed, ContextKept, FrameKept, ClockViewsAgree, InCall, Running
<1>9. ListKept' /\ FallbacksKept' /\ ClockKept'
  BY <1>1, <1>3, <1>4, <1>5 DEF ListKept, FallbacksKept, ClockKept
<1>10. LogKept' /\ RunsInOrder'
  BY <1>1, <1>2, <1>3, <1>6, NoCallTyped DEF LogKept, RunsInOrder, InCall, Running
<1>11. DuplicatesAgree'
  BY <1>2 DEF DuplicatesAgree
<1> QED BY <1>7, <1>8, <1>9, <1>10, <1>11 DEF IInv

LEMMA CompileMessageInv ==
  ASSUME IInv, CompileMessage
  PROVE  IInv'
<1> DEFINE ixs == Message(call, element)
<1>1. /\ pc = "compile" /\ Missing(ixs, result.accounts) = {}
      /\ tx' = [k \in MessageKeys(ixs) |-> CompiledAccount(k, ixs, result.accounts)]
      /\ next' = 1 /\ exec' = NoMessage
      /\ pc' = IF ixs = <<>> THEN "deconstruct" ELSE "invoke"
      /\ UNCHANGED <<mollusk, call, given, fallbacks, clockSeen, element, result, log>>
  BY DEF CompileMessage
<1>2. /\ call \in Calls /\ element \in 1..Elements(call) /\ WellFormed(result.accounts)
      /\ call \in Call /\ ixs \in Seq(Instruction)
  BY <1>1, MessageOfCall DEF IInv, Placed, InCall, ListKept
<1>3. ASSUME NEW k \in MessageKeys(ixs)
      PROVE  /\ tx'[k] \in Account
             /\ Has(result.accounts, k) => tx'[k] = Find(result.accounts, k)
             /\ k = ClockKey => /\ Has(result.accounts, k)
                                /\ tx'[k] = Find(result.accounts, k)
                                /\ tx'[k] \in [owner : {SysvarOwner}, data : ClockData]
             /\ k = IxSysvar /\ tx'[k].owner = SysvarOwner => tx'[k].data \in Introspection
  <2>1. tx'[k] = CompiledAccount(k, ixs, result.accounts)
    BY <1>1
  <2>2. /\ fallbacks \in [DOMAIN fallbacks -> Account]
        /\ DOMAIN fallbacks \subseteq Program \cup {IxSysvar}
        /\ IxSysvar \in DOMAIN fallbacks => fallbacks[IxSysvar] = IxSysvarAccount(call.ixs)
    BY <1>1 DEF IInv, TypeOK, FallbacksKept, InCall
  <2> QED BY <1>1, <1>2, <2>1, <2>2, CompiledTyped
<1>4. DOMAIN tx' = MessageKeys(ixs) /\ DOMAIN tx' \subseteq Key
  BY <1>1, <1>2, KeysOfMessage
<1>5. TypeOK'
  <2>1. tx' \in [DOMAIN tx' -> Account]
    BY <1>1, <1>3
  <2> QED BY <1>1, <1>4, <2>1, NoCallTyped DEF IInv, TypeOK, mollusk
<1>6. Clean' /\ Placed'
  BY <1>1, <1>2 DEF IInv, Clean, Placed, InCall
<1>7. ListKept' /\ FallbacksKept' /\ ClockKept'
  BY <1>1 DEF IInv, ListKept, FallbacksKept, ClockKept, InCall
<1>8. ContextKept' /\ FrameKept' /\ ClockViewsAgree'
  BY <1>1, <1>3, <1>4
  DEF IInv, ContextKept, FrameKept, ClockViewsAgree, ClockKept, InCall, Running
<1>9. LogKept' /\ RunsInOrder'
  BY <1>1, <1>2, NoCallTyped, SMTT(30) DEF IInv, TypeOK, LogKept, RunsInOrder, InCall, Running
<1>10. DuplicatesAgree'
  BY <1>1 DEF IInv, DuplicatesAgree
<1> QED BY <1>5, <1>6, <1>7, <1>8, <1>9, <1>10 DEF IInv

(* What an invocation may do to the context: the clock account is frozen,  *)
(* and what still is an instructions sysvar can be read as one.            *)
TxStep ==
  /\ DOMAIN tx' = DOMAIN tx /\ tx' \in [DOMAIN tx -> Account]
  /\ ClockKey \in DOMAIN tx => tx'[ClockKey] = tx[ClockKey]
  /\ \A k \in DOMAIN tx \ (WritableKeys(Message(call, element)) \cup {IxSysvar}) :
       tx'[k] = tx[k]
  /\ IxSysvar \in DOMAIN tx /\ tx'[IxSysvar].owner = SysvarOwner =>
       tx'[IxSysvar].data \in Introspection

(* The index reported is that of the instruction while a u8 can hold it.   *)
LEMMA FailureCodeReports ==
  ASSUME next \in Nat \ {0}
  PROVE  FailureCode \in Nat \ {0} /\ (next <= IndexCount => FailureCode = next)
<1> DEFINE at == next - 1
<1>1. at \in Nat /\ IndexCount \in Nat \ {0} /\ next = at + 1
  BY BoundsAssumption
<1> HIDE DEF at
<1>2. at % IndexCount \in Nat /\ (at < IndexCount => at % IndexCount = at)
  BY <1>1
<1>3. FailureCode = (at % IndexCount) + 1
  BY DEF FailureCode, at
<1> QED BY <1>1, <1>2, <1>3

LEMMA EndInvocationInv ==
  ASSUME IInv, pc = "invoke", TxStep,
         NEW ok \in BOOLEAN, NEW units \in Nat, NEW cpis \in Nat,
         EndInvocation(NextInstruction, ok, units, cpis)
  PROVE  IInv'
<1> DEFINE ixs == Message(call, element)
           entry == [ix |-> NextInstruction, ok |-> ok, units |-> units, cpis |-> cpis]
<1>1. /\ exec' = [units |-> exec.units + units, failed |-> IF ok THEN 0 ELSE FailureCode,
                  inner |-> Append(exec.inner, cpis)]
      /\ log' = Append(log, entry)
      /\ next' = next + 1
      /\ pc' = IF ok /\ next < Len(ixs) THEN "invoke" ELSE "deconstruct"
      /\ UNCHANGED <<mollusk, call, given, fallbacks, clockSeen, element, result>>
  BY DEF EndInvocation
<1>2. /\ call \in Calls /\ element \in 1..Elements(call) /\ call \in Call
      /\ ixs \in Seq(Instruction) /\ next \in DOMAIN ixs /\ next \in 1..Len(ixs)
  BY MessageOfCall DEF IInv, Placed, InCall
<1>3. /\ NextInstruction \in Instruction
      /\ Len(log) + 1 \in DOMAIN call.ixs /\ call.ixs[Len(log) + 1] = NextInstruction
  <2>1. Len(log) = (element - 1) + (next - 1)
    BY DEF IInv, LogKept, Running
  <2> QED BY <1>2, <2>1, MessageOfCall DEF NextInstruction, Call
<1>4. log \in Seq(Invocation) /\ entry \in Invocation
  BY <1>3 DEF IInv, TypeOK, Invocation
<1>5. /\ log' \in Seq(Invocation) /\ Len(log') = Len(log) + 1
      /\ \A i \in 1..Len(log) : log'[i] = log[i]
      /\ log'[Len(log')] = entry /\ Len(log) \in Nat
  BY <1>1, <1>4
<1>6. TypeOK'
  <2>1. exec.units + units \in Nat /\ Append(exec.inner, cpis) \in Seq(Nat)
    <3>1. exec.units \in Nat /\ exec.inner \in Seq(Nat)
      BY SMTT(30) DEF IInv, TypeOK
    <3> QED BY <3>1
  <2>2. (IF ok THEN 0 ELSE FailureCode) \in Nat
    <3>1. next \in Nat
      BY SMTT(30) DEF IInv, TypeOK
    <3> QED BY <1>2, <3>1, FailureCodeReports
  <2>3. exec' \in [units : Nat, failed : Nat, inner : Seq(Nat)]
    BY <1>1, <2>1, <2>2
  <2>4. tx' \in [DOMAIN tx' -> Account] /\ DOMAIN tx' \subseteq Key
    BY DEF IInv, TypeOK, TxStep
  <2>5. next' \in Nat \ {0} /\ pc' \in {"invoke", "deconstruct"}
    BY <1>1, <1>2
  <2> QED BY <1>1, <1>5, <2>3, <2>4, <2>5 DEF IInv, TypeOK, mollusk
<1>7. Clean' /\ Placed'
  <2>1. next' \in 1..(Len(ixs) + 1) /\ (pc' = "invoke" => next' \in DOMAIN ixs)
    BY <1>1, <1>2
  <2> QED BY <1>1, <1>2, <2>1 DEF Clean, Placed, InCall
<1>8. ListKept' /\ FallbacksKept' /\ ClockKept'
  BY <1>1 DEF IInv, ListKept, FallbacksKept, ClockKept, InCall
<1>9. ContextKept' /\ ClockViewsAgree'
  BY <1>1 DEF IInv, ContextKept, ClockViewsAgree, TxStep, Running
<1>14. FrameKept'
  BY <1>1 DEF IInv, FrameKept, TxStep, Running
<1>10. \A i \in 1..Len(log) : log[i].ok
  BY DEF IInv, LogKept, InCall
<1>11. LogKept'
  <2>1. \A i \in 1..Len(log') : i \in DOMAIN call.ixs /\ log'[i].ix = call.ixs[i]
    BY <1>3, <1>5 DEF IInv, LogKept
  <2>2. \A i \in 1..(Len(log') - 1) : log'[i].ok
    BY <1>5, <1>10
  <2>3. log'[Len(log')].ok = ok
    BY <1>5
  <2>4. Len(log') = (element - 1) + (next' - 1)
    <3>1. Len(log) = (element - 1) + (next - 1) /\ element \in Nat /\ next \in Nat
      BY DEF IInv, TypeOK, LogKept, Running
    <3> QED BY <1>1, <1>5, <3>1
  <2>5. IF ok THEN exec'.failed = 0
        ELSE exec'.failed # 0 /\ (next' - 1 <= IndexCount => exec'.failed = next' - 1)
    <3>1. exec'.failed = (IF ok THEN 0 ELSE FailureCode) /\ next \in Nat \ {0}
      BY <1>1, <1>2
    <3>2. CASE ok
      BY <3>1, <3>2
    <3>3. CASE ~ok
      BY <1>1, <3>1, <3>3, FailureCodeReports
    <3> QED BY <3>2, <3>3
  <2>6. exec'.failed = 0 => \A i \in 1..Len(log') : log'[i].ok
    BY <1>5, <2>2, <2>3, <2>5
  <2>7. pc' = "deconstruct" /\ exec'.failed = 0 => next' = Len(ixs) + 1
    BY <1>1, <1>2, <2>5
  <2> QED
    BY <1>1, <1>5, <2>1, <2>2, <2>3, <2>4, <2>5, <2>6, <2>7 DEF LogKept, InCall, Running
<1>12. RunsInOrder'
  <2>1. Len(log') <= Len(call.ixs) /\ \A i \in 1..Len(log') : log'[i].ix = call.ixs[i]
    BY <1>1, <1>2, <1>5, <1>3, <1>11, SMTT(30) DEF LogKept, Call
  <2> QED BY <1>1, <1>5, <1>10, <2>1 DEF RunsInOrder
<1>13. DuplicatesAgree'
  BY <1>1 DEF IInv, DuplicatesAgree
<1> QED BY <1>6, <1>7, <1>8, <1>9, <1>11, <1>12, <1>13, <1>14 DEF IInv

(* Entering an instruction moves the index of the instructions sysvar.     *)
LEMMA EnteredTyped ==
  ASSUME IInv, pc = "invoke", CanEnter
  PROVE  /\ DOMAIN Entered = DOMAIN tx /\ Entered \in [DOMAIN tx -> Account]
         /\ \A k \in DOMAIN tx : k # IxSysvar => Entered[k] = tx[k]
         /\ IxSysvar \in DOMAIN tx =>
              /\ Entered[IxSysvar].data \in Introspection
              /\ Entered[IxSysvar].owner = tx[IxSysvar].owner
              /\ Entered[IxSysvar].data.ixs = tx[IxSysvar].data.ixs
              /\ Entered[IxSysvar].data.index = TopLevelIndex
<1>1. tx \in [DOMAIN tx -> Account] /\ element \in Nat \ {0} /\ next \in Nat \ {0}
  BY DEF IInv, TypeOK
<1>2. TopLevelIndex \in Nat
  BY <1>1 DEF TopLevelIndex
<1>3. CASE IxSysvar \in DOMAIN tx
  <2> DEFINE data == [tx[IxSysvar].data EXCEPT !.index = TopLevelIndex]
             new == [tx[IxSysvar] EXCEPT !.data = data]
  <2>1. tx[IxSysvar] \in Account /\ tx[IxSysvar].data \in Introspection
    BY <1>1, <1>3 DEF CanEnter, IInv, ContextKept, Running
  <2>2. /\ data \in Introspection /\ data.index = TopLevelIndex
        /\ data.ixs = tx[IxSysvar].data.ixs
    BY <1>2, <2>1 DEF Introspection
  <2>3. Entered = [tx EXCEPT ![IxSysvar] = new]
    BY <1>3 DEF Entered
  <2> HIDE DEF data
  <2>4. new.data = data /\ new.owner = tx[IxSysvar].owner /\ new \in Account
    BY <2>1, <2>2 DEF Account
  <2> HIDE DEF new
  <2>5. /\ DOMAIN Entered = DOMAIN tx /\ Entered \in [DOMAIN tx -> Account]
        /\ \A k \in DOMAIN tx : Entered[k] = IF k = IxSysvar THEN new ELSE tx[k]
    BY <1>1, <1>3, <2>3, <2>4
  <2> QED BY <1>3, <2>2, <2>4, <2>5
<1>4. CASE IxSysvar \notin DOMAIN tx
  BY <1>1, <1>4 DEF Entered
<1> QED BY <1>3, <1>4

LEMMA InvokeProgramInv ==
  ASSUME IInv, InvokeProgram
  PROVE  IInv'
<1>1. PICK ok \in BOOLEAN, units \in 0..(UnitLimit - exec.units), cpis \in 0..MaxCpi,
           dirty \in SUBSET Touchable(NextInstruction) : \E after \in [dirty -> Written] :
        /\ tx' = [k \in DOMAIN tx |-> IF k \in dirty THEN after[k] ELSE Entered[k]]
        /\ EndInvocation(NextInstruction, ok, units, cpis)
  BY DEF InvokeProgram
<1>2. PICK after \in [dirty -> Written] :
        /\ tx' = [k \in DOMAIN tx |-> IF k \in dirty THEN after[k] ELSE Entered[k]]
        /\ EndInvocation(NextInstruction, ok, units, cpis)
  BY <1>1
<1>3. pc = "invoke" /\ CanEnter
  BY DEF InvokeProgram
<1>4. \A k \in dirty : after[k] \in Account /\ tx[k].owner # SysvarOwner
  BY WrittenAssumption DEF Touchable
<1>8. dirty \subseteq WritableKeys(Message(call, element))
  BY DEF Touchable
<1>5. /\ ClockKey \in DOMAIN tx => ClockKey \notin dirty
      /\ IxSysvar \in DOMAIN tx => IxSysvar \notin dirty
  BY <1>3, <1>4 DEF IInv, ContextKept, Running, CanEnter
<1>6. TxStep
  BY <1>2, <1>3, <1>4, <1>5, <1>8, EnteredTyped, KeysAssumption DEF TxStep
<1>7. units \in Nat /\ cpis \in Nat
  BY BoundsAssumption DEF IInv, TypeOK
<1> QED BY <1>2, <1>3, <1>6, <1>7, EndInvocationInv

LEMMA InvokePrecompileInv ==
  ASSUME IInv, InvokePrecompile
  PROVE  IInv'
<1>1. PICK ok \in BOOLEAN : EndInvocation(NextInstruction, ok, 0, 0)
  BY DEF InvokePrecompile
<1>2. pc = "invoke" /\ CanEnter /\ tx' = Entered
  BY DEF InvokePrecompile
<1>3. TxStep
  BY <1>2, EnteredTyped, KeysAssumption DEF TxStep
<1> QED BY <1>1, <1>2, <1>3, EndInvocationInv

LEMMA RejectInstructionInv ==
  ASSUME IInv, RejectInstruction
  PROVE  IInv'
<1>1. pc = "invoke" /\ tx' = (IF CanEnter THEN Entered ELSE tx)
  BY DEF RejectInstruction
<1>2. EndInvocation(NextInstruction, FALSE, 0, 0)
  BY DEF RejectInstruction
<1>3. TxStep
  <2>1. CASE CanEnter
    BY <1>1, <2>1, EnteredTyped, KeysAssumption DEF TxStep
  <2>2. CASE ~CanEnter
    BY <1>1, <2>2 DEF TxStep, IInv, TypeOK, ContextKept, Running
  <2> QED BY <2>1, <2>2
<1> QED BY <1>1, <1>2, <1>3, EndInvocationInv

(* The list that a message leaves: the same keys, each account as the      *)
(* context has it or else as it was.                                       *)
LEMMA ResultingAccountsKept ==
  ASSUME IInv, pc = "deconstruct"
  PROVE  LET before == result.accounts
             after == ResultingAccounts(before) IN
         /\ WellFormed(after) /\ after \in Seq(KeyedAccount)
         /\ DOMAIN after = DOMAIN before
         /\ \A i \in DOMAIN before :
              /\ after[i].key = before[i].key
              /\ after[i].account = IF before[i].key \in DOMAIN tx
                                    THEN tx[before[i].key] ELSE before[i].account
<1> DEFINE before == result.accounts
           after == ResultingAccounts(before)
<1>1. before \in Seq(KeyedAccount) /\ WellFormed(before)
  BY DEF IInv, TypeOK, ListKept
<1>2. tx \in [DOMAIN tx -> Account] /\ DOMAIN before = 1..Len(before) /\ Len(before) \in Nat
  BY <1>1 DEF IInv, TypeOK
<1>3. ASSUME NEW i \in DOMAIN before
      PROVE  /\ after[i] \in KeyedAccount
             /\ after[i].key = before[i].key
             /\ after[i].account = IF before[i].key \in DOMAIN tx
                                   THEN tx[before[i].key] ELSE before[i].account
  <2>1. before[i] \in KeyedAccount
    BY <1>1
  <2>2. after[i] = IF before[i].key \in DOMAIN tx
                   THEN [before[i] EXCEPT !.account = tx[before[i].key]] ELSE before[i]
    BY DEF ResultingAccounts
  <2> QED BY <1>2, <2>1, <2>2 DEF KeyedAccount
<1>4. after \in Seq(KeyedAccount) /\ DOMAIN after = DOMAIN before
  <2>1. DOMAIN after = DOMAIN before
    BY DEF ResultingAccounts
  <2>2. after = [i \in 1..Len(before) |-> after[i]]
    BY <1>2 DEF ResultingAccounts
  <2> HIDE DEF after
  <2> QED BY <1>2, <1>3, <2>1, <2>2
<1>5. ASSUME NEW i \in DOMAIN before
      PROVE  /\ after[i].key = ClockKey =>
                  after[i].account \in [owner : {SysvarOwner}, data : ClockData]
             /\ after[i].key = IxSysvar /\ after[i].account.owner = SysvarOwner =>
                  after[i].account.data \in Introspection
  BY <1>1, <1>3 DEF WellFormed, IInv, ContextKept, Running
<1>6. WellFormed(after)
  BY <1>4, <1>5 DEF WellFormed
<1> QED BY <1>3, <1>4, <1>6

LEMMA DeconstructMessageInv ==
  ASSUME IInv, DeconstructMessage
  PROVE  IInv'
<1> DEFINE ixs == Message(call, element)
           before == result.accounts
           after == ResultingAccounts(before)
<1>1. /\ pc = "deconstruct"
      /\ result' = [accounts |-> IF exec.failed = 0 THEN after ELSE before,
                    failed |-> exec.failed, units |-> result.units + exec.units,
                    inner |-> ReportedInner]
      /\ element' = IF exec.failed = 0 THEN element + 1 ELSE element
      /\ pc' = IF exec.failed # 0 \/ element = Elements(call) THEN "returned" ELSE "compile"
      /\ UNCHANGED <<mollusk, call, given, fallbacks, clockSeen, next, tx, exec, log>>
  BY DEF DeconstructMessage, Absorbed, Advance
<1>2. /\ call \in Calls /\ element \in 1..Elements(call) /\ call \in Call
      /\ Elements(call) \in Nat /\ element \in Nat
  BY <1>1, MessageOfCall, SMTT(30) DEF IInv, TypeOK, Placed, InCall, Elements, Call
<1>3. /\ WellFormed(after) /\ after \in Seq(KeyedAccount)
      /\ DOMAIN after = DOMAIN before
      /\ \A i \in DOMAIN before :
           /\ after[i].key = before[i].key
           /\ after[i].account = IF before[i].key \in DOMAIN tx
                                 THEN tx[before[i].key] ELSE before[i].account
  BY <1>1, ResultingAccountsKept
<1>4. before \in Seq(KeyedAccount) /\ WellFormed(before)
  BY DEF IInv, TypeOK, ListKept
<1> HIDE DEF after
<1>5. TypeOK'
  <2>1. ReportedInner \in Seq(Nat)
    <3>1. exec.inner \in Seq(Nat)
      BY DEF IInv, TypeOK
    <3> QED BY <3>1 DEF ReportedInner
  <2>2. result' \in [accounts : Seq(KeyedAccount), failed : Nat, units : Nat, inner : Seq(Nat)]
    BY <1>1, <1>3, <1>4, <2>1 DEF IInv, TypeOK
  <2>3. element' \in Nat \ {0} /\ pc' \in {"returned", "compile"}
    BY <1>1, <1>2
  <2> QED BY <1>1, <2>2, <2>3 DEF IInv, TypeOK, mollusk
<1>6. Clean' /\ Placed'
  BY <1>1, <1>2 DEF Clean, Placed, InCall
<1>7. ListKept'
  BY <1>1, <1>3, <1>4 DEF IInv, ListKept
<1>8. FallbacksKept' /\ ContextKept' /\ FrameKept' /\ ClockViewsAgree'
  BY <1>1 DEF IInv, FallbacksKept, ContextKept, FrameKept, ClockViewsAgree, InCall, Running
<1>9. ClockKept'
  <2> SUFFICES ASSUME InCall', Has(result'.accounts, ClockKey)
               PROVE  Find(result'.accounts, ClockKey).data.slot = clockSeen'
    BY DEF ClockKept
  <2>1. exec.failed = 0 /\ result'.accounts = after
    BY <1>1 DEF InCall
  <2>2. Has(before, ClockKey) /\ FirstIndex(after, ClockKey) = FirstIndex(before, ClockKey)
    BY <1>3, <1>4, <2>1, SameLookups
  <2> DEFINE i == FirstIndex(before, ClockKey)
  <2>3. i \in DOMAIN before /\ before[i].key = ClockKey
    BY <1>4, <2>2, FirstIndexFound
  <2>4. before[i].account.data.slot = clockSeen
    BY <1>1, <2>2 DEF IInv, ClockKept, InCall, Find
  <2>5. ClockKey \in DOMAIN tx => tx[ClockKey].data.slot = clockSeen
    BY <1>1 DEF IInv, ClockViewsAgree, Running
  <2>6. after[i].account.data.slot = clockSeen
    BY <1>3, <2>3, <2>4, <2>5
  <2> QED BY <1>1, <2>1, <2>2, <2>6 DEF Find
<1>10. exec.failed = 0 /\ element = Elements(call) => Len(log) = Len(call.ixs)
  <2> SUFFICES ASSUME exec.failed = 0, element = Elements(call)
               PROVE  Len(log) = Len(call.ixs)
    OBVIOUS
  <2>1. Len(log) = (element - 1) + Len(ixs) /\ Len(ixs) \in Nat
    BY <1>1, <1>2, MessageOfCall DEF IInv, LogKept, Running
  <2>2. CASE call.api = "transaction"
    BY <1>2, <2>1, <2>2 DEF Message, Elements
  <2>3. CASE call.api # "transaction"
    BY <1>2, <2>1, <2>3 DEF Message, Elements
  <2> QED BY <2>2, <2>3
<1>11. LogKept'
  <2>1. pc' = "compile" => Len(log) = element' - 1
    <3> SUFFICES ASSUME pc' = "compile"
                 PROVE  Len(log) = element' - 1
      OBVIOUS
    <3>1. exec.failed = 0 /\ element # Elements(call) /\ element' = element + 1
      BY <1>1
    <3>2. Len(ixs) = 1
      BY <1>2, <3>1, MessageOfCall DEF Elements
    <3> QED BY <1>1, <1>2, <3>1, <3>2 DEF IInv, LogKept, Running
  <2> QED BY <1>1, <2>1 DEF IInv, LogKept, InCall, Running
<1>12. RunsInOrder'
  <2>1. pc' = "returned" /\ exec.failed = 0 => element = Elements(call)
    BY <1>1
  <2>2. exec.failed = 0 => \A i \in DOMAIN log : log[i].ok
    <3>1. DOMAIN log = 1..Len(log)
      BY DEF IInv, TypeOK
    <3> QED BY <1>1, <3>1 DEF IInv, LogKept, InCall
  <2>3. exec.failed # 0 => Len(log) > 0 /\ ~log[Len(log)].ok
    BY <1>1 DEF IInv, LogKept
  <2>4. exec.failed # 0 /\ call.api = "transaction" /\ Len(log) <= IndexCount =>
          exec.failed = Len(log)
    <3>1. call.api = "transaction" => element = 1
      BY <1>2, MessageOfCall
    <3>2. call.api = "transaction" => Len(log) = next - 1
      BY <1>1, <3>1 DEF IInv, TypeOK, LogKept, Running
    <3> QED BY <1>1, <3>2 DEF IInv, LogKept
  <2> QED
    BY <1>1, <1>10, <2>1, <2>2, <2>3, <2>4 DEF IInv, RunsInOrder
<1>13. DuplicatesAgree'
  <2>1. CASE exec.failed # 0
    BY <1>1, <2>1 DEF IInv, DuplicatesAgree
  <2>2. CASE exec.failed = 0
    <3> SUFFICES ASSUME NEW e \in 1..element, NEW k \in MessageKeys(Message(call, e)),
                        NEW i \in DOMAIN after, NEW j \in DOMAIN after,
                        after[i].key = k, after[j].key = k
                 PROVE  after[i] = after[j]
      BY <1>1, <1>2, <2>2 DEF DuplicatesAgree
    <3>1. after[i] \in KeyedAccount /\ after[j] \in KeyedAccount
      BY <1>3
    <3>2. before[i].key = k /\ before[j].key = k
      BY <1>3
    <3>3. CASE k \in DOMAIN tx
      BY <1>3, <3>1, <3>2, <3>3 DEF KeyedAccount
    <3>4. CASE k \notin DOMAIN tx
      <4>1. e \in 1..(element - 1)
        BY <1>1, <1>2, <3>4 DEF IInv, ContextKept, Running
      <4>2. before[i] = before[j]
        BY <1>3, <3>2, <4>1 DEF IInv, DuplicatesAgree
      <4> QED BY <1>3, <3>1, <3>2, <3>4, <4>2 DEF KeyedAccount
    <3> QED BY <3>3, <3>4
  <2> QED BY <2>1, <2>2
<1> QED BY <1>5, <1>6, <1>7, <1>8, <1>9, <1>11, <1>12, <1>13 DEF IInv

-----------------------------------------------------------------------------
(* The theorems.                                                           *)

LEMMA StepInv ==
  ASSUME IInv, Step
  PROVE  IInv'
<1>1. CASE CompileMessage
  BY <1>1, CompileMessageInv
<1>2. CASE CompilePanics \/ CheckPanics
  BY <1>2, PanicsInv DEF CompilePanics, CheckPanics
<1>3. CASE InvokeProgram
  BY <1>3, InvokeProgramInv
<1>4. CASE InvokePrecompile
  BY <1>4, InvokePrecompileInv
<1>5. CASE RejectInstruction
  BY <1>5, RejectInstructionInv
<1>6. CASE DeconstructMessage
  BY <1>6, DeconstructMessageInv
<1> QED BY <1>1, <1>2, <1>3, <1>4, <1>5, <1>6 DEF Step

LEMMA NextInv == IInv /\ [Next]_vars => IInv'
<1> SUFFICES ASSUME IInv, [Next]_vars
             PROVE  IInv'
  OBVIOUS
<1>1. CASE \E add \in Additions : AddProgram(add[1], add[2])
  BY <1>1, AddProgramInv
<1>2. CASE \E s \in 0..MaxSlot : WarpToSlot(s)
  BY <1>2, WarpToSlotInv
<1>3. CASE \E c \in Calls, list \in AccountLists : Begin(c, list)
  BY <1>3, BeginInv, ListsAssumption
<1>4. CASE \E c \in Calls, list \in AccountLists : BeginPanics(c, list)
  BY <1>4, PanicsInv DEF BeginPanics
<1>5. CASE Step
  BY <1>5, StepInv
<1>6. CASE Return
  BY <1>6, ReturnInv
<1>7. CASE UNCHANGED vars
  <2>1. /\ UNCHANGED locals /\ pc' = pc
        /\ DOMAIN cache' \subseteq Program /\ cache' \in [DOMAIN cache' -> Loader]
        /\ slot' \in 0..MaxSlot
    BY <1>7 DEF vars, locals, IInv, TypeOK
  <2> QED BY <2>1, LocalsKeptInv
<1> QED BY <1>1, <1>2, <1>3, <1>4, <1>5, <1>6, <1>7 DEF Next

(* The inductive invariant holds in every reachable state of the harness.  *)
THEOREM Invariance == Spec => []IInv
BY InitInv, NextInv, PTL DEF Spec

(* Every variable keeps its type, whatever the calls, lists and programs.  *)
THEOREM TypeCorrect == Spec => []TypeOK
<1>1. IInv => TypeOK
  BY DEF IInv
<1> QED BY <1>1, Invariance, PTL

(* Instructions run in the order of the call up to the first failure, and  *)
(* a call that returns tells success from failure (process_instruction,    *)
(* process_instruction_chain, process_transaction_instructions).           *)
THEOREM Order == Spec => []RunsInOrder
<1>1. IInv => RunsInOrder
  BY DEF IInv
<1> QED BY <1>1, Invariance, PTL

(* The clock account of every message of a call agrees with the sysvar     *)
(* cache that was set up from the accounts the call was given.             *)
THEOREM ClockAgreement == Spec => []ClockViewsAgree
<1>1. IInv => ClockViewsAgree
  BY DEF IInv
<1> QED BY <1>1, Invariance, PTL

(* Entries of one key agree once a message with the key has succeeded      *)
(* (deconstruct_resulting_accounts after the find of compile_accounts).    *)
THEOREM DuplicateAgreement == Spec => []DuplicatesAgree
<1>1. IInv => DuplicatesAgree
  BY DEF IInv
<1> QED BY <1>1, Invariance, PTL

(* The default arms of build_transaction_accounts are dead code: "This     *)
(* shouldn't happen if fallbacks are set up correctly."                    *)
THEOREM FallbackCoverage == Spec => []FallbacksCover
<1>1. IInv => FallbacksCover
  <2> SUFFICES ASSUME IInv, pc = "compile",
                      NEW k \in CalledPrograms(Message(call, element)) \cup {IxSysvar},
                      ~Has(result.accounts, k)
               PROVE  k \in DOMAIN fallbacks
    BY DEF FallbacksCover
  <2>1. /\ call \in Calls /\ element \in 1..Elements(call)
        /\ DOMAIN fallbacks = FallbackKeys(call.ixs, given)
    BY DEF IInv, Placed, FallbacksKept, InCall
  <2>2. k \in CalledPrograms(call.ixs) \cup {IxSysvar}
    BY <2>1, ProgramsOfMessage
  <2>3. ~Has(given, k)
    BY SameLookups DEF IInv, TypeOK, ListKept
  <2> QED BY <2>1, <2>2, <2>3 DEF FallbackKeys
<1> QED BY <1>1, Invariance, PTL

-----------------------------------------------------------------------------
(* What a call counts and what it tells its programs.  These parts hold on *)
(* top of IInv: they are inductive relative to it.                         *)

InnerCounted ==
  /\ Len(exec.inner) = next - 1 /\ Len(log) = next - 1
  /\ \A i \in 1..(next - 1) : exec.inner[i] = log[i].cpis

UnitsKept ==
  /\ pc \in {"compile", "returned"} => result.units = TotalUnits(log)
  /\ Running => result.units + exec.units = TotalUnits(log)

InnerKept == Running /\ call.api # "chain" => InnerCounted

(* The instructions sysvar that the harness has made, and later entered.   *)
IntrospectionKept ==
  Running /\ IxSysvar \in DOMAIN tx /\ ~Has(given, IxSysvar) =>
    /\ tx[IxSysvar].owner = SysvarOwner
    /\ tx[IxSysvar].data \in Introspection
    /\ tx[IxSysvar].data.ixs = call.ixs
    /\ next > 1 => tx[IxSysvar].data.index = Len(log) - 1

(* The stubs of the programs that are not given.                           *)
LoadersKept ==
  /\ InCall =>
       \A p \in CalledPrograms(call.ixs) : ~Has(given, p) =>
         /\ p \in DOMAIN fallbacks /\ fallbacks[p].owner = LoaderKey(p)
         /\ LoaderKey(p) \in Loader
  /\ Running =>
       \A p \in CalledPrograms(Message(call, element)) : ~Has(given, p) =>
         tx[p].owner = LoaderKey(p)

HInv ==
  /\ UnitsKept /\ InnerKept /\ InnerReportedByMessage
  /\ IntrospectionKept /\ LoadersKept

(* One more invocation in the history.                                     *)
LEMMA OneMoreInvocation ==
  ASSUME NEW history \in Seq(Invocation), NEW entry \in Invocation
  PROVE  /\ TotalUnits(history) \in Nat
         /\ TotalUnits(Append(history, entry)) = TotalUnits(history) + entry.units
<1> DEFINE units == [i \in DOMAIN history |-> history[i].units]
           longer == Append(history, entry)
<1>1. units \in Seq(Nat) /\ entry.units \in Nat
  <2>1. DOMAIN history = 1..Len(history) /\ Len(history) \in Nat
    OBVIOUS
  <2>2. \A i \in 1..Len(history) : history[i] \in Invocation
    OBVIOUS
  <2> QED BY <2>1, <2>2 DEF Invocation
<1>2. [i \in DOMAIN longer |-> longer[i].units] = Append(units, entry.units)
  <2>1. /\ DOMAIN longer = 1..(Len(history) + 1) /\ Len(history) \in Nat
        /\ \A i \in 1..Len(history) : longer[i] = history[i]
        /\ longer[Len(history) + 1] = entry
    OBVIOUS
  <2>2. Len(units) = Len(history)
    OBVIOUS
  <2>3. DOMAIN Append(units, entry.units) = 1..(Len(history) + 1)
    BY <1>1, <2>2
  <2>4. \A i \in 1..(Len(history) + 1) :
          Append(units, entry.units)[i] = longer[i].units
    BY <1>1, <2>1, <2>2
  <2> QED BY <1>1, <2>1, <2>3, <2>4
<1> QED BY <1>1, <1>2, SumTyped, SumOfAppended DEF TotalUnits

LEMMA NoUnits == TotalUnits(<<>>) = 0
<1>1. [i \in DOMAIN <<>> |-> <<>>[i].units] = <<>>
  OBVIOUS
<1> QED BY <1>1, SumOfNothing DEF TotalUnits

LEMMA InitHInv == Init => HInv
BY DEF Init, HInv, UnitsKept, InnerKept, InnerReportedByMessage, InnerReported,
       IntrospectionKept, LoadersKept, InCall, Running

(* A step that leaves the call alone, or ends it by a panic.               *)
LEMMA LocalsKeptHInv ==
  ASSUME HInv, UNCHANGED locals, \/ pc' = pc /\ (pc = "idle" \/ UNCHANGED cache)
                                 \/ pc' = "panicked"
  PROVE  HInv'
<1> USE DEF locals
<1>1. UnitsKept' /\ InnerKept' /\ InnerReportedByMessage' /\ IntrospectionKept'
  BY DEF HInv, UnitsKept, InnerKept, InnerCounted, InnerReportedByMessage, InnerReported,
         IntrospectionKept, Running
<1>2. LoadersKept'
  BY DEF HInv, LoadersKept, LoaderKey, InCall, Running
<1> QED BY <1>1, <1>2 DEF HInv

LEMMA ReturnHInv ==
  ASSUME Return
  PROVE  HInv'
BY DEF Return, HInv, UnitsKept, InnerKept, InnerReportedByMessage, InnerReported,
       IntrospectionKept, LoadersKept, InCall, Running

LEMMA BeginHInv ==
  ASSUME IInv, NEW c \in Calls, NEW list, Begin(c, list)
  PROVE  HInv'
<1>1. /\ call' = c /\ given' = list /\ fallbacks' = Fallbacks(c.ixs, list)
      /\ result'.units = 0 /\ log' = <<>> /\ cache' = cache
      /\ pc' \in {"compile", "returned"}
      /\ Uncached(c.ixs, list) = {}
  BY DEF Begin, InitialResult, IInv, Clean, mollusk
<1>2. UnitsKept' /\ InnerKept' /\ InnerReportedByMessage' /\ IntrospectionKept'
  BY <1>1, NoUnits DEF UnitsKept, InnerKept, InnerReportedByMessage, InnerReported,
                       IntrospectionKept, Running
<1>3. ASSUME NEW p \in CalledPrograms(c.ixs), ~Has(list, p)
      PROVE  /\ p \in DOMAIN fallbacks' /\ fallbacks'[p].owner = LoaderKey(p)
             /\ LoaderKey(p) \in Loader
  <2>1. p \in FallbackKeys(c.ixs, list) /\ p # IxSysvar
    BY <1>3, KeysOfMessage, CallsAssumption, KeysAssumption DEF FallbackKeys, Call
  <2>2. p \in DOMAIN fallbacks' /\ fallbacks'[p] = ProgramStub(p)
    BY <1>1, <2>1 DEF Fallbacks
  <2>3. p \in Precompile \/ p \in DOMAIN cache
    BY <1>1, <1>3 DEF Uncached
  <2> QED BY <2>2, <2>3, KeysAssumption DEF ProgramStub, LoaderKey, IInv, TypeOK
<1>4. LoadersKept'
  BY <1>1, <1>3 DEF LoadersKept, LoaderKey, Running
<1> QED BY <1>2, <1>4 DEF HInv

LEMMA CompileMessageHInv ==
  ASSUME IInv, HInv, CompileMessage
  PROVE  HInv'
<1> DEFINE ixs == Message(call, element)
<1>1. /\ pc = "compile"
      /\ tx' = [k \in MessageKeys(ixs) |-> CompiledAccount(k, ixs, result.accounts)]
      /\ next' = 1 /\ exec' = NoMessage
      /\ pc' \in {"deconstruct", "invoke"}
      /\ UNCHANGED <<cache, call, given, fallbacks, element, result, log>>
  BY DEF CompileMessage, mollusk
<1>2. /\ call \in Calls /\ element \in 1..Elements(call) /\ call \in Call
      /\ ixs \in Seq(Instruction)
  BY <1>1, MessageOfCall DEF IInv, Placed, InCall
<1>3. \A k : Has(result.accounts, k) = Has(given, k)
  BY SameLookups DEF IInv, TypeOK, ListKept
<1>4. UnitsKept'
  <2>1. result.units \in Nat
    BY DEF IInv, TypeOK
  <2> QED BY <1>1, <2>1 DEF HInv, UnitsKept, NoMessage, Running
<1>5. InnerKept' /\ InnerReportedByMessage'
  <2>1. call.api # "chain" => Len(log) = 0
    <3>1. call.api # "chain" => element = 1
      BY <1>2, OneMessage
    <3> QED BY <1>1, <3>1 DEF IInv, LogKept
  <2> QED BY <1>1, <2>1 DEF InnerKept, InnerCounted, InnerReportedByMessage, InnerReported,
                            NoMessage
<1>6. IntrospectionKept'
  <2> SUFFICES ASSUME IxSysvar \in DOMAIN tx', ~Has(given, IxSysvar)
               PROVE  tx'[IxSysvar] = IxSysvarAccount(call.ixs)
    BY <1>1, <1>2 DEF IntrospectionKept, IxSysvarAccount, Introspection, Call
  <2>1. IxSysvar \in DOMAIN fallbacks /\ fallbacks[IxSysvar] = IxSysvarAccount(call.ixs)
    BY <1>1 DEF IInv, FallbacksKept, FallbackKeys, InCall
  <2>2. CompiledAccount(IxSysvar, ixs, result.accounts) = fallbacks[IxSysvar]
    BY <1>3, <2>1 DEF CompiledAccount
  <2> QED BY <1>1, <2>1, <2>2
<1>7. LoadersKept'
  <2>1. ASSUME NEW p \in CalledPrograms(ixs), ~Has(given, p)
        PROVE  tx'[p].owner = LoaderKey(p)
    <3>1. p \in CalledPrograms(call.ixs) /\ p \in MessageKeys(ixs)
      BY <1>2, ProgramsOfMessage, KeysOfMessage
    <3>2. p \in DOMAIN fallbacks /\ fallbacks[p].owner = LoaderKey(p)
      BY <1>1, <2>1, <3>1 DEF HInv, LoadersKept, InCall
    <3>3. CompiledAccount(p, ixs, result.accounts) = fallbacks[p]
      BY <1>3, <2>1, <3>2 DEF CompiledAccount
    <3> QED BY <1>1, <3>1, <3>2, <3>3
  <2> QED BY <1>1, <2>1 DEF HInv, LoadersKept, LoaderKey, InCall
<1> QED BY <1>4, <1>5, <1>6, <1>7 DEF HInv

(* What an invocation leaves of the accounts that only the runtime writes. *)
RuntimeStep ==
  /\ \A k \in DOMAIN tx : k # IxSysvar /\ tx[k].owner \in Loader => tx'[k] = tx[k]
  /\ IxSysvar \in DOMAIN tx /\ tx[IxSysvar].owner = SysvarOwner =>
       /\ tx'[IxSysvar].owner = SysvarOwner
       /\ tx'[IxSysvar].data \in Introspection
       /\ tx'[IxSysvar].data.ixs = tx[IxSysvar].data.ixs
       /\ tx'[IxSysvar].data.index = TopLevelIndex

LEMMA InvocationSteps ==
  ASSUME IInv, InvokeProgram \/ InvokePrecompile \/ RejectInstruction
  PROVE  /\ pc = "invoke" /\ RuntimeStep /\ DOMAIN tx' = DOMAIN tx
         /\ \E ok \in BOOLEAN, units \in Nat, cpis \in Nat :
              EndInvocation(NextInstruction, ok, units, cpis)
<1>1. pc = "invoke"
  BY DEF InvokeProgram, InvokePrecompile, RejectInstruction
<1>2. CASE InvokeProgram
  <2>1. PICK ok \in BOOLEAN, units \in 0..(UnitLimit - exec.units), cpis \in 0..MaxCpi,
             dirty \in SUBSET Touchable(NextInstruction) : \E after \in [dirty -> Written] :
          /\ tx' = [k \in DOMAIN tx |-> IF k \in dirty THEN after[k] ELSE Entered[k]]
          /\ EndInvocation(NextInstruction, ok, units, cpis)
    BY <1>2 DEF InvokeProgram
  <2>2. PICK after \in [dirty -> Written] :
          tx' = [k \in DOMAIN tx |-> IF k \in dirty THEN after[k] ELSE Entered[k]]
    BY <2>1
  <2>3. \A k \in dirty : tx[k].owner \notin Loader \cup {SysvarOwner}
    BY DEF Touchable
  <2>4. RuntimeStep /\ DOMAIN tx' = DOMAIN tx
    BY <1>1, <1>2, <2>2, <2>3, EnteredTyped DEF RuntimeStep, InvokeProgram
  <2>5. units \in Nat /\ cpis \in Nat
    BY BoundsAssumption DEF IInv, TypeOK
  <2> QED BY <1>1, <2>1, <2>4, <2>5
<1>3. CASE InvokePrecompile
  <2>1. RuntimeStep /\ DOMAIN tx' = DOMAIN tx
    BY <1>1, <1>3, EnteredTyped DEF RuntimeStep, InvokePrecompile
  <2>2. \E ok \in BOOLEAN : EndInvocation(NextInstruction, ok, 0, 0)
    BY <1>3 DEF InvokePrecompile
  <2> QED BY <1>1, <2>1, <2>2
<1>4. CASE RejectInstruction
  <2>1. RuntimeStep /\ DOMAIN tx' = DOMAIN tx
    <3>1. tx' = IF CanEnter THEN Entered ELSE tx
      BY <1>4 DEF RejectInstruction
    <3>2. CASE CanEnter
      BY <1>1, <3>1, <3>2, EnteredTyped DEF RuntimeStep
    <3>3. CASE ~CanEnter
      BY <3>1, <3>3 DEF RuntimeStep, CanEnter
    <3> QED BY <3>2, <3>3
  <2>2. EndInvocation(NextInstruction, FALSE, 0, 0)
    BY <1>4 DEF RejectInstruction
  <2> QED BY <1>1, <2>1, <2>2
<1> QED BY <1>2, <1>3, <1>4

LEMMA InvocationHInv ==
  ASSUME IInv, HInv, InvokeProgram \/ InvokePrecompile \/ RejectInstruction
  PROVE  HInv'
<1>1. pc = "invoke" /\ RuntimeStep /\ DOMAIN tx' = DOMAIN tx
  BY InvocationSteps
<1>2. PICK ok \in BOOLEAN, units \in Nat, cpis \in Nat :
        EndInvocation(NextInstruction, ok, units, cpis)
  BY InvocationSteps
<1> DEFINE entry == [ix |-> NextInstruction, ok |-> ok, units |-> units, cpis |-> cpis]
<1>3. /\ exec'.units = exec.units + units /\ exec'.inner = Append(exec.inner, cpis)
      /\ log' = Append(log, entry) /\ next' = next + 1
      /\ pc' \in {"invoke", "deconstruct"}
      /\ UNCHANGED <<cache, call, given, fallbacks, element, result>>
  BY <1>2 DEF EndInvocation, mollusk
<1>4. /\ call \in Calls /\ element \in 1..Elements(call) /\ call \in Call
      /\ next \in DOMAIN Message(call, element)
      /\ Message(call, element) \in Seq(Instruction)
      /\ log \in Seq(Invocation) /\ exec.inner \in Seq(Nat)
      /\ exec.units \in Nat /\ result.units \in Nat
      /\ element \in Nat \ {0} /\ next \in Nat \ {0}
      /\ Len(log) = (element - 1) + (next - 1)
  BY <1>1, MessageOfCall DEF IInv, TypeOK, Placed, InCall, LogKept, Running
<1>5. entry \in Invocation
  BY <1>4 DEF NextInstruction, Invocation
<1> HIDE DEF entry
<1>6. UnitsKept'
  <2>1. /\ TotalUnits(log) \in Nat
        /\ TotalUnits(log') = TotalUnits(log) + units
    BY <1>3, <1>4, <1>5, OneMoreInvocation DEF entry
  <2>2. result.units + exec.units = TotalUnits(log)
    BY <1>1 DEF HInv, UnitsKept, Running
  <2>3. result'.units + exec'.units = TotalUnits(log')
    BY <1>3, <1>4, <2>1, <2>2, SMTT(30)
  <2> QED BY <1>3, <2>3 DEF UnitsKept
<1>7. InnerKept'
  <2> SUFFICES ASSUME call.api # "chain" PROVE InnerCounted'
    BY <1>3 DEF InnerKept
  <2>1. InnerCounted
    BY <1>1, <1>3 DEF HInv, InnerKept, Running
  <2>2. /\ Len(log') = Len(log) + 1 /\ Len(exec'.inner) = Len(exec.inner) + 1
        /\ log'[Len(log) + 1].cpis = cpis /\ exec'.inner[Len(exec.inner) + 1] = cpis
        /\ \A i \in 1..Len(log) : log'[i] = log[i]
        /\ \A i \in 1..Len(exec.inner) : exec'.inner[i] = exec.inner[i]
    BY <1>3, <1>4, <1>5, SMTT(30) DEF entry
  <2>3. Len(exec'.inner) = next' - 1 /\ Len(log') = next' - 1
    BY <1>3, <1>4, <2>1, <2>2 DEF InnerCounted
  <2>4. ASSUME NEW i \in 1..(next' - 1) PROVE exec'.inner[i] = log'[i].cpis
    <3>1. i \in 1..(next - 1) \/ i = next
      BY <1>3, <1>4
    <3>2. Len(exec.inner) = next - 1 /\ Len(log) = next - 1
      BY <2>1 DEF InnerCounted
    <3>3. CASE i \in 1..(next - 1)
      <4>1. exec'.inner[i] = exec.inner[i] /\ log'[i] = log[i]
        BY <2>2, <3>2, <3>3
      <4>2. exec.inner[i] = log[i].cpis
        BY <2>1, <3>3 DEF InnerCounted
      <4> QED BY <4>1, <4>2
    <3>4. CASE i = next
      <4>1. i = Len(log) + 1 /\ i = Len(exec.inner) + 1
        BY <1>4, <3>2, <3>4
      <4> QED BY <2>2, <4>1
    <3> QED BY <3>1, <3>3, <3>4
  <2> QED BY <2>3, <2>4 DEF InnerCounted
<1>8. InnerReportedByMessage'
  BY <1>3 DEF InnerReportedByMessage, InnerReported
<1>9. IntrospectionKept'
  <2> SUFFICES ASSUME IxSysvar \in DOMAIN tx, ~Has(given, IxSysvar)
               PROVE  /\ tx'[IxSysvar].owner = SysvarOwner
                      /\ tx'[IxSysvar].data \in Introspection
                      /\ tx'[IxSysvar].data.ixs = call.ixs
                      /\ tx'[IxSysvar].data.index = Len(log') - 1
    BY <1>1, <1>3 DEF IntrospectionKept
  <2>1. TopLevelIndex = (element - 1) + (next - 1)
    <3>1. call.api # "chain" => element = 1
      BY <1>4, OneMessage
    <3> QED BY <1>4, <3>1 DEF TopLevelIndex
  <2>2. Len(log') = Len(log) + 1
    BY <1>3, <1>4
  <2> QED BY <1>1, <1>4, <2>1, <2>2 DEF RuntimeStep, HInv, IntrospectionKept, Running
<1>10. LoadersKept'
  <2>1. ASSUME NEW p \in CalledPrograms(Message(call, element)), ~Has(given, p)
        PROVE  tx'[p].owner = LoaderKey(p)
    <3>1. p \in DOMAIN tx /\ p # IxSysvar
      BY <1>1, <1>4, KeysOfMessage, KeysAssumption DEF IInv, ContextKept, Running
    <3>2. tx[p].owner = LoaderKey(p) /\ LoaderKey(p) \in Loader
      BY <1>1, <1>4, <2>1, ProgramsOfMessage DEF HInv, LoadersKept, InCall, Running
    <3> QED BY <1>1, <3>1, <3>2 DEF RuntimeStep
  <2> QED BY <1>1, <1>3, <2>1 DEF HInv, LoadersKept, LoaderKey, InCall
<1> QED BY <1>6, <1>7, <1>8, <1>9, <1>10 DEF HInv

LEMMA DeconstructMessageHInv ==
  ASSUME IInv, HInv, DeconstructMessage
  PROVE  HInv'
<1>1. /\ pc = "deconstruct"
      /\ result'.units = result.units + exec.units /\ result'.inner = ReportedInner
      /\ pc' \in {"returned", "compile"}
      /\ UNCHANGED <<cache, call, given, fallbacks, tx, exec, log>>
  BY DEF DeconstructMessage, Absorbed, Advance, mollusk
<1>2. /\ call \in Calls /\ element \in 1..Elements(call) /\ call \in Call
      /\ log \in Seq(Invocation) /\ exec.inner \in Seq(Nat) /\ next \in Nat
      /\ next \in 1..(Len(Message(call, element)) + 1)
  BY <1>1, MessageOfCall DEF IInv, TypeOK, Placed, InCall
<1>3. UnitsKept' /\ InnerKept' /\ IntrospectionKept' /\ LoadersKept'
  BY <1>1 DEF HInv, UnitsKept, InnerKept, IntrospectionKept, LoadersKept, LoaderKey,
              InCall, Running
<1>4. InnerReportedByMessage'
  <2> SUFFICES ASSUME call.api # "chain", log # <<>>
               PROVE  /\ ReportedInner # <<>>
                      /\ ReportedInner[Len(ReportedInner)] = log[Len(log)].cpis
    BY <1>1 DEF InnerReportedByMessage, InnerReported
  <2>1. InnerCounted
    BY <1>1 DEF HInv, InnerKept, Running
  <2>2. Len(log) \in Nat \ {0} /\ Len(exec.inner) = Len(log)
    BY <1>2, <2>1 DEF InnerCounted
  <2>3. exec.inner[Len(log)] = log[Len(log)].cpis
    BY <1>2, <2>1, <2>2 DEF InnerCounted
  <2>4. CASE call.api = "transaction"
    <3>1. ReportedInner = exec.inner
      BY <2>4 DEF ReportedInner
    <3> QED BY <1>2, <2>2, <2>3, <3>1
  <2>5. CASE call.api = "instruction"
    <3>1. Len(log) = 1
      BY <1>2, <2>1, <2>2, <2>5, MessageOfCall DEF InnerCounted
    <3>2. ReportedInner = <<exec.inner[1]>>
      BY <1>2, <2>2, <2>5, <3>1 DEF ReportedInner
    <3> QED BY <2>3, <3>1, <3>2
  <2> QED BY <1>2, <2>4, <2>5 DEF Call
<1> QED BY <1>3, <1>4 DEF HInv

LEMMA StepHInv ==
  ASSUME IInv, HInv, Step
  PROVE  HInv'
<1>1. CASE CompileMessage
  BY <1>1, CompileMessageHInv
<1>2. CASE CompilePanics \/ CheckPanics
  BY <1>2, LocalsKeptHInv DEF CompilePanics, CheckPanics, mollusk
<1>3. CASE InvokeProgram \/ InvokePrecompile \/ RejectInstruction
  BY <1>3, InvocationHInv
<1>4. CASE DeconstructMessage
  BY <1>4, DeconstructMessageHInv
<1> QED BY <1>1, <1>2, <1>3, <1>4 DEF Step

LEMMA NextHInv == IInv /\ HInv /\ [Next]_vars => HInv'
<1> SUFFICES ASSUME IInv, HInv, [Next]_vars
             PROVE  HInv'
  OBVIOUS
<1>1. CASE \E add \in Additions : AddProgram(add[1], add[2])
  BY <1>1, LocalsKeptHInv DEF AddProgram
<1>2. CASE \E s \in 0..MaxSlot : WarpToSlot(s)
  BY <1>2, LocalsKeptHInv DEF WarpToSlot
<1>3. CASE \E c \in Calls, list \in AccountLists : Begin(c, list)
  BY <1>3, BeginHInv
<1>4. CASE \E c \in Calls, list \in AccountLists : BeginPanics(c, list)
  BY <1>4, LocalsKeptHInv DEF BeginPanics
<1>5. CASE Step
  BY <1>5, StepHInv
<1>6. CASE Return
  BY <1>6, ReturnHInv
<1>7. CASE UNCHANGED vars
  BY <1>7, LocalsKeptHInv DEF vars, locals
<1> QED BY <1>1, <1>2, <1>3, <1>4, <1>5, <1>6, <1>7 DEF Next

THEOREM History == Spec => []HInv
BY InitHInv, NextHInv, Invariance, PTL DEF Spec

(* A result has the units of every invocation of its call: failed ones,    *)
(* and those of the earlier elements of a chain.                           *)
THEOREM Accounting == Spec => []UnitsAccounted
<1>1. HInv => UnitsAccounted
  BY DEF HInv, UnitsKept, UnitsAccounted
<1> QED BY <1>1, History, PTL

(* The instructions sysvar that the harness makes tells every program the  *)
(* call's instructions and its own place, in whatever message it runs.     *)
THEOREM TruthfulIntrospection == Spec => []IntrospectionTruthful
<1>1. IInv /\ HInv => IntrospectionTruthful
  <2> SUFFICES ASSUME IInv, HInv, Running, next > 1, IxSysvar \in DOMAIN tx,
                      ~Has(given, IxSysvar)
               PROVE  tx[IxSysvar] = [owner |-> SysvarOwner,
                                      data |-> [ixs |-> call.ixs, index |-> Len(log) - 1]]
    BY DEF IntrospectionTruthful
  <2>1. tx[IxSysvar] \in Account
    BY DEF IInv, TypeOK
  <2>2. /\ tx[IxSysvar].owner = SysvarOwner
        /\ tx[IxSysvar].data = [ixs |-> call.ixs, index |-> Len(log) - 1]
    BY DEF HInv, IntrospectionKept, Introspection
  <2> QED BY <2>1, <2>2 DEF Account
<1> QED BY <1>1, Invariance, History, PTL

(* A program without an account of its own runs under its cached loader:   *)
(* no instruction before it can have changed the stub.                     *)
THEOREM StubsRun == Spec => []CachedProgramsRun
<1>1. IInv /\ HInv => CachedProgramsRun
  <2> SUFFICES ASSUME IInv, HInv, pc = "invoke", ~Has(given, NextInstruction.program)
               PROVE  tx[NextInstruction.program].owner = LoaderKey(NextInstruction.program)
    BY DEF CachedProgramsRun
  <2>1. NextInstruction.program \in CalledPrograms(Message(call, element))
    BY DEF IInv, Placed, NextInstruction, CalledPrograms
  <2> QED BY <2>1 DEF HInv, LoadersKept, Running
<1> QED BY <1>1, Invariance, History, PTL

(* Outside of chains the CPIs of the last instruction that ran are the     *)
(* last of the result.                                                     *)
THEOREM InnerOfLast == Spec => []InnerReportedByMessage
<1>1. HInv => InnerReportedByMessage
  BY DEF HInv
<1> QED BY <1>1, History, PTL

-----------------------------------------------------------------------------
(* The three calls implement AtomicProcessing.                             *)

LEMMA PlanTyped ==
  ASSUME NEW c \in Calls
  PROVE  /\ Elements(c) \in Nat
         /\ [e \in 1..Elements(c) |-> WritableKeys(Message(c, e)) \cup {IxSysvar}]
              \in Seq(SUBSET Key)
<1>1. Elements(c) \in Nat
  BY CallsAssumption DEF Elements, Call
<1>2. ASSUME NEW e \in 1..Elements(c)
      PROVE  WritableKeys(Message(c, e)) \cup {IxSysvar} \in SUBSET Key
  <2>1. Message(c, e) \in Seq(Instruction)
    BY MessageOfCall
  <2>2. WritableKeys(Message(c, e)) \subseteq MessageKeys(Message(c, e))
    BY DEF WritableKeys, MessageKeys
  <2> QED BY <2>1, <2>2, KeysOfMessage, KeysAssumption
<1> QED BY <1>1, <1>2

LEMMA AtomicInit == Init => Atomic!Init
BY NoCallTyped, EmptyListKept DEF Init, Atomic!Init, Status, Plan

(* Steps that leave the call's result alone are stutters.                  *)
LEMMA AtomicStutter ==
  ASSUME UNCHANGED <<call, element, result>>, Status' = Status
  PROVE  UNCHANGED Atomic!avars
BY DEF Atomic!avars, Plan

LEMMA AtomicOpen ==
  ASSUME IInv, NEW c \in Calls, NEW list, Begin(c, list)
  PROVE  Atomic!Open
<1>1. Status = "idle" /\ element = 1 /\ element' = element /\ call' = c
  BY DEF Begin, Status, IInv, Clean
<1>2. Plan' = [e \in 1..Elements(c) |-> WritableKeys(Message(c, e)) \cup {IxSysvar}]
  BY <1>1 DEF Plan
<1>3. Elements(c) \in Nat /\ Plan' \in Seq(SUBSET Key) /\ Len(Plan') = Elements(c)
  BY <1>2, PlanTyped
<1>4. Status' = IF Elements(c) = 0 THEN "ok" ELSE "open"
  BY DEF Begin, Status, InitialResult
<1>5. (Plan' = <<>>) <=> (Elements(c) = 0)
  BY <1>3
<1> QED BY <1>1, <1>3, <1>4, <1>5 DEF Atomic!Open

(* A message that succeeds changes what it may write, as a whole.          *)
LEMMA AtomicCommit ==
  ASSUME IInv, DeconstructMessage, exec.failed = 0
  PROVE  Atomic!Commit
<1> DEFINE before == result.accounts
           after == ResultingAccounts(before)
           keys == WritableKeys(Message(call, element)) \cup {IxSysvar}
<1>1. /\ pc = "deconstruct" /\ result'.accounts = after /\ result'.failed = 0
      /\ element' = element + 1
      /\ pc' = IF element = Elements(call) THEN "returned" ELSE "compile"
      /\ UNCHANGED <<call, tx>>
  BY DEF DeconstructMessage, Absorbed, Advance
<1>2. /\ call \in Calls /\ element \in 1..Elements(call) /\ Elements(call) \in Nat
      /\ element \in Nat /\ DOMAIN tx = MessageKeys(Message(call, element))
  BY <1>1, PlanTyped DEF IInv, TypeOK, Placed, ContextKept, InCall, Running
<1>3. /\ DOMAIN after = DOMAIN before /\ after \in Seq(KeyedAccount)
      /\ \A i \in DOMAIN before :
           /\ after[i].key = before[i].key
           /\ after[i].account = IF before[i].key \in DOMAIN tx
                                 THEN tx[before[i].key] ELSE before[i].account
  BY <1>1, ResultingAccountsKept
<1>4. before \in Seq(KeyedAccount)
  BY DEF IInv, TypeOK
<1>5. Plan' = Plan /\ Plan[element] = keys /\ Len(Plan) = Elements(call)
  BY <1>1, <1>2, PlanTyped DEF Plan
<1>6. Status = "open" /\ Status' = IF element' - 1 = Len(Plan) THEN "ok" ELSE "open"
  BY <1>1, <1>2, <1>5 DEF Status
<1> HIDE DEF after
<1>7. ASSUME NEW i \in DOMAIN before, Atomic!First(before, i)
      PROVE  after[i] = before[i] \/ before[i].key \in keys
  <2> SUFFICES ASSUME before[i].key \notin keys PROVE after[i] = before[i]
    OBVIOUS
  <2> DEFINE k == before[i].key
  <2>1. after[i] \in KeyedAccount /\ before[i] \in KeyedAccount
    BY <1>3, <1>4
  <2>2. Has(before, k)
    BY DEF Has
  <2>3. FirstIndex(before, k) = i
    <3>1. /\ FirstIndex(before, k) \in DOMAIN before
          /\ before[FirstIndex(before, k)].key = k
          /\ FirstIndex(before, k) <= i
      BY <1>4, <2>2, FirstIndexFound
    <3>2. i <= FirstIndex(before, k)
      BY <1>7, <3>1 DEF Atomic!First
    <3> QED BY <1>4, <3>1, <3>2
  <2>4. k \in DOMAIN tx => tx[k] = before[i].account
    BY <1>1, <2>2, <2>3 DEF IInv, FrameKept, Running, Find
  <2> QED BY <1>3, <2>1, <2>4 DEF KeyedAccount
<1>8. ASSUME NEW i \in DOMAIN before
      PROVE  \/ after[i] = before[i]
             \/ \E j \in DOMAIN before : Atomic!First(before, j) /\ after[i] = after[j]
  <2> DEFINE k == before[i].key
             j == FirstIndex(before, k)
  <2>1. Has(before, k)
    BY DEF Has
  <2>2. j \in DOMAIN before /\ before[j].key = k /\ Atomic!First(before, j)
    BY <1>4, <2>1, FirstIndexFound DEF Atomic!First
  <2>3. after[i] \in KeyedAccount /\ after[j] \in KeyedAccount /\ before[i] \in KeyedAccount
    BY <1>3, <1>4, <2>2
  <2>4. CASE k \in DOMAIN tx
    BY <1>3, <2>2, <2>3, <2>4 DEF KeyedAccount
  <2>5. CASE k \notin DOMAIN tx
    BY <1>3, <2>3, <2>5 DEF KeyedAccount
  <2> QED BY <2>2, <2>4, <2>5
<1>9. Atomic!WritesOnly(keys)
  BY <1>1, <1>3, <1>7, <1>8 DEF Atomic!WritesOnly
<1> HIDE DEF keys
<1> QED BY <1>1, <1>2, <1>5, <1>6, <1>9 DEF Atomic!Commit

(* A message that fails ends the call and changes nothing.                 *)
LEMMA AtomicFail ==
  ASSUME IInv, DeconstructMessage, exec.failed # 0
  PROVE  Atomic!Fail
<1>1. /\ pc = "deconstruct" /\ pc' = "returned"
      /\ result'.accounts = result.accounts /\ result'.failed = exec.failed
      /\ UNCHANGED <<call, element>>
  BY DEF DeconstructMessage, Absorbed, Advance, IInv, TypeOK
<1>2. Status = "open" /\ Status' = "failed"
  BY <1>1 DEF Status
<1> QED BY <1>1, <1>2 DEF Atomic!Fail, Plan

LEMMA AtomicPanic ==
  ASSUME pc \in {"idle", "compile", "deconstruct"}, pc' = "panicked",
         UNCHANGED <<call, element, result>>
  PROVE  Atomic!Panic
<1>1. Status \in {"idle", "open"} /\ Status' = "panicked"
  BY DEF Status
<1> QED BY <1>1 DEF Atomic!Panic, Plan

LEMMA AtomicClose == ASSUME Return PROVE Atomic!Close
<1>1. Status \in {"ok", "failed", "panicked"} /\ Status' = "idle"
  BY DEF Return, Status
<1>2. Plan' = <<>>
  BY NoCallTyped DEF Return, Plan
<1> QED BY <1>1, <1>2 DEF Return, InitialResult, Atomic!Close

(* Every step of a call is a step of the promise, or hidden from it.       *)
LEMMA AtomicCallStep ==
  ASSUME IInv, Step
  PROVE  Atomic!Next \/ UNCHANGED Atomic!avars
<1>1. CASE CompilePanics \/ CheckPanics
  <2>1. Atomic!Panic
    BY <1>1, AtomicPanic DEF CompilePanics, CheckPanics, locals
  <2> QED BY <2>1 DEF Atomic!Next
<1>2. CASE CompileMessage
  <2>1. pc' \in {"invoke", "deconstruct"} /\ Status = "open" /\ Status' = "open"
    BY <1>2 DEF CompileMessage, Status
  <2> QED BY <1>2, <2>1, AtomicStutter DEF CompileMessage
<1>3. ASSUME NEW ix, NEW ok, NEW units, NEW cpis, pc = "invoke",
             EndInvocation(ix, ok, units, cpis)
      PROVE  UNCHANGED Atomic!avars
  <2>1. pc' \in {"invoke", "deconstruct"} /\ Status = "open" /\ Status' = "open"
    BY <1>3 DEF EndInvocation, Status
  <2> QED BY <1>3, <2>1, AtomicStutter DEF EndInvocation
<1>4. CASE InvokeProgram \/ InvokePrecompile \/ RejectInstruction
  BY <1>3, <1>4 DEF InvokeProgram, InvokePrecompile, RejectInstruction
<1>5. CASE DeconstructMessage
  BY <1>5, AtomicCommit, AtomicFail DEF Atomic!Next
<1> QED BY <1>1, <1>2, <1>4, <1>5 DEF Step

LEMMA AtomicBeginPanics ==
  ASSUME NEW c, NEW list, BeginPanics(c, list)
  PROVE  Atomic!Panic
BY AtomicPanic DEF BeginPanics, locals

LEMMA AtomicIdle ==
  ASSUME UNCHANGED <<pc, locals>>
  PROVE  UNCHANGED Atomic!avars
BY AtomicStutter DEF locals, Status

LEMMA AtomicStep == IInv /\ [Next]_vars => [Atomic!Next]_(Atomic!avars)
<1> SUFFICES ASSUME IInv, [Next]_vars
             PROVE  Atomic!Next \/ UNCHANGED Atomic!avars
  OBVIOUS
<1>1. CASE \E add \in Additions : AddProgram(add[1], add[2])
  BY <1>1, AtomicIdle DEF AddProgram
<1>2. CASE \E s \in 0..MaxSlot : WarpToSlot(s)
  BY <1>2, AtomicIdle DEF WarpToSlot
<1>3. CASE \E c \in Calls, list \in AccountLists : Begin(c, list)
  BY <1>3, AtomicOpen DEF Atomic!Next
<1>4. CASE \E c \in Calls, list \in AccountLists : BeginPanics(c, list)
  BY <1>4, AtomicBeginPanics DEF Atomic!Next
<1>5. CASE Step
  BY <1>5, AtomicCallStep
<1>6. CASE Return
  BY <1>6, AtomicClose DEF Atomic!Next
<1>7. CASE UNCHANGED vars
  BY <1>7, AtomicIdle DEF vars, locals
<1> QED BY <1>1, <1>2, <1>3, <1>4, <1>5, <1>6, <1>7 DEF Next

(* AtomicCalls for every value of the constants: whatever the instructions *)
(* of a call hold, a message takes effect as a whole or not at all, only   *)
(* where it may write, and the first message that fails ends the call.     *)
THEOREM Atomicity == Spec => AtomicCalls
<1>1. Init => Atomic!Init
  BY AtomicInit
<1>2. IInv /\ [Next]_vars => [Atomic!Next]_(Atomic!avars)
  BY AtomicStep
<1> QED BY <1>1, <1>2, Invariance, PTL DEF Spec, AtomicCalls, Atomic!Spec

-----------------------------------------------------------------------------
(* The context: the inductive invariant.                                   *)

(* A call has begun and has not panicked.                                  *)
Opened == pc \in {"compile", "invoke", "deconstruct", "returned"}

(* What the accounts of a call are: all that its instructions name but the *)
(* instructions sysvar, and twice only what the instructions name.         *)
LoadedFor(ixs, list) ==
  /\ \A k \in MetaKeys(ixs) \ {IxSysvar} : Has(list, k)
  /\ ~Has(list, IxSysvar)
  /\ \A i, j \in DOMAIN list :
       list[i].key = list[j].key => i = j \/ list[i].key \in MetaKeys(ixs)

LoadKept == Opened => LoadedFor(call.ixs, given)

(* The environment comes first, and no message changes it.                 *)
FreshKept ==
  InCall =>
    /\ hydrate \/ ClockKey \notin DOMAIN store => clockSeen = slot
    /\ hydrate => \A prog \in DOMAIN cache :
         /\ Has(result.accounts, prog)
         /\ Find(result.accounts, prog).owner = cache[prog]
    /\ hydrate /\ Running => \A prog \in DOMAIN cache \cap DOMAIN tx :
         tx[prog].owner = cache[prog]

(* After a success the list is what the last message left, and every key   *)
(* of the instructions was in one of the messages.                         *)
StoredKept ==
  pc = "returned" /\ result.failed = 0 =>
    /\ \A i \in DOMAIN result.accounts :
         result.accounts[i].key \in DOMAIN tx =>
           result.accounts[i].account = tx[result.accounts[i].key]
    /\ \A k \in MetaKeys(call.ixs) :
         \E e \in 1..(element - 1) : k \in MessageKeys(Message(call, e))

CInv ==
  /\ IInv /\ HInv
  /\ WellFormedStore(store) /\ hydrate \in BOOLEAN
  /\ LoadKept /\ FreshKept /\ StoredKept

-----------------------------------------------------------------------------
(* Lemmas on the operators.                                                *)

(* The elements of a finite set in some order, each once.                  *)
LEMMA SetInOrder ==
  ASSUME NEW S, IsFiniteSet(S)
  PROVE  LET order == Sequence!SetToSeq(S) IN
         /\ order \in Seq(S)
         /\ \A x \in S : \E i \in DOMAIN order : order[i] = x
         /\ \A i, j \in DOMAIN order : order[i] = order[j] => i = j
<1> DEFINE n == Cardinality(S)
           order == Sequence!SetToSeq(S)
<1>1. n \in Nat /\ ExistsBijection(1..n, S)
  BY FS_CardinalityType
<1>2. order = CHOOSE f \in [1..n -> S] : IsInjective(f)
  BY DEF Sequence!SetToSeq, Sequence!IsInjective, Sequence!Cardinality, IsInjective, Cardinality
<1>3. PICK f \in [1..n -> S] : IsInjective(f)
  BY <1>1 DEF ExistsBijection, Bijection, Injection
<1>4. order \in [1..n -> S] /\ IsInjective(order)
  BY <1>2, <1>3
<1> HIDE DEF order
<1>5. IsFiniteSet(1..n) /\ Cardinality(1..n) = n
  BY <1>1, FS_Interval
<1>6. order \in Surjection(1..n, S)
  BY <1>4, <1>5, FS_Injection DEF Injection
<1> HIDE DEF n
<1>7. order \in Seq(S) /\ DOMAIN order = 1..n
  BY <1>1, <1>4
<1> QED BY <1>4, <1>6, <1>7 DEF order, Surjection, IsInjective

(* A finite map as a list has each of its keys once, with its account.     *)
LEMMA MapAsList ==
  ASSUME NEW accounts, IsFiniteSet(DOMAIN accounts)
  PROVE  LET list == KeyedAccounts(accounts) IN
         /\ list \in Seq([key : DOMAIN accounts, account : {accounts[k] : k \in DOMAIN accounts}])
         /\ \A k : Has(list, k) <=> k \in DOMAIN accounts
         /\ \A i \in DOMAIN list : /\ list[i].key \in DOMAIN accounts
                                   /\ list[i].account = accounts[list[i].key]
         /\ \A i, j \in DOMAIN list : list[i].key = list[j].key => i = j
<1> DEFINE order == Sequence!SetToSeq(DOMAIN accounts)
           list == KeyedAccounts(accounts)
<1>1. /\ order \in Seq(DOMAIN accounts)
      /\ \A x \in DOMAIN accounts : \E i \in DOMAIN order : order[i] = x
      /\ \A i, j \in DOMAIN order : order[i] = order[j] => i = j
  BY SetInOrder
<1>2. list = [i \in DOMAIN order |-> [key |-> order[i], account |-> accounts[order[i]]]]
  BY DEF KeyedAccounts
<1> HIDE DEF order, list
<1>3. /\ DOMAIN list = DOMAIN order
      /\ \A i \in DOMAIN list : list[i].key = order[i] /\ list[i].account = accounts[order[i]]
      /\ \A i \in DOMAIN list : list[i].key \in DOMAIN accounts
  BY <1>1, <1>2
<1>4. list \in Seq([key : DOMAIN accounts, account : {accounts[k] : k \in DOMAIN accounts}])
  <2> DEFINE Entries == [key : DOMAIN accounts, account : {accounts[k] : k \in DOMAIN accounts}]
             n == Len(order)
  <2>1. n \in Nat /\ DOMAIN order = 1..n
    BY <1>1
  <2>2. \A i \in 1..n : order[i] \in DOMAIN accounts
    BY <1>1
  <2>3. \A i \in 1..n : [key |-> order[i], account |-> accounts[order[i]]] \in Entries
    BY <2>2
  <2> HIDE DEF n, Entries
  <2>4. list \in [1..n -> Entries]
    BY <1>2, <2>1, <2>3
  <2>5. list \in Seq(Entries)
    BY <2>1, <2>4
  <2> QED BY <2>5 DEF Entries
<1>5. \A k : Has(list, k) <=> k \in DOMAIN accounts
  BY <1>1, <1>3, SMTT(30) DEF Has
<1> QED BY <1>1, <1>3, <1>4, <1>5 DEF list

(* Looking a key up in a list that is made of two.                         *)
LEMMA FindInFirst ==
  ASSUME NEW first \in Seq(KeyedAccount), NEW second \in Seq(KeyedAccount), NEW k
  PROVE  LET list == first \o second IN
         /\ list \in Seq(KeyedAccount)
         /\ Has(list, k) <=> Has(first, k) \/ Has(second, k)
         /\ Has(first, k) => Find(list, k) = Find(first, k)
<1> DEFINE list == first \o second
<1>1. /\ list \in Seq(KeyedAccount) /\ DOMAIN list = 1..(Len(first) + Len(second))
      /\ DOMAIN first = 1..Len(first) /\ DOMAIN second = 1..Len(second)
      /\ Len(first) \in Nat /\ Len(second) \in Nat
      /\ \A i \in DOMAIN first : list[i] = first[i]
      /\ \A i \in DOMAIN second : list[Len(first) + i] = second[i]
  OBVIOUS
<1>2. \A i \in DOMAIN list : i \in DOMAIN first \/ i - Len(first) \in DOMAIN second
  BY <1>1
<1> HIDE DEF list
<1>3. Has(list, k) <=> Has(first, k) \/ Has(second, k)
  <2>1. ASSUME Has(list, k) PROVE Has(first, k) \/ Has(second, k)
    <3>1. PICK i \in DOMAIN list : list[i].key = k
      BY <2>1 DEF Has
    <3>2. CASE i \in DOMAIN first
      BY <1>1, <3>1, <3>2 DEF Has
    <3>3. CASE i - Len(first) \in DOMAIN second
      <4>1. list[i] = second[i - Len(first)]
        BY <1>1, <3>1, <3>3
      <4> QED BY <3>1, <3>3, <4>1 DEF Has
    <3> QED BY <1>2, <3>1, <3>2, <3>3
  <2>2. Has(first, k) => Has(list, k)
    BY <1>1 DEF Has
  <2>3. ASSUME Has(second, k) PROVE Has(list, k)
    <3>1. PICK i \in DOMAIN second : second[i].key = k
      BY <2>3 DEF Has
    <3>2. Len(first) + i \in DOMAIN list /\ list[Len(first) + i] = second[i]
      BY <1>1, <3>1
    <3> QED BY <3>1, <3>2 DEF Has
  <2> QED BY <2>1, <2>2, <2>3
<1>4. ASSUME Has(first, k) PROVE Find(list, k) = Find(first, k)
  <2> DEFINE i == FirstIndex(first, k)
             j == FirstIndex(list, k)
  <2>1. /\ i \in DOMAIN first /\ first[i].key = k
        /\ \A m \in DOMAIN first : first[m].key = k => i <= m
    BY <1>4, FirstIndexFound
  <2>2. /\ j \in DOMAIN list /\ list[j].key = k
        /\ \A m \in DOMAIN list : list[m].key = k => j <= m
    BY <1>1, <1>3, <1>4, FirstIndexFound
  <2> HIDE DEF i, j
  <2>3. i \in DOMAIN list /\ list[i] = first[i]
    BY <1>1, <2>1
  <2>4. j <= i
    BY <2>1, <2>2, <2>3
  <2>5. j \in DOMAIN first /\ list[j] = first[j]
    BY <1>1, <2>1, <2>2, <2>4
  <2>6. i <= j
    BY <2>1, <2>2, <2>5
  <2>7. i = j
    BY <1>1, <2>1, <2>2, <2>4, <2>6
  <2> QED BY <2>3, <2>7 DEF Find, i, j
<1> QED BY <1>1, <1>3, <1>4 DEF list

(* The last entry of a key.                                                *)
LEMMA FindLastFound ==
  ASSUME NEW list \in Seq(KeyedAccount), NEW k, Has(list, k)
  PROVE  \E i \in DOMAIN list : list[i].key = k /\ FindLast(list, k) = list[i].account
<1> DEFINE S == {i \in DOMAIN list : list[i].key = k}
<1>1. S \in SUBSET Nat /\ S # {} /\ Len(list) \in Nat /\ \A i \in S : i <= Len(list)
  BY DEF Has
<1>2. \E m \in S : \A i \in S : i <= m
  <2> HIDE DEF S
  <2> QED BY <1>1, LargestElement
<1>3. \E i \in DOMAIN list : list[i].key = k /\ \A j \in DOMAIN list : list[j].key = k => j <= i
  BY <1>2
<1> QED BY <1>3 DEF FindLast

(* Where an entry of a list that is made of two comes from.                *)
LEMMA Joined ==
  ASSUME NEW first \in Seq(KeyedAccount), NEW second \in Seq(KeyedAccount),
         NEW i \in DOMAIN (first \o second)
  PROVE  \/ i \in DOMAIN first /\ (first \o second)[i] = first[i]
         \/ /\ i \notin DOMAIN first /\ i - Len(first) \in DOMAIN second
            /\ (first \o second)[i] = second[i - Len(first)]
OBVIOUS

LEMMA JoinedWellFormed ==
  ASSUME NEW first, WellFormed(first), NEW second, WellFormed(second)
  PROVE  WellFormed(first \o second)
<1>1. first \in Seq(KeyedAccount) /\ second \in Seq(KeyedAccount)
  BY DEF WellFormed
<1>2. first \o second \in Seq(KeyedAccount)
  BY <1>1
<1>3. \A i \in DOMAIN (first \o second) :
        \/ \E j \in DOMAIN first : (first \o second)[i] = first[j]
        \/ \E j \in DOMAIN second : (first \o second)[i] = second[j]
  BY <1>1, Joined
<1> QED BY <1>2, <1>3 DEF WellFormed

-----------------------------------------------------------------------------
(* What a context loads.                                                   *)

LEMMA MetaKeysTyped ==
  ASSUME NEW ixs \in Seq(Instruction)
  PROVE  MetaKeys(ixs) \subseteq Key
<1>1. \A i \in DOMAIN ixs : ixs[i] \in Instruction
  OBVIOUS
<1>2. \A i \in DOMAIN ixs : ixs[i].ro \subseteq Key /\ ixs[i].rw \subseteq Key
  BY <1>1 DEF Instruction
<1> QED BY <1>2 DEF MetaKeys

(* The accounts that the environment makes up or the store has.            *)
LEMMA StoredAccountTyped ==
  ASSUME TypeOK, WellFormedStore(store), NEW k
  PROVE  /\ StoredAccount(k) \in Account
         /\ k = ClockKey => StoredAccount(k) \in [owner : {SysvarOwner}, data : ClockData]
         /\ k = ClockKey /\ ClockKey \notin DOMAIN store => StoredAccount(k).data.slot = slot
<1>1. ClockAccount \in Account /\ ClockAccount \in [owner : {SysvarOwner}, data : ClockData]
  BY KeysAssumption, BoundsAssumption DEF ClockAccount, Account, ClockData, TypeOK
<1>2. k \in DOMAIN cache => ProgramAccount(k) \in Account
  BY KeysAssumption, StubAssumption DEF ProgramAccount, Account, TypeOK
<1>3. DefaultAccount \in Account
  BY KeysAssumption DEF DefaultAccount, Account
<1>4. CASE k \in DOMAIN store
  <2>1. StoredAccount(k) = store[k]
    BY <1>4 DEF StoredAccount
  <2> QED BY <1>4, <2>1 DEF WellFormedStore
<1>5. CASE k \notin DOMAIN store /\ k = ClockKey
  <2>1. ClockKey \notin DOMAIN cache
    BY KeysAssumption DEF TypeOK
  <2>2. StoredAccount(k) = ClockAccount
    BY <1>5, <2>1 DEF StoredAccount
  <2> QED BY <1>1, <1>5, <2>2 DEF ClockAccount
<1>6. CASE k \notin DOMAIN store /\ k # ClockKey /\ k \in DOMAIN cache
  <2>1. StoredAccount(k) = ProgramAccount(k)
    BY <1>6 DEF StoredAccount
  <2> QED BY <1>2, <1>6, <2>1
<1>7. CASE k \notin DOMAIN store /\ k # ClockKey /\ k \notin DOMAIN cache
  <2>1. StoredAccount(k) = DefaultAccount
    BY <1>7 DEF StoredAccount
  <2> QED BY <1>3, <1>7, <2>1
<1> QED BY <1>4, <1>5, <1>6, <1>7

(* The environment as a list: each program under its loader, and the clock *)
(* of the last warp.                                                       *)
LEMMA EnvironmentTyped ==
  ASSUME TypeOK
  PROVE  LET list == EnvironmentAccounts IN
         /\ WellFormed(list) /\ list \in Seq(KeyedAccount)
         /\ \A k : Has(list, k) <=> k \in DOMAIN cache \cup {ClockKey}
         /\ \A prog \in DOMAIN cache : Find(list, prog).owner = cache[prog]
         /\ Find(list, ClockKey).data.slot = slot
         /\ \A i, j \in DOMAIN list : list[i].key = list[j].key => i = j
<1> DEFINE accounts == [prog \in DOMAIN cache |-> ProgramAccount(prog)]
           programs == KeyedAccounts(accounts)
           entry == [key |-> ClockKey, account |-> ClockAccount]
           clocks == <<entry>>
           list == EnvironmentAccounts
<1>1. DOMAIN cache \subseteq Program /\ DOMAIN cache \subseteq Key /\ ClockKey \notin DOMAIN cache
      /\ IxSysvar \notin DOMAIN cache /\ ClockKey \in Key /\ ClockKey # IxSysvar
  BY KeysAssumption DEF TypeOK
<1>2. IsFiniteSet(DOMAIN accounts) /\ DOMAIN accounts = DOMAIN cache
  BY <1>1, FiniteKeysAssumption, FS_Subset
<1>3. \A prog \in DOMAIN cache : accounts[prog] \in Account /\ accounts[prog].owner = cache[prog]
  BY KeysAssumption, StubAssumption DEF ProgramAccount, Account, TypeOK
<1> HIDE DEF accounts
<1>4. /\ programs \in Seq([key : DOMAIN accounts,
                           account : {accounts[k] : k \in DOMAIN accounts}])
      /\ \A k : Has(programs, k) <=> k \in DOMAIN accounts
      /\ \A i \in DOMAIN programs : /\ programs[i].key \in DOMAIN accounts
                                    /\ programs[i].account = accounts[programs[i].key]
      /\ \A i, j \in DOMAIN programs : programs[i].key = programs[j].key => i = j
  BY <1>2, MapAsList
<1>5. list = programs \o clocks
  BY DEF EnvironmentAccounts, accounts
<1> HIDE DEF programs
<1>6. programs \in Seq(KeyedAccount)
  <2> DEFINE Entries == [key : DOMAIN accounts, account : {accounts[k] : k \in DOMAIN accounts}]
  <2>1. Entries \subseteq KeyedAccount
    BY <1>1, <1>2, <1>3 DEF KeyedAccount
  <2>2. programs \in Seq(Entries)
    BY <1>4
  <2> HIDE DEF Entries
  <2> QED BY <2>1, <2>2
<1>7. entry \in KeyedAccount /\ ClockAccount \in [owner : {SysvarOwner}, data : ClockData]
      /\ ClockAccount.data.slot = slot
  BY <1>1, KeysAssumption, BoundsAssumption
  DEF ClockAccount, Account, ClockData, TypeOK, KeyedAccount
<1>8. /\ clocks \in Seq(KeyedAccount) /\ Has(clocks, ClockKey)
      /\ \A k : Has(clocks, k) => k = ClockKey
      /\ FirstIndex(clocks, ClockKey) = 1 /\ Find(clocks, ClockKey) = ClockAccount
  <2>1. /\ clocks \in Seq(KeyedAccount) /\ DOMAIN clocks = {1} /\ clocks[1] = entry
        /\ entry.key = ClockKey /\ entry.account = ClockAccount
    BY <1>7
  <2> HIDE DEF entry, clocks
  <2>2. Has(clocks, ClockKey) /\ \A k : Has(clocks, k) => k = ClockKey
    BY <2>1 DEF Has
  <2>3. FirstIndex(clocks, ClockKey) = 1
    BY <2>1, <2>2, FirstIndexFound
  <2> QED BY <2>1, <2>2, <2>3 DEF Find
<1>9. WellFormed(list) /\ list \in Seq(KeyedAccount)
  <2>1. WellFormed(programs)
    BY <1>1, <1>2, <1>4, <1>6 DEF WellFormed
  <2>2. WellFormed(clocks)
    BY <1>1, <1>7, <1>8 DEF WellFormed
  <2> QED BY <1>5, <2>1, <2>2, JoinedWellFormed DEF WellFormed
<1> HIDE DEF clocks, entry
<1>10. \A k : Has(list, k) <=> k \in DOMAIN cache \cup {ClockKey}
  BY <1>2, <1>4, <1>5, <1>6, <1>8, FindInFirst
<1>11. ASSUME NEW prog \in DOMAIN cache PROVE Find(list, prog).owner = cache[prog]
  <2>1. Has(programs, prog) /\ Find(list, prog) = Find(programs, prog)
    BY <1>2, <1>4, <1>5, <1>6, <1>8, FindInFirst
  <2>2. Find(programs, prog) = accounts[prog]
    BY <1>4, <1>6, <2>1, FirstIndexFound DEF Find
  <2> QED BY <1>3, <2>1, <2>2
<1>12. Find(list, ClockKey).data.slot = slot
  <2>1. FirstIndex(list, ClockKey) \in DOMAIN list /\ list[FirstIndex(list, ClockKey)].key = ClockKey
    BY <1>9, <1>10, FirstIndexFound
  <2>2. list[FirstIndex(list, ClockKey)] = entry
    <3>1. \A i \in DOMAIN programs : programs[i].key # ClockKey
      BY <1>1, <1>2, <1>4
    <3>2. \E i \in DOMAIN clocks : list[FirstIndex(list, ClockKey)] = clocks[i]
      BY <1>5, <1>6, <1>8, <2>1, <3>1, Joined
    <3> QED BY <3>2 DEF clocks
  <2> QED BY <1>7, <2>2 DEF Find, entry
<1>13. ASSUME NEW i \in DOMAIN list, NEW j \in DOMAIN list, list[i].key = list[j].key
       PROVE  i = j
  <2>1. \A m \in DOMAIN list :
          \/ /\ m \in DOMAIN programs /\ list[m] = programs[m]
             /\ list[m].key # ClockKey
          \/ list[m].key = ClockKey /\ m = Len(programs) + 1
    <3> SUFFICES ASSUME NEW m \in DOMAIN list
                 PROVE  \/ /\ m \in DOMAIN programs /\ list[m] = programs[m]
                           /\ list[m].key # ClockKey
                        \/ list[m].key = ClockKey /\ m = Len(programs) + 1
      OBVIOUS
    <3>1. CASE m \in DOMAIN programs
      BY <1>1, <1>2, <1>4, <1>5, <1>6, <1>8, <3>1, Joined
    <3>2. CASE m \notin DOMAIN programs
      <4>1. m - Len(programs) \in DOMAIN clocks /\ list[m] = clocks[m - Len(programs)]
        BY <1>5, <1>6, <1>8, <3>2, Joined
      <4>2. m - Len(programs) = 1 /\ m \in Int /\ Len(programs) \in Int
        BY <1>6, <1>9, <4>1 DEF clocks
      <4> QED BY <4>1, <4>2 DEF clocks, entry
    <3> QED BY <3>1, <3>2
  <2> QED BY <1>4, <1>13, <2>1
<1> HIDE DEF list
<1> QED BY <1>9, <1>10, <1>11, <1>12, <1>13 DEF list

(* The accounts of the instructions as a list.                             *)
LEMMA StoredAccountsTyped ==
  ASSUME TypeOK, WellFormedStore(store), NEW keys \in SUBSET (Key \ {IxSysvar})
  PROVE  LET list == KeyedAccounts(StoredAccounts(keys)) IN
         /\ WellFormed(list) /\ list \in Seq(KeyedAccount)
         /\ \A k : Has(list, k) <=> k \in keys
         /\ ClockKey \in keys /\ ClockKey \notin DOMAIN store =>
              Find(list, ClockKey).data.slot = slot
         /\ \A i, j \in DOMAIN list : list[i].key = list[j].key => i = j
<1> DEFINE accounts == StoredAccounts(keys)
           list == KeyedAccounts(accounts)
           Entries == [key : DOMAIN accounts, account : {accounts[k] : k \in DOMAIN accounts}]
<1>1. DOMAIN accounts = keys /\ \A k \in keys : accounts[k] = StoredAccount(k)
  BY DEF StoredAccounts
<1> HIDE DEF accounts
<1>2. IsFiniteSet(DOMAIN accounts)
  BY <1>1, FiniteKeysAssumption, FS_Subset
<1>3. /\ list \in Seq(Entries)
      /\ \A k : Has(list, k) <=> k \in keys
      /\ \A i \in DOMAIN list : list[i].key \in keys /\ list[i].account = accounts[list[i].key]
      /\ \A i, j \in DOMAIN list : list[i].key = list[j].key => i = j
  BY <1>1, <1>2, MapAsList
<1> HIDE DEF list
<1>4. Entries \subseteq KeyedAccount
  BY <1>1, StoredAccountTyped DEF KeyedAccount
<1> HIDE DEF Entries
<1>5. list \in Seq(KeyedAccount)
  BY <1>3, <1>4
<1>6. WellFormed(list)
  BY <1>1, <1>3, <1>5, StoredAccountTyped DEF WellFormed
<1>7. ASSUME ClockKey \in keys, ClockKey \notin DOMAIN store
      PROVE  Find(list, ClockKey).data.slot = slot
  <2>1. Find(list, ClockKey) = accounts[ClockKey]
    BY <1>3, <1>5, <1>7, FirstIndexFound DEF Find
  <2> QED BY <1>1, <1>7, <2>1, StoredAccountTyped
<1> QED BY <1>3, <1>5, <1>6, <1>7 DEF list, accounts

(* What a call of a context is given.                                      *)
LEMMA LoadTyped ==
  ASSUME TypeOK, WellFormedStore(store), hydrate \in BOOLEAN, NEW ixs \in Seq(Instruction)
  PROVE  LET list == Load(ixs) IN
         /\ WellFormed(list) /\ LoadedFor(ixs, list)
         /\ hydrate \/ ClockKey \notin DOMAIN store => ClockFor(list) = slot
         /\ hydrate => \A prog \in DOMAIN cache :
              Has(list, prog) /\ Find(list, prog).owner = cache[prog]
<1> DEFINE keys == MetaKeys(ixs) \ {IxSysvar}
           first == IF hydrate THEN EnvironmentAccounts ELSE <<>>
           second == KeyedAccounts(StoredAccounts(keys))
           list == Load(ixs)
<1>1. keys \subseteq Key \ {IxSysvar}
  BY MetaKeysTyped
<1>2. list = first \o second
  BY DEF Load
<1>3. /\ DOMAIN cache \subseteq Program /\ ClockKey \notin DOMAIN cache
      /\ IxSysvar \notin DOMAIN cache /\ ClockKey # IxSysvar
  BY KeysAssumption DEF TypeOK
<1>4. /\ WellFormed(second) /\ second \in Seq(KeyedAccount)
      /\ \A k : Has(second, k) <=> k \in keys
      /\ ClockKey \in keys /\ ClockKey \notin DOMAIN store =>
           Find(second, ClockKey).data.slot = slot
      /\ \A i, j \in DOMAIN second : second[i].key = second[j].key => i = j
  BY <1>1, StoredAccountsTyped
<1>5. /\ WellFormed(first) /\ first \in Seq(KeyedAccount)
      /\ \A i, j \in DOMAIN first : first[i].key = first[j].key => i = j
      /\ ~Has(first, IxSysvar)
      /\ hydrate => /\ \A k : Has(first, k) <=> k \in DOMAIN cache \cup {ClockKey}
                    /\ \A prog \in DOMAIN cache : Find(first, prog).owner = cache[prog]
                    /\ Find(first, ClockKey).data.slot = slot
      /\ ~hydrate => first = <<>> /\ \A k : ~Has(first, k)
  <2>1. CASE hydrate
    BY <1>3, <2>1, EnvironmentTyped
  <2>2. CASE ~hydrate
    BY <2>2, EmptyListKept
  <2> QED BY <2>1, <2>2
<1> HIDE DEF keys, first, second, list
<1>6. WellFormed(list) /\ list \in Seq(KeyedAccount)
  BY <1>2, <1>4, <1>5, JoinedWellFormed DEF WellFormed
<1>7. \A k : Has(list, k) <=> Has(first, k) \/ k \in keys
  BY <1>2, <1>4, <1>5, FindInFirst
<1>8. LoadedFor(ixs, list)
  <2>1. ASSUME NEW i \in DOMAIN list, NEW j \in DOMAIN list,
               list[i].key = list[j].key, list[i].key \notin MetaKeys(ixs)
        PROVE  i = j
    <3>1. ASSUME NEW m \in DOMAIN list, list[m].key \notin MetaKeys(ixs)
          PROVE  m \in DOMAIN first /\ list[m] = first[m]
      <4>1. \A n \in DOMAIN second : second[n].key \in MetaKeys(ixs)
        BY <1>4 DEF Has, keys
      <4>2. \/ m \in DOMAIN first /\ list[m] = first[m]
            \/ m - Len(first) \in DOMAIN second /\ list[m] = second[m - Len(first)]
        BY <1>2, <1>4, <1>5, <3>1, Joined
      <4> QED BY <3>1, <4>1, <4>2
    <3> QED BY <1>5, <2>1, <3>1
  <2>2. ~Has(list, IxSysvar) /\ \A k \in MetaKeys(ixs) \ {IxSysvar} : Has(list, k)
    BY <1>5, <1>7 DEF keys
  <2> QED BY <2>1, <2>2 DEF LoadedFor
<1>9. ASSUME hydrate \/ ClockKey \notin DOMAIN store PROVE ClockFor(list) = slot
  <2>1. CASE hydrate
    <3>1. Has(first, ClockKey)
      BY <1>5, <2>1
    <3>2. Find(list, ClockKey) = Find(first, ClockKey)
      BY <1>2, <1>4, <1>5, <3>1, FindInFirst
    <3> QED BY <1>5, <1>7, <2>1, <3>1, <3>2 DEF ClockFor
  <2>2. CASE ~hydrate /\ ClockKey \in keys
    <3>1. list = second
      BY <1>2, <1>4, <1>5, <2>2
    <3> QED BY <1>4, <1>9, <2>2, <3>1 DEF ClockFor
  <2>3. CASE ~hydrate /\ ClockKey \notin keys
    BY <1>5, <1>7, <2>3 DEF ClockFor
  <2> QED BY <2>1, <2>2, <2>3
<1>10. ASSUME hydrate, NEW prog \in DOMAIN cache
       PROVE  Has(list, prog) /\ Find(list, prog).owner = cache[prog]
  <2>1. Has(first, prog)
    BY <1>5, <1>10
  <2>2. Find(list, prog) = Find(first, prog)
    BY <1>2, <1>4, <1>5, <2>1, FindInFirst
  <2> QED BY <1>5, <1>7, <1>10, <2>1, <2>2
<1> QED BY <1>6, <1>8, <1>9, <1>10 DEF list

-----------------------------------------------------------------------------
(* The invariant holds initially, and between calls.                       *)

LEMMA ContextInitInv == ContextInit => CInv
<1> SUFFICES ASSUME ContextInit PROVE CInv
  OBVIOUS
<1>1. IInv /\ HInv
  BY InitInv, InitHInv DEF ContextInit
<1>2. pc = "idle" /\ hydrate \in BOOLEAN
  BY DEF ContextInit, Init
<1>3. WellFormedStore(store)
  <2>1. PICK s \in Stores :
          store = [k \in DOMAIN s \cup DOMAIN cache |->
                     IF k \in DOMAIN s THEN s[k] ELSE ProgramAccount(k)]
    BY DEF ContextInit
  <2>2. WellFormedStore(s)
    BY StoresAssumption
  <2>3. \A prog \in DOMAIN cache : /\ ProgramAccount(prog) \in Account
                                   /\ prog \in Key /\ prog # ClockKey
    BY <1>1, KeysAssumption, StubAssumption DEF ProgramAccount, Account, IInv, TypeOK
  <2> QED BY <2>1, <2>2, <2>3 DEF WellFormedStore
<1> QED BY <1>1, <1>2, <1>3 DEF CInv, LoadKept, FreshKept, StoredKept, Opened, InCall

(* A step that leaves the call alone, and an environment that the test may *)
(* change between calls, or a store that it may change at any time.        *)
LEMMA TestStepInv ==
  ASSUME CInv, UNCHANGED locals, pc' = pc, IInv', HInv',
         WellFormedStore(store'), hydrate' \in BOOLEAN,
         InCall => /\ UNCHANGED <<cache, slot, hydrate>>
                   /\ DOMAIN store \subseteq DOMAIN store'
  PROVE  CInv'
<1> USE DEF locals
<1>1. LoadKept' /\ StoredKept'
  BY DEF CInv, LoadKept, StoredKept, Opened
<1>2. FreshKept'
  BY DEF CInv, FreshKept, InCall, Running
<1> QED BY <1>1, <1>2 DEF CInv

LEMMA ChangeEnvironmentInv ==
  ASSUME CInv, ChangeEnvironment
  PROVE  CInv'
<1>1. IInv' /\ HInv'
  <2>1. CASE \E add \in Additions : AddProgram(add[1], add[2])
    BY <2>1, AddProgramInv, LocalsKeptHInv DEF AddProgram, CInv
  <2>2. CASE \E s \in 0..MaxSlot : WarpToSlot(s)
    BY <2>2, WarpToSlotInv, LocalsKeptHInv DEF WarpToSlot, CInv
  <2> QED BY <2>1, <2>2 DEF ChangeEnvironment
<1>2. UNCHANGED locals /\ pc = "idle" /\ pc' = pc /\ UNCHANGED <<store, hydrate>>
  BY DEF ChangeEnvironment, AddProgram, WarpToSlot
<1>3. WellFormedStore(store') /\ hydrate' \in BOOLEAN /\ ~InCall
  BY <1>2 DEF CInv, InCall
<1> QED BY <1>1, <1>2, <1>3, TestStepInv

LEMMA SetHydrateInv ==
  ASSUME CInv, NEW b \in BOOLEAN, SetHydrate(b)
  PROVE  CInv'
<1>1. UNCHANGED mollusk /\ UNCHANGED locals /\ pc = "idle" /\ pc' = pc
      /\ hydrate' = b /\ store' = store
  BY DEF SetHydrate
<1>2. IInv' /\ HInv'
  BY <1>1, LocalsKeptInv, LocalsKeptHInv DEF mollusk, CInv, IInv, TypeOK
<1>3. WellFormedStore(store') /\ hydrate' \in BOOLEAN /\ ~InCall
  BY <1>1 DEF CInv, InCall
<1> QED BY <1>1, <1>2, <1>3, TestStepInv

LEMMA StoreAccountInv ==
  ASSUME CInv, NEW w \in UserWrites, StoreAccount(w[1], w[2])
  PROVE  CInv'
<1>1. /\ UNCHANGED mollusk /\ UNCHANGED locals /\ pc' = pc /\ hydrate' = hydrate
      /\ store' = [l \in DOMAIN store \cup {w[1]} |-> IF l = w[1] THEN w[2] ELSE store[l]]
  BY DEF StoreAccount
<1>2. IInv' /\ HInv'
  BY <1>1, LocalsKeptInv, LocalsKeptHInv DEF mollusk, CInv, IInv, TypeOK
<1>3. WellFormedStore(store')
  <2>1. WellFormedStore([k \in {w[1]} |-> w[2]]) /\ WellFormedStore(store)
    BY WritesAssumption DEF CInv
  <2>2. w[1] \in Key /\ w[2] \in Account
        /\ (w[1] = ClockKey => w[2] \in [owner : {SysvarOwner}, data : ClockData])
    BY <2>1 DEF WellFormedStore
  <2> QED BY <1>1, <2>1, <2>2 DEF WellFormedStore
<1>4. hydrate' \in BOOLEAN /\ UNCHANGED <<cache, slot, hydrate>>
      /\ DOMAIN store \subseteq DOMAIN store'
  BY <1>1 DEF CInv, mollusk
<1> QED BY <1>1, <1>2, <1>3, <1>4, TestStepInv

-----------------------------------------------------------------------------
(* The steps of a call.                                                    *)

LEMMA ContextBeginInv ==
  ASSUME CInv, NEW c \in Calls, ContextBegin(c)
  PROVE  CInv'
<1> DEFINE list == Load(c.ixs)
<1>1. UNCHANGED <<store, hydrate>> /\ (Begin(c, list) \/ BeginPanics(c, list))
  BY DEF ContextBegin
<1>2. WellFormedStore(store') /\ hydrate' \in BOOLEAN
  BY <1>1 DEF CInv
<1>3. c \in Call /\ c.ixs \in Seq(Instruction)
  BY CallsAssumption DEF Call
<1>4. /\ WellFormed(list) /\ LoadedFor(c.ixs, list)
      /\ hydrate \/ ClockKey \notin DOMAIN store => ClockFor(list) = slot
      /\ hydrate => \A prog \in DOMAIN cache :
           Has(list, prog) /\ Find(list, prog).owner = cache[prog]
  BY <1>3, LoadTyped DEF CInv, IInv
<1> HIDE DEF list
<1>5. CASE Begin(c, list)
  <2>1. IInv' /\ HInv'
    BY <1>4, <1>5, BeginInv, BeginHInv DEF CInv
  <2>2. /\ call' = c /\ given' = list /\ clockSeen' = ClockFor(list)
        /\ result' = InitialResult(list) /\ UNCHANGED <<cache, slot>>
        /\ pc = "idle" /\ UNCHANGED <<tx, element>>
        /\ pc' = IF Elements(c) = 0 THEN "returned" ELSE "compile"
    BY <1>5 DEF Begin, mollusk
  <2>3. LoadKept'
    BY <1>4, <2>2 DEF LoadKept
  <2>4. FreshKept'
    BY <1>1, <1>4, <2>2 DEF FreshKept, InCall, Running, InitialResult
  <2>5. StoredKept'
    <3>1. DOMAIN tx' = {}
      BY <2>2, NoCallTyped DEF CInv, IInv, Clean
    <3>2. Elements(c) = 0 => MetaKeys(c.ixs) = {}
      <4>1. ASSUME Elements(c) = 0 PROVE c.ixs = <<>>
        BY <1>3, <4>1 DEF Elements
      <4> QED BY <4>1 DEF MetaKeys
    <3> QED BY <2>2, <3>1, <3>2 DEF StoredKept
  <2> QED BY <1>2, <2>1, <2>3, <2>4, <2>5 DEF CInv
<1>6. CASE BeginPanics(c, list)
  <2>1. pc' = "panicked" /\ UNCHANGED <<mollusk, locals>>
    BY <1>6 DEF BeginPanics
  <2>2. IInv' /\ HInv'
    BY <2>1, PanicsInv, LocalsKeptHInv DEF CInv
  <2> QED BY <1>2, <2>1, <2>2 DEF CInv, LoadKept, FreshKept, StoredKept, Opened, InCall
<1> QED BY <1>1, <1>5, <1>6

(* The environment in the account list reaches the message's context.      *)
LEMMA ContextCompileFresh ==
  ASSUME CInv, CompileMessage, UNCHANGED <<store, hydrate>>
  PROVE  FreshKept'
<1> DEFINE ixs == Message(call, element)
<1>1. /\ pc = "compile" /\ UNCHANGED <<cache, slot, clockSeen, result>>
      /\ Missing(ixs, result.accounts) = {}
      /\ tx' = [k \in MessageKeys(ixs) |-> CompiledAccount(k, ixs, result.accounts)]
  BY DEF CompileMessage, mollusk
<1>2. /\ call \in Calls /\ element \in 1..Elements(call) /\ WellFormed(result.accounts)
      /\ fallbacks \in [DOMAIN fallbacks -> Account]
      /\ DOMAIN fallbacks \subseteq Program \cup {IxSysvar}
      /\ IxSysvar \in DOMAIN fallbacks => fallbacks[IxSysvar] = IxSysvarAccount(call.ixs)
  BY <1>1 DEF CInv, IInv, TypeOK, Placed, InCall, ListKept, FallbacksKept
<1>3. ASSUME hydrate, NEW prog \in DOMAIN cache \cap DOMAIN tx'
      PROVE  tx'[prog].owner = cache[prog]
  <2>1. Has(result.accounts, prog) /\ Find(result.accounts, prog).owner = cache[prog]
    BY <1>1, <1>3 DEF CInv, FreshKept, InCall
  <2>2. prog \in MessageKeys(ixs)
    BY <1>1, <1>3
  <2>3. CompiledAccount(prog, ixs, result.accounts) = Find(result.accounts, prog)
    BY <1>1, <1>2, <2>1, <2>2, CompiledTyped
  <2> QED BY <1>1, <2>1, <2>2, <2>3
<1>4. pc' \in {"invoke", "deconstruct"}
  BY DEF CompileMessage
<1> QED BY <1>1, <1>3, <1>4 DEF CInv, FreshKept, InCall, Running

(* No execution changes a program.                                         *)
LEMMA ContextInvocationFresh ==
  ASSUME CInv, InvokeProgram \/ InvokePrecompile \/ RejectInstruction,
         UNCHANGED <<store, hydrate>>
  PROVE  FreshKept'
<1>1. pc = "invoke" /\ RuntimeStep /\ DOMAIN tx' = DOMAIN tx
  BY InvocationSteps DEF CInv
<1>2. UNCHANGED <<cache, slot, clockSeen, result>>
  BY InvocationSteps DEF CInv, EndInvocation, mollusk
<1>3. ASSUME hydrate, NEW prog \in DOMAIN cache \cap DOMAIN tx'
      PROVE  tx'[prog].owner = cache[prog]
  <2>1. tx[prog].owner = cache[prog]
    BY <1>1, <1>3 DEF CInv, FreshKept, InCall, Running
  <2>2. cache[prog] \in Loader /\ prog # IxSysvar
    BY KeysAssumption DEF CInv, IInv, TypeOK
  <2> QED BY <1>1, <2>1, <2>2 DEF RuntimeStep
<1> QED BY <1>1, <1>2, <1>3 DEF CInv, FreshKept, InCall, Running

(* Nor does taking over what a message left.                               *)
LEMMA ContextDeconstructFresh ==
  ASSUME CInv, DeconstructMessage, UNCHANGED <<store, hydrate>>
  PROVE  FreshKept'
<1> DEFINE list == result.accounts
           after == ResultingAccounts(list)
<1>1. /\ pc = "deconstruct" /\ UNCHANGED <<cache, slot, clockSeen, tx>>
      /\ pc' \in {"returned", "compile"} /\ result' = Absorbed
      /\ pc' = "compile" => exec.failed = 0
  BY DEF DeconstructMessage, Advance, mollusk
<1>2. pc' = "compile" => result'.accounts = after
  BY <1>1 DEF Absorbed
<1>3. /\ list \in Seq(KeyedAccount) /\ after \in Seq(KeyedAccount) /\ DOMAIN after = DOMAIN list
      /\ \A i \in DOMAIN list :
           /\ after[i].key = list[i].key
           /\ after[i].account = IF list[i].key \in DOMAIN tx
                                 THEN tx[list[i].key] ELSE list[i].account
  BY <1>1, ResultingAccountsKept DEF CInv, IInv, ListKept, WellFormed
<1> HIDE DEF after
<1>4. ASSUME hydrate, NEW prog \in DOMAIN cache
      PROVE  Has(after, prog) /\ Find(after, prog).owner = cache[prog]
  <2>1. /\ Has(list, prog) /\ Find(list, prog).owner = cache[prog]
        /\ prog \in DOMAIN tx => tx[prog].owner = cache[prog]
    BY <1>1, <1>4 DEF CInv, FreshKept, InCall, Running
  <2>2. Has(after, prog) /\ FirstIndex(after, prog) = FirstIndex(list, prog)
    BY <1>3, <2>1, SameLookups
  <2>3. /\ FirstIndex(list, prog) \in DOMAIN list
        /\ list[FirstIndex(list, prog)].key = prog
    BY <1>3, <2>1, FirstIndexFound
  <2>4. Find(after, prog) = IF prog \in DOMAIN tx THEN tx[prog] ELSE Find(list, prog)
    BY <1>3, <2>2, <2>3 DEF Find
  <2> QED BY <2>1, <2>2, <2>4
<1>5. hydrate \/ ClockKey \notin DOMAIN store => clockSeen = slot
  BY <1>1 DEF CInv, FreshKept, InCall
<1> QED BY <1>1, <1>2, <1>4, <1>5 DEF FreshKept, InCall, Running

(* A call that ends in success has run all its messages.                   *)
LEMMA ContextDeconstructStored ==
  ASSUME CInv, DeconstructMessage
  PROVE  StoredKept'
<1> DEFINE after == ResultingAccounts(result.accounts)
<1> SUFFICES ASSUME pc' = "returned", result'.failed = 0
             PROVE  StoredKept'
  BY DEF StoredKept
<1>1. /\ pc = "deconstruct" /\ UNCHANGED <<call, tx>> /\ exec.failed = 0
      /\ element' = element + 1 /\ element = Elements(call) /\ result'.accounts = after
  BY DEF DeconstructMessage, Advance, Absorbed
<1>2. ASSUME NEW i \in DOMAIN after, after[i].key \in DOMAIN tx
      PROVE  after[i].account = tx[after[i].key]
  BY <1>1, <1>2, ResultingAccountsKept DEF CInv
<1>3. ASSUME NEW k \in MetaKeys(call.ixs)
      PROVE  \E e \in 1..element : k \in MessageKeys(Message(call, e))
  <2>1. PICK i \in DOMAIN call.ixs : k \in call.ixs[i].ro \cup call.ixs[i].rw
    BY <1>3 DEF MetaKeys
  <2>2. call \in Call /\ call.ixs \in Seq(Instruction) /\ element \in Nat \ {0}
    BY DEF CInv, IInv, TypeOK, Call
  <2>3. CASE call.api = "transaction"
    <3>1. Message(call, 1) = call.ixs /\ 1 \in 1..element
      BY <2>2, <2>3 DEF Message
    <3>2. k \in MessageKeys(call.ixs)
      BY <2>1 DEF MessageKeys
    <3> QED BY <3>1, <3>2
  <2>4. CASE call.api # "transaction"
    <3>1. Message(call, i) = <<call.ixs[i]>> /\ i \in 1..element
      BY <1>1, <2>1, <2>2, <2>4 DEF Message, Elements
    <3>2. k \in MessageKeys(<<call.ixs[i]>>)
      <4> DEFINE m == <<call.ixs[i]>>
      <4>1. 1 \in DOMAIN m /\ m[1] = call.ixs[i]
        OBVIOUS
      <4> HIDE DEF m
      <4>2. k \in MessageKeys(m)
        BY <2>1, <4>1 DEF MessageKeys
      <4> QED BY <4>2 DEF m
    <3> QED BY <3>1, <3>2
  <2> QED BY <2>3, <2>4
<1>4. element' - 1 = element
  BY <1>1 DEF CInv, IInv, TypeOK
<1> HIDE DEF after
<1> QED BY <1>1, <1>2, <1>3, <1>4 DEF StoredKept

LEMMA ContextStepInv ==
  ASSUME CInv, ContextStep
  PROVE  CInv'
<1>1. Step /\ UNCHANGED <<store, hydrate>>
  BY DEF ContextStep
<1>2. IInv' /\ HInv' /\ WellFormedStore(store') /\ hydrate' \in BOOLEAN
  BY <1>1, StepInv, StepHInv DEF CInv
<1>3. CASE CompileMessage
  <2>1. /\ pc = "compile" /\ UNCHANGED <<call, given>>
        /\ pc' \in {"invoke", "deconstruct"}
    BY <1>3 DEF CompileMessage
  <2>2. LoadKept' /\ StoredKept'
    BY <2>1 DEF CInv, LoadKept, StoredKept, Opened
  <2> QED BY <1>1, <1>2, <1>3, <2>2, ContextCompileFresh DEF CInv
<1>4. CASE CompilePanics \/ CheckPanics
  <2>1. pc' = "panicked"
    BY <1>4 DEF CompilePanics, CheckPanics
  <2> QED BY <1>2, <2>1 DEF CInv, LoadKept, FreshKept, StoredKept, Opened, InCall
<1>5. CASE InvokeProgram \/ InvokePrecompile \/ RejectInstruction
  <2>1. /\ pc = "invoke" /\ UNCHANGED <<call, given>>
        /\ pc' \in {"invoke", "deconstruct"}
    BY <1>5, InvocationSteps DEF CInv, EndInvocation
  <2>2. LoadKept' /\ StoredKept'
    BY <2>1 DEF CInv, LoadKept, StoredKept, Opened
  <2> QED BY <1>1, <1>2, <1>5, <2>2, ContextInvocationFresh DEF CInv
<1>6. CASE DeconstructMessage
  <2>1. pc = "deconstruct" /\ UNCHANGED <<call, given>> /\ pc' \in {"returned", "compile"}
    BY <1>6 DEF DeconstructMessage, Advance
  <2>2. LoadKept'
    BY <2>1 DEF CInv, LoadKept, Opened
  <2>3. StoredKept'
    BY <1>6, ContextDeconstructStored
  <2> QED BY <1>1, <1>2, <1>6, <2>2, <2>3, ContextDeconstructFresh DEF CInv
<1> QED BY <1>1, <1>3, <1>4, <1>5, <1>6 DEF Step

(* Storing well-formed accounts leaves the store well-formed.              *)
LEMMA StoreAllTyped ==
  ASSUME WellFormedStore(store), NEW list, WellFormed(list)
  PROVE  WellFormedStore(StoreAll(list))
<1> DEFINE keys == {list[i].key : i \in DOMAIN list}
           after == StoreAll(list)
<1>1. list \in Seq(KeyedAccount)
  BY DEF WellFormed
<1>2. keys \subseteq Key
  <2>1. \A i \in DOMAIN list : list[i] \in KeyedAccount
    BY <1>1
  <2> QED BY <2>1 DEF KeyedAccount
<1>3. DOMAIN after = DOMAIN store \cup keys
  BY DEF StoreAll
<1>4. ASSUME NEW k \in DOMAIN after
      PROVE  /\ after[k] \in Account
             /\ k = ClockKey => after[k] \in [owner : {SysvarOwner}, data : ClockData]
  <2>1. CASE Has(list, k)
    <3>1. PICK i \in DOMAIN list : list[i].key = k /\ FindLast(list, k) = list[i].account
      BY <1>1, <2>1, FindLastFound
    <3>2. after[k] = list[i].account
      BY <1>3, <1>4, <2>1, <3>1 DEF StoreAll
    <3>3. list[i] \in KeyedAccount
      BY <1>1
    <3> QED BY <3>1, <3>2, <3>3 DEF WellFormed, KeyedAccount
  <2>2. CASE ~Has(list, k)
    <3>1. k \in DOMAIN store
      BY <1>3, <1>4, <2>2 DEF Has
    <3>2. after[k] = store[k]
      BY <1>3, <1>4, <2>2 DEF StoreAll
    <3> QED BY <3>1, <3>2 DEF WellFormedStore
  <2> QED BY <2>1, <2>2
<1>5. after \in [DOMAIN after -> Account]
  BY <1>4 DEF StoreAll
<1> HIDE DEF after, keys
<1>6. DOMAIN after \subseteq Key
  BY <1>2, <1>3 DEF WellFormedStore
<1>7. WellFormedStore(after)
  BY <1>4, <1>5, <1>6 DEF WellFormedStore
<1> QED BY <1>7 DEF after

LEMMA ContextReturnInv ==
  ASSUME CInv, ContextReturn
  PROVE  CInv'
<1>1. Return /\ Consume /\ UNCHANGED hydrate
  BY DEF ContextReturn
<1>2. IInv' /\ HInv' /\ hydrate' \in BOOLEAN
  BY <1>1, ReturnInv, ReturnHInv DEF CInv
<1>3. WellFormedStore(store')
  <2>1. WellFormed(result.accounts) /\ WellFormedStore(store)
    BY DEF CInv, IInv, ListKept
  <2>2. store' = store \/ store' = StoreAll(result.accounts)
    BY <1>1 DEF Consume
  <2> QED BY <2>1, <2>2, StoreAllTyped
<1>4. pc' = "idle"
  BY <1>1 DEF Return
<1> QED BY <1>2, <1>3, <1>4 DEF CInv, LoadKept, FreshKept, StoredKept, Opened, InCall

LEMMA ContextNextInv == CInv /\ [ContextNext]_contextVars => CInv'
<1> SUFFICES ASSUME CInv, [ContextNext]_contextVars PROVE CInv'
  OBVIOUS
<1>1. CASE ChangeEnvironment
  BY <1>1, ChangeEnvironmentInv
<1>2. CASE \E b \in BOOLEAN : SetHydrate(b)
  BY <1>2, SetHydrateInv
<1>3. CASE \E w \in UserWrites : StoreAccount(w[1], w[2])
  BY <1>3, StoreAccountInv
<1>4. CASE \E c \in Calls : ContextBegin(c)
  BY <1>4, ContextBeginInv
<1>5. CASE ContextStep
  BY <1>5, ContextStepInv
<1>6. CASE ContextReturn
  BY <1>6, ContextReturnInv
<1>7. CASE UNCHANGED contextVars
  <2>1. UNCHANGED <<mollusk, locals, pc, store, hydrate>>
    BY <1>7 DEF contextVars, mollusk, locals
  <2>2. IInv' /\ HInv'
    BY <2>1, LocalsKeptInv, LocalsKeptHInv DEF mollusk, CInv, IInv, TypeOK
  <2> QED BY <2>1, <2>2, TestStepInv DEF mollusk, CInv
<1> QED BY <1>1, <1>2, <1>3, <1>4, <1>5, <1>6, <1>7 DEF ContextNext

(* What every reachable state of a context satisfies.                      *)
THEOREM ContextInvariance == ContextSpec => []CInv
BY ContextInitInv, ContextNextInv, PTL DEF ContextSpec

(* ContextTypeOK for every value of the constants: the store stays a map   *)
(* of accounts, whatever a call's duplicate list is folded into it.        *)
THEOREM ContextTyped == ContextSpec => []ContextTypeOK
<1>1. CInv => ContextTypeOK
  BY DEF CInv, IInv, ContextTypeOK
<1> QED BY <1>1, ContextInvariance, PTL

(* EnvironmentFresh: with hydration a call sees the clock of the last warp *)
(* and each program under its last loader, whatever the store holds.       *)
THEOREM FreshEnvironment == ContextSpec => []EnvironmentFresh
<1>1. CInv => EnvironmentFresh
  <2> SUFFICES ASSUME CInv, Running PROVE EnvironmentFresh
    BY DEF EnvironmentFresh
  <2>1. InCall /\ FreshKept /\ ClockViewsAgree
    BY DEF CInv, IInv, InCall, Running
  <2>2. /\ Message(call, element) \in Seq(Instruction)
        /\ DOMAIN tx = MessageKeys(Message(call, element))
    BY <2>1, MessageOfCall DEF CInv, IInv, Placed, ContextKept
  <2>3. CalledPrograms(Message(call, element)) \subseteq DOMAIN tx
    BY <2>2, KeysOfMessage
  <2> QED BY <2>1, <2>3 DEF EnvironmentFresh, FreshKept, ClockViewsAgree
<1> QED BY <1>1, ContextInvariance, PTL

(* ContextNeverMissing: no message of a context's call wants an account    *)
(* that loading has not provided, so AccountMissing never panics.          *)
THEOREM NothingMissing == ContextSpec => []ContextNeverMissing
<1>1. CInv => ContextNeverMissing
  <2> SUFFICES ASSUME CInv, pc = "compile",
                      NEW k \in Missing(Message(call, element), result.accounts)
               PROVE  FALSE
    BY DEF ContextNeverMissing
  <2> DEFINE ixs == Message(call, element)
  <2>1. /\ call \in Calls /\ element \in 1..Elements(call) /\ LoadedFor(call.ixs, given)
        /\ call \in Call /\ call.ixs \in Seq(Instruction)
    BY DEF CInv, IInv, TypeOK, Placed, InCall, LoadKept, Opened, Call
  <2>2. /\ k \in MessageKeys(ixs) /\ ~Has(result.accounts, k)
        /\ k \notin CalledPrograms(ixs) /\ k # IxSysvar
    BY DEF Missing
  <2>3. PICK i \in DOMAIN ixs : k \in ixs[i].ro \cup ixs[i].rw
    BY <2>2 DEF MessageKeys, CalledPrograms
  <2>4. \E j \in DOMAIN call.ixs : ixs[i] = call.ixs[j]
    <3>1. CASE call.api = "transaction"
      BY <2>1, <2>3, <3>1, MessageOfCall
    <3>2. CASE call.api # "transaction"
      <4>1. ixs = <<call.ixs[element]>> /\ element \in DOMAIN call.ixs
        BY <2>1, <3>2, MessageOfCall
      <4> QED BY <2>3, <4>1
    <3> QED BY <3>1, <3>2
  <2>5. k \in MetaKeys(call.ixs)
    BY <2>3, <2>4 DEF MetaKeys
  <2>6. Has(given, k)
    BY <2>1, <2>2, <2>5 DEF LoadedFor
  <2> QED BY <2>2, <2>6, SameLookups, SMTT(30) DEF CInv, IInv, TypeOK, ListKept, WellFormed
<1> QED BY <1>1, ContextInvariance, PTL

(* ContextIntrospection: a store that has an account at the instructions   *)
(* sysvar's address misleads no program.                                   *)
THEOREM StoreCannotMislead == ContextSpec => []ContextIntrospection
<1>1. CInv => ContextIntrospection
  <2> SUFFICES ASSUME CInv, Running, next > 1, IxSysvar \in DOMAIN tx
               PROVE  tx[IxSysvar].data = [ixs |-> call.ixs, index |-> Len(log) - 1]
    BY DEF ContextIntrospection
  <2>1. ~Has(given, IxSysvar)
    BY DEF CInv, LoadKept, LoadedFor, Opened, Running
  <2>2. /\ tx[IxSysvar].data \in Introspection
        /\ tx[IxSysvar].data.ixs = call.ixs /\ tx[IxSysvar].data.index = Len(log) - 1
    BY <2>1 DEF CInv, HInv, IntrospectionKept
  <2> QED BY <2>2 DEF Introspection
<1> QED BY <1>1, ContextInvariance, PTL

-----------------------------------------------------------------------------
(* What a step does to the store, and the promise of the calls.            *)

(* StoreReflectsExecution: storing a list with duplicates entry by entry   *)
(* leaves each account as the last message left it.                        *)
THEOREM Persistence == ContextSpec => StoreReflectsExecution
<1>1. CInv /\ [ContextNext]_contextVars => [StoresExecution]_contextVars
  <2> SUFFICES ASSUME CInv, ContextNext, pc = "returned", result.failed = 0, pc' = "idle"
               PROVE  StoresExecution
    BY DEF StoresExecution
  <2> DEFINE list == result.accounts
  <2>1. ContextReturn
    <3>1. ~ChangeEnvironment /\ ~\E b \in BOOLEAN : SetHydrate(b)
      BY DEF ChangeEnvironment, AddProgram, WarpToSlot, SetHydrate
    <3>2. ~\E w \in UserWrites : StoreAccount(w[1], w[2])
      BY DEF StoreAccount
    <3>3. ~\E c \in Calls : ContextBegin(c)
      BY DEF ContextBegin, Begin, BeginPanics
    <3>4. ~ContextStep
      BY DEF ContextStep, Step, CompileMessage, CompilePanics, InvokeProgram,
             InvokePrecompile, RejectInstruction, DeconstructMessage, CheckPanics
    <3> QED BY <3>1, <3>2, <3>3, <3>4 DEF ContextNext
  <2>2. store' = StoreAll(list)
    BY <2>1 DEF ContextReturn, Consume
  <2>3. /\ list \in Seq(KeyedAccount) /\ DOMAIN list = DOMAIN given
        /\ \A i \in DOMAIN given : list[i].key = given[i].key
    BY DEF CInv, IInv, TypeOK, ListKept, WellFormed
  <2>4. ASSUME NEW k \in DOMAIN store \ {given[i].key : i \in DOMAIN given}
        PROVE  k \in DOMAIN store' /\ store'[k] = store[k]
    BY <2>2, <2>3, <2>4 DEF StoreAll, Has
  <2>5. ASSUME NEW i \in DOMAIN given
        PROVE  store'[given[i].key] = IF given[i].key \in DOMAIN tx THEN tx[given[i].key]
                                      ELSE Find(list, given[i].key)
    <3> DEFINE k == given[i].key
    <3>1. Has(list, k) /\ k \in {list[m].key : m \in DOMAIN list}
      BY <2>3 DEF Has
    <3>2. store'[k] = FindLast(list, k)
      BY <2>2, <3>1 DEF StoreAll
    <3>3. PICK m \in DOMAIN list : list[m].key = k /\ FindLast(list, k) = list[m].account
      BY <2>3, <3>1, FindLastFound
    <3>4. CASE k \in DOMAIN tx
      BY <3>2, <3>3, <3>4 DEF CInv, StoredKept
    <3>5. CASE k \notin DOMAIN tx
      <4> DEFINE j == FirstIndex(list, k)
      <4>1. j \in DOMAIN list /\ list[j].key = k
        BY <2>3, <3>1, FirstIndexFound
      <4>2. m = j \/ k \in MetaKeys(call.ixs)
        BY <2>3, <3>3, <4>1 DEF CInv, LoadKept, LoadedFor, Opened
      <4>3. list[m] = list[j]
        BY <3>3, <4>1, <4>2 DEF CInv, IInv, StoredKept, DuplicatesAgree
      <4> QED BY <3>2, <3>3, <3>5, <4>3 DEF Find
    <3> QED BY <3>4, <3>5
  <2> QED BY <2>4, <2>5 DEF StoresExecution
<1> QED BY <1>1, ContextInvariance, PTL DEF ContextSpec, StoreReflectsExecution

(* FailureKeepsStore: a call that fails or panics, after any number of     *)
(* messages, leaves the store as the test has it.                          *)
THEOREM FailureIsolated == ContextSpec => FailureKeepsStore
<1>1. [ContextNext]_contextVars => [StoresOnSuccess]_contextVars
  <2> SUFFICES ASSUME ContextNext, store' # store
               PROVE  StoresOnSuccess
    BY DEF StoresOnSuccess
  <2>1. ContextReturn \/ \E w \in UserWrites : StoreAccount(w[1], w[2])
    BY DEF ContextNext, ChangeEnvironment, SetHydrate, ContextBegin, ContextStep
  <2>2. CASE ContextReturn
    BY <2>2 DEF ContextReturn, Consume, StoresOnSuccess
  <2>3. CASE \E w \in UserWrites : StoreAccount(w[1], w[2])
    BY <2>3 DEF StoreAccount, InCallback, StoresOnSuccess
  <2> QED BY <2>1, <2>2, <2>3
<1> QED BY <1>1, PTL DEF ContextSpec, FailureKeepsStore

(* The calls of a context keep the promise of AtomicProcessing, with the   *)
(* lists it loads and a test that writes to the store in callbacks.        *)
THEOREM ContextAtomicity == ContextSpec => AtomicCalls
<1>1. ContextInit => Atomic!Init
  BY AtomicInit DEF ContextInit
<1>2. CInv /\ [ContextNext]_contextVars => [Atomic!Next]_(Atomic!avars)
  <2> SUFFICES ASSUME CInv, [ContextNext]_contextVars
               PROVE  Atomic!Next \/ UNCHANGED Atomic!avars
    OBVIOUS
  <2>1. CASE UNCHANGED <<pc, locals>>
    BY <2>1, AtomicIdle
  <2>2. CASE \E c \in Calls : ContextBegin(c)
    <3>1. PICK c \in Calls : Begin(c, Load(c.ixs)) \/ BeginPanics(c, Load(c.ixs))
      BY <2>2 DEF ContextBegin
    <3> QED BY <3>1, AtomicOpen, AtomicBeginPanics DEF CInv, Atomic!Next
  <2>3. CASE ContextStep
    BY <2>3, AtomicCallStep DEF ContextStep, CInv
  <2>4. CASE ContextReturn
    BY <2>4, AtomicClose DEF ContextReturn, Atomic!Next
  <2>5. CASE \/ ChangeEnvironment \/ \E b \in BOOLEAN : SetHydrate(b)
             \/ \E w \in UserWrites : StoreAccount(w[1], w[2])
    BY <2>1, <2>5 DEF ChangeEnvironment, AddProgram, WarpToSlot, SetHydrate, StoreAccount
  <2>6. CASE UNCHANGED contextVars
    BY <2>1, <2>6 DEF contextVars, locals
  <2> QED BY <2>2, <2>3, <2>4, <2>5, <2>6 DEF ContextNext
<1> QED BY <1>1, <1>2, ContextInvariance, PTL DEF ContextSpec, AtomicCalls, Atomic!Spec
=============================================================================
