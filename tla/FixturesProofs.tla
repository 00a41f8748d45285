--------------------------- MODULE FixturesProofs ---------------------------
(***************************************************************************)
(* Proofs about Fixtures, for any calls, accounts and states of the        *)
(* harness: what is written of a result is read as that result, the        *)
(* fixtures of a chain follow each other as its instructions do, and a     *)
(* replay gives the result of the call that ejected the fixture.           *)
(***************************************************************************)
EXTENDS Fixtures, SumProofs, FiniteSetTheorems

-----------------------------------------------------------------------------
(* The inductive invariant.                                                *)

HarnessTyped(h) ==
  DOMAIN h = Carried \cup {"restart", "stake", "slot"} /\ h.limit \in Nat

(* A fixture was made of the execution that is its origin.                 *)
Made(f, o) ==
  /\ o.instruction \in InstructionType /\ o.accounts \in Seq(Account) /\ HarnessTyped(o.env)
  /\ o.result = Execute(o.instruction, o.accounts, o.env, o.index)
  /\ \E format \in {"mollusk", "fd"} :
       /\ Ejectable(format, o.instruction, o.accounts)
       /\ f = FixtureOf(format, o.instruction, o.accounts, o.env, o.result)

FixturesTyped ==
  /\ HarnessTyped(harness) /\ pc \in {"idle", "running", "panicked"}
  /\ ejecting \in Format /\ place \in Nat
  /\ call.instructions \in Seq(InstructionType) /\ call.accounts \in Seq(Account)
  /\ pc = "running" => accounts \in Seq(Account) /\ place < Len(call.instructions)

FilesMade ==
  \A name \in DOMAIN directory :
    /\ Made(directory[name].fixture, directory[name].origin)
    /\ FileName(directory[name].fixture) = name

(* What a replay has set.                                                  *)
SetFrom(h, f) ==
  /\ h.limit = f.limit /\ h.features = f.features
  /\ f.format = "mollusk" => h.costs = f.costs /\ h.clock = f.clock
  /\ f.format = "fd" => h.costs = DefaultCosts

(* The instruction of a replay, before it runs and when it has.            *)
SourceKept ==
  Replaying =>
    LET f == source.fixture
        ix == LoadedInstruction(f)
    IN  /\ Made(f, source.origin) /\ Loadable(f) /\ SetFrom(harness, f)
        /\ call.instructions = <<ix>>
        /\ pc = "running" => place = 0 /\ accounts = f.accounts
        /\ pc = "idle" => result = Execute(ix, f.accounts, harness, 0)

(* The list that the next instruction of a call gets.                      *)
ListKept ==
  pc = "running" =>
    /\ place = 0 => accounts = call.accounts
    /\ Len(accounts) = Len(call.accounts)
    /\ \A i \in 1..Len(call.accounts) : accounts[i].key = call.accounts[i].key

(* What has been ejected of a call that goes on.                           *)
ChainKept ==
  ejecting # "off" /\ pc # "panicked" =>
    /\ written \in Seq({written[i] : i \in DOMAIN written})
    /\ pc = "running" /\ place > 0 /\ (ejecting = "fd" => UniqueKeys(call.accounts)) =>
         accounts = Expected(written[place]).accounts

FInv ==
  /\ FixturesTyped /\ FilesMade /\ SourceKept /\ ListKept /\ ChainKept /\ ChainFixtures

-----------------------------------------------------------------------------
(* Lemmas on lists of accounts.                                            *)

LEMMA ListFacts ==
  ASSUME NEW list \in Seq(Account)
  PROVE  /\ Len(list) \in Nat /\ DOMAIN list = 1..Len(list)
         /\ \A i \in 1..Len(list) : list[i] \in Account
<1> DEFINE A == Account
<1>1. list \in Seq(A)
  OBVIOUS
<1> HIDE DEF A
<1>2. /\ Len(list) \in Nat /\ DOMAIN list = 1..Len(list)
      /\ \A i \in 1..Len(list) : list[i] \in A
  BY <1>1
<1> QED BY <1>2 DEF A

(* A key of the list is found, at its first place.                         *)
LEMMA PositionFound ==
  ASSUME NEW list, DOMAIN list \subseteq Nat, NEW k \in Keys(list)
  PROVE  /\ Position(list, k) \in DOMAIN list /\ list[Position(list, k)].key = k
         /\ \A j \in DOMAIN list : list[j].key = k => Position(list, k) <= j
<1> DEFINE S == {i \in DOMAIN list : list[i].key = k}
<1>1. S \in SUBSET Nat /\ S # {}
  BY DEF Keys
<1>2. \E m \in S : \A n \in S : m <= n
  BY <1>1, SmallestElement
<1> QED BY <1>2 DEF Position

(* What the metas of an instruction are.                                   *)
LEMMA InstructionFacts ==
  ASSUME NEW ix \in InstructionType
  PROVE  /\ ix = [program |-> ix.program, reads |-> ix.reads,
                  fails |-> ix.fails, metas |-> ix.metas]
         /\ ix.program \in Program /\ ix.reads \in Reads /\ ix.fails \in Outcomes
         /\ ix.metas \in Seq(Meta) /\ Len(ix.metas) \in Nat /\ Len(ix.metas) >= 2
         /\ DOMAIN ix.metas = 1..Len(ix.metas)
         /\ \A i \in 1..Len(ix.metas) :
              /\ ix.metas[i] \in Meta
              /\ ix.metas[i] = [key |-> ix.metas[i].key, signer |-> ix.metas[i].signer,
                                writable |-> ix.metas[i].writable]
         /\ 1 \in DOMAIN ix.metas /\ 2 \in DOMAIN ix.metas
<1>1. /\ ix \in [program : Program, reads : Reads, fails : Outcomes, metas : Seq(Meta)]
      /\ Len(ix.metas) >= 2
  BY DEF InstructionType
<1> DEFINE M == Meta
<1>2. ix.metas \in Seq(M)
  BY <1>1
<1>3. /\ Len(ix.metas) \in Nat /\ DOMAIN ix.metas = 1..Len(ix.metas)
      /\ \A i \in 1..Len(ix.metas) : ix.metas[i] \in M
  <2> HIDE DEF M
  <2> QED BY <1>2
<1>4. \A m \in Meta : m = [key |-> m.key, signer |-> m.signer, writable |-> m.writable]
  BY DEF Meta
<1> QED BY <1>1, <1>3, <1>4

(* An execution keeps the addresses and their order.                       *)
LEMMA ExecuteTyped ==
  ASSUME NEW ix \in InstructionType, NEW list \in Seq(Account), NEW env, NEW index
  PROVE  LET r == Execute(ix, list, env, index) IN
         /\ r = [units |-> 1, outcome |-> r.outcome, returned |-> View(ix, env, index),
                 accounts |-> r.accounts]
         /\ r.outcome \in Outcomes
         /\ r.accounts \in Seq(Account) /\ Len(r.accounts) = Len(list)
         /\ \A i \in 1..Len(list) : r.accounts[i].key = list[i].key
<1> DEFINE r == Execute(ix, list, env, index)
           from == ix.metas[1].key
           to == ix.metas[2].key
           outcome == IF ix.fails # Success THEN ix.fails
                      ELSE IF CanTransfer(ix, list) THEN Success ELSE InsufficientFunds
<1>1. /\ r = [units |-> 1, outcome |-> r.outcome, returned |-> View(ix, env, index),
              accounts |-> r.accounts]
      /\ r.accounts = IF r.outcome = Success THEN Transferred(ix, list) ELSE list
      /\ r.outcome \in {ix.fails, Success, InsufficientFunds}
      /\ r.outcome = Success => CanTransfer(ix, list)
  <2>1. r = [units |-> 1, outcome |-> outcome, returned |-> View(ix, env, index),
             accounts |-> IF outcome = Success THEN Transferred(ix, list) ELSE list]
    BY DEF Execute
  <2>2. /\ outcome \in {ix.fails, Success, InsufficientFunds}
        /\ outcome = Success => CanTransfer(ix, list)
    BY ErrorAssumption
  <2> HIDE DEF r, outcome
  <2> QED BY <2>1, <2>2
<1> HIDE DEF r
<1>2. r.outcome \in Outcomes
  BY <1>1, InstructionFacts, ErrorAssumption DEF Outcomes
<1>3. /\ Len(list) \in Nat /\ DOMAIN list = 1..Len(list)
      /\ \A i \in 1..Len(list) : list[i] \in Account
  BY ListFacts
<1>4. CASE r.outcome # Success
  BY <1>1, <1>2, <1>4 DEF r
<1>5. CASE r.outcome = Success
  <2>1. CanTransfer(ix, list)
    BY <1>1, <1>5
  <2>2. from \in Keys(list) /\ to \in Keys(list) /\ Lamports(list, from) > 0
    BY <2>1 DEF CanTransfer
  <2>3. ASSUME NEW k \in Keys(list) PROVE Lamports(list, k) \in Nat
    BY <1>3, <2>3, PositionFound DEF Lamports, Account
  <2>4. ASSUME NEW i \in 1..Len(list)
        PROVE  Transferred(ix, list)[i] \in Account /\ Transferred(ix, list)[i].key = list[i].key
    <3> DEFINE k == list[i].key
               n == Lamports(list, k) - (IF k = from THEN 1 ELSE 0) + (IF k = to THEN 1 ELSE 0)
    <3>1. k \in Keys(list) /\ list[i] \in Account
      BY <1>3 DEF Keys
    <3>2. n \in Nat
      BY <2>2, <2>3, <3>1
    <3>3. Transferred(ix, list)[i] = IF k \in MetaKeys(ix) \cup {ix.program}
                                     THEN [list[i] EXCEPT !.lamports = n] ELSE list[i]
      BY <1>3 DEF Transferred
    <3> HIDE DEF n
    <3> QED BY <3>1, <3>2, <3>3 DEF Account
  <2> DEFINE A == Account
             after == Transferred(ix, list)
  <2>5. DOMAIN after = 1..Len(list) /\ after = [i \in 1..Len(list) |-> after[i]]
    BY <1>3 DEF Transferred
  <2> HIDE DEF after, A
  <2>6. after \in [1..Len(list) -> A]
    BY <2>4, <2>5 DEF after, A
  <2>7. after \in Seq(A) /\ Len(after) = Len(list)
    BY <1>3, <2>6
  <2> QED BY <1>1, <1>2, <1>5, <2>4, <2>7 DEF r, after, A
<1> QED BY <1>4, <1>5

-----------------------------------------------------------------------------
(* Lemmas on what is written and what it is read as.                       *)

(* A number is read as the error that it was made of, or as InvalidError.  *)
LEMMA NumbersRead ==
  ASSUME NEW outcome \in Outcomes
  PROVE  LET read == OutcomeOf(NumberOf(outcome)) IN
         /\ outcome \notin UnknownError \ {InvalidError} => read = outcome
         /\ read = Success <=> outcome = Success
<1>1. CASE outcome = Success
  <2>1. NumberOf(outcome) = 0
    BY <1>1, ErrorAssumption DEF NumberOf
  <2> QED BY <1>1, <2>1, ErrorAssumption DEF OutcomeOf
<1>2. CASE outcome \in ProgramError
  <2>1. NumberOf(outcome) = outcome
    BY <1>2, ErrorAssumption DEF NumberOf
  <2> QED BY <1>2, <2>1, ErrorAssumption DEF OutcomeOf
<1>3. CASE outcome \in UnknownError
  <2>1. NumberOf(outcome) = MaxU64
    BY <1>3, ErrorAssumption DEF NumberOf
  <2> QED BY <1>3, <2>1, ErrorAssumption DEF OutcomeOf
<1> QED BY <1>1, <1>2, <1>3 DEF Outcomes

(* Numbering the elements of a finite set of numbers by their order meets  *)
(* each of them once.                                                      *)
LEMMA ByRank ==
  ASSUME NEW S \in SUBSET Nat, IsFiniteSet(S)
  PROVE  LET N == Cardinality(S)
             Nth(n) == CHOOSE i \in S : Cardinality({j \in S : j < i}) = n - 1
         IN  /\ N \in Nat
             /\ \A n \in 1..N : Nth(n) \in S
             /\ \A i \in S : \E n \in 1..N : Nth(n) = i
<1> DEFINE N == Cardinality(S)
           Below(i) == {j \in S : j < i}
           rank == [i \in S |-> Cardinality(Below(i)) + 1]
<1>1. N \in Nat
  BY FS_CardinalityType
<1>2. ASSUME NEW i \in S
      PROVE  IsFiniteSet(Below(i)) /\ Cardinality(Below(i)) \in 0..(N - 1)
  <2>1. Below(i) \in SUBSET S /\ i \notin Below(i)
    OBVIOUS
  <2> HIDE DEF Below
  <2>2. /\ IsFiniteSet(Below(i)) /\ Cardinality(Below(i)) <= N
        /\ Cardinality(Below(i)) # N
    BY <2>1, FS_Subset
  <2>3. Cardinality(Below(i)) \in Nat
    BY <2>2, FS_CardinalityType
  <2> QED BY <1>1, <2>2, <2>3
<1>3. ASSUME NEW i \in S, NEW k \in S, i < k PROVE Cardinality(Below(i)) # Cardinality(Below(k))
  <2>1. i \in Nat /\ k \in Nat /\ \A j \in S : j \in Nat
    OBVIOUS
  <2>2. i \in Below(k) /\ i \notin Below(i)
    BY <1>3, <2>1
  <2>3. \A j \in S : j < i => j < k
    BY <1>3, <2>1
  <2>4. Below(i) \in SUBSET Below(k)
    BY <2>3
  <2>5. IsFiniteSet(Below(k))
    BY <1>2
  <2> HIDE DEF Below
  <2> QED BY <2>2, <2>4, <2>5, FS_Subset
<1>4. \A i \in S, k \in S :
        Cardinality(Below(i)) = Cardinality(Below(k)) => i = k
  <2> HIDE DEF Below
  <2>1. \A i \in S, k \in S : i < k \/ k < i \/ i = k
    OBVIOUS
  <2> QED BY <1>3, <2>1
<1> HIDE DEF N, Below
<1>5. \A i \in S : rank[i] = Cardinality(Below(i)) + 1 /\ rank[i] \in 1..N
  BY <1>1, <1>2
<1>6. \A i \in S, k \in S : rank[i] = rank[k] => i = k
  BY <1>2, <1>4, <1>5
<1>7. rank \in Surjection(S, 1..N)
  <2>1. rank \in [S -> 1..N]
    BY <1>5
  <2> HIDE DEF rank
  <2>2. rank \in Injection(S, 1..N)
    BY <1>6, <2>1 DEF Injection, IsInjective
  <2>3. IsFiniteSet(1..N) /\ Cardinality(1..N) = N
    BY <1>1, FS_Interval
  <2> QED BY <2>2, <2>3, FS_Injection DEF N
<1>8. \A n \in 1..N : \E i \in S : rank[i] = n
  <2> HIDE DEF rank
  <2> QED BY <1>7 DEF Surjection
<1> DEFINE Nth(n) == CHOOSE i \in S : Cardinality(Below(i)) = n - 1
<1>9. ASSUME NEW n \in 1..N PROVE Nth(n) \in S /\ rank[Nth(n)] = n
  <2>1. \E i \in S : Cardinality(Below(i)) = n - 1
    <3>1. PICK i \in S : rank[i] = n
      BY <1>8
    <3>2. Cardinality(Below(i)) \in Int /\ rank[i] = Cardinality(Below(i)) + 1
      BY <1>1, <1>2, <1>5
    <3> HIDE DEF rank
    <3>3. Cardinality(Below(i)) = n - 1
      BY <3>1, <3>2
    <3> QED BY <3>3
  <2>2. Nth(n) \in S /\ Cardinality(Below(Nth(n))) = n - 1
    BY <2>1
  <2> HIDE DEF Nth
  <2> QED BY <1>1, <1>5, <2>2
<1>10. ASSUME NEW i \in S PROVE \E n \in 1..N : Nth(n) = i
  <2>1. rank[i] \in 1..N /\ Nth(rank[i]) \in S /\ rank[Nth(rank[i])] = rank[i]
    BY <1>5, <1>9
  <2>2. Nth(rank[i]) = i
    <3> HIDE DEF Nth, rank
    <3> QED BY <1>6, <2>1
  <2> QED BY <2>1, <2>2
<1> QED BY <1>1, <1>9, <1>10 DEF N, Below

(* The modified accounts and the others make up the resulting list again.  *)
LEMMA ModifiedRestored ==
  ASSUME NEW list \in Seq(Account), NEW resulting \in Seq(Account),
         Len(resulting) = Len(list),
         \A i \in 1..Len(list) : resulting[i].key = list[i].key,
         UniqueKeys(list),
         NEW f, f.accounts = list, f.modified = ModifiedAccounts(list, resulting)
  PROVE  Restored(f) = resulting
<1> DEFINE n == Len(list)
           after == [i \in DOMAIN list |-> resulting[Position(resulting, list[i].key)]]
           changed == {i \in DOMAIN list : after[i] # list[i]}
           N == Cardinality(changed)
           Nth(m) == CHOOSE i \in changed : Cardinality({j \in changed : j < i}) = m - 1
<1>1. n \in Nat /\ DOMAIN list = 1..n /\ DOMAIN resulting = 1..n
  BY ListFacts
<1>2. ASSUME NEW i \in 1..n PROVE Position(resulting, list[i].key) = i
  <2>1. list[i].key \in Keys(resulting)
    BY <1>1 DEF Keys
  <2>2. LET p == Position(resulting, list[i].key) IN
        p \in 1..n /\ resulting[p].key = list[i].key
    BY <1>1, <2>1, PositionFound
  <2> QED BY <1>1, <2>2 DEF UniqueKeys
<1>3. \A i \in 1..n : after[i] = resulting[i]
  BY <1>1, <1>2
<1>4. changed \in SUBSET Nat /\ IsFiniteSet(changed)
  <2>1. changed \in SUBSET (1..n) /\ \A i \in 1..n : i \in Nat
    BY <1>1
  <2> HIDE DEF changed
  <2>2. IsFiniteSet(1..n)
    BY <1>1, FS_Interval
  <2> QED BY <2>1, <2>2, FS_Subset
<1>5. /\ N \in Nat /\ \A m \in 1..N : Nth(m) \in changed
      /\ \A i \in changed : \E m \in 1..N : Nth(m) = i
  <2> HIDE DEF changed
  <2> QED BY <1>4, ByRank
<1>6. f.modified = [m \in 1..N |-> after[Nth(m)]]
  BY DEF ModifiedAccounts
<1>7. changed = {i \in 1..n : resulting[i] # list[i]}
  BY <1>1, <1>3
<1> HIDE DEF after, changed, N, Nth
<1>8. /\ DOMAIN f.modified = 1..N
      /\ \A m \in 1..N : /\ Nth(m) \in changed /\ Nth(m) \in 1..n
                         /\ f.modified[m] = resulting[Nth(m)]
  BY <1>3, <1>5, <1>6, <1>7
<1>9. ASSUME NEW i \in 1..n PROVE Restored(f)[i] = resulting[i]
  <2>1. Restored(f)[i] = IF list[i].key \in Keys(f.modified)
                         THEN f.modified[Position(f.modified, list[i].key)] ELSE list[i]
    BY <1>1 DEF Restored
  <2>2. CASE list[i].key \in Keys(f.modified)
    <3>1. DOMAIN f.modified \subseteq Nat
      BY <1>5, <1>8
    <3>2. PICK m \in 1..N : m = Position(f.modified, list[i].key) /\ f.modified[m].key = list[i].key
      <4>1. /\ Position(f.modified, list[i].key) \in DOMAIN f.modified
            /\ f.modified[Position(f.modified, list[i].key)].key = list[i].key
        BY <2>2, <3>1, PositionFound
      <4> QED BY <1>8, <4>1
    <3>3. Nth(m) \in 1..n /\ list[Nth(m)].key = list[i].key
      BY <1>8, <3>2
    <3>4. Nth(m) = i
      BY <1>1, <3>3 DEF UniqueKeys
    <3> QED BY <1>8, <2>1, <2>2, <3>2, <3>4
  <2>3. CASE list[i].key \notin Keys(f.modified)
    <3>1. i \notin changed
      <4>1. SUFFICES ASSUME i \in changed PROVE FALSE
        OBVIOUS
      <4>2. PICK m \in 1..N : Nth(m) = i
        BY <1>5, <4>1
      <4>3. f.modified[m].key = list[i].key
        BY <1>8, <4>2
      <4> QED BY <1>8, <2>3, <4>3 DEF Keys
    <3> QED BY <1>7, <2>1, <2>3, <3>1
  <2> QED BY <2>2, <2>3
<1>10. Restored(f) = [i \in 1..n |-> Restored(f)[i]]
  BY <1>1 DEF Restored
<1>11. resulting = [i \in 1..n |-> resulting[i]]
  BY <1>1
<1> QED BY <1>9, <1>10, <1>11

(* What a fixture has of its origin, whatever its format.                  *)
LEMMA MadeFacts ==
  ASSUME NEW f, NEW o, Made(f, o)
  PROVE  /\ o.instruction \in InstructionType /\ o.accounts \in Seq(Account)
         /\ HarnessTyped(o.env)
         /\ o.result = Execute(o.instruction, o.accounts, o.env, o.index)
         /\ f.format \in {"mollusk", "fd"}
         /\ f.format = "mollusk" =>
              /\ MetaKeys(o.instruction) \subseteq Keys(o.accounts)
              /\ f = MolluskFixture(o.instruction, o.accounts, o.env, o.result)
         /\ f.format = "fd" => f = FdFixture(o.instruction, o.accounts, o.env, o.result)
         /\ f.accounts = o.accounts /\ f.program = o.instruction.program
         /\ f.data = [reads |-> o.instruction.reads, fails |-> o.instruction.fails]
         /\ f.limit = o.env.limit /\ f.features = NumberedFeatures(o.env.features)
         /\ f.returned = o.result.returned
<1>1. CASE /\ MetaKeys(o.instruction) \subseteq Keys(o.accounts)
           /\ f = MolluskFixture(o.instruction, o.accounts, o.env, o.result)
  BY <1>1 DEF Made, MolluskFixture
<1>2. CASE f = FdFixture(o.instruction, o.accounts, o.env, o.result)
  BY <1>2 DEF Made, FdFixture
<1> QED BY <1>1, <1>2 DEF Made, Ejectable, FixtureOf

(* What the effects of a fixture are read as.                              *)
LEMMA EffectsRead ==
  ASSUME NEW f, NEW o, Made(f, o)
  PROVE  /\ Expected(f).outcome = Success <=> o.result.outcome = Success
         /\ f.format = "mollusk" \/ UniqueKeys(f.accounts) =>
              Expected(f).accounts = o.result.accounts
         /\ (IF f.format = "mollusk" THEN o.result.outcome \notin UnknownError \ {InvalidError}
             ELSE UniqueKeys(f.accounts))
            => Expected(f) = o.result
<1> DEFINE ix == o.instruction
           r == o.result
<1>1. /\ r = [units |-> 1, outcome |-> r.outcome, returned |-> View(ix, o.env, o.index),
              accounts |-> r.accounts]
      /\ r.outcome \in Outcomes
      /\ r.accounts \in Seq(Account) /\ Len(r.accounts) = Len(o.accounts)
      /\ \A i \in 1..Len(o.accounts) : r.accounts[i].key = o.accounts[i].key
  <2>1. /\ ix \in InstructionType /\ o.accounts \in Seq(Account)
        /\ r = Execute(ix, o.accounts, o.env, o.index)
    BY MadeFacts
  <2> QED BY <2>1, ExecuteTyped
<1>2. CASE f.format = "mollusk"
  <2>1. f = MolluskFixture(ix, o.accounts, o.env, r)
    BY <1>2, MadeFacts
  <2>2. /\ f.units = r.units /\ f.number = NumberOf(r.outcome) /\ f.returned = r.returned
        /\ f.resulting = r.accounts
    BY <2>1 DEF MolluskFixture
  <2>3. Expected(f) = [units |-> r.units, outcome |-> OutcomeOf(NumberOf(r.outcome)),
                       returned |-> r.returned, accounts |-> r.accounts]
    BY <1>2, <2>2 DEF Expected
  <2>4. LET read == OutcomeOf(NumberOf(r.outcome)) IN
        /\ r.outcome \notin UnknownError \ {InvalidError} => read = r.outcome
        /\ read = Success <=> r.outcome = Success
    BY <1>1, NumbersRead
  <2> QED BY <1>1, <1>2, <2>3, <2>4
<1>3. CASE f.format = "fd"
  <2>1. f = FdFixture(ix, o.accounts, o.env, r)
    BY <1>3, MadeFacts
  <2>2. /\ f.left = o.env.limit - r.units /\ f.outcome = r.outcome
        /\ f.returned = r.returned /\ f.limit = o.env.limit /\ f.accounts = o.accounts
        /\ f.modified = ModifiedAccounts(o.accounts, r.accounts)
    BY <2>1 DEF FdFixture
  <2>3. f.limit - f.left = r.units
    <3>1. HarnessTyped(o.env)
      BY MadeFacts
    <3>2. o.env.limit \in Nat /\ r.units = 1
      BY <1>1, <3>1 DEF HarnessTyped
    <3> QED BY <2>2, <3>2
  <2>4. Expected(f) = [units |-> r.units, outcome |-> r.outcome,
                       returned |-> r.returned, accounts |-> Restored(f)]
    BY <1>3, <2>2, <2>3 DEF Expected
  <2>5. UniqueKeys(f.accounts) => Restored(f) = r.accounts
    <3>1. o.accounts \in Seq(Account)
      BY MadeFacts
    <3> QED BY <1>1, <2>2, <3>1, ModifiedRestored
  <2> QED BY <1>1, <1>3, <2>4, <2>5
<1> QED BY <1>2, <1>3, MadeFacts

(* The metas of a fixture, and of the instruction that it is read as.      *)
LEMMA LoadedMetas ==
  ASSUME NEW f, NEW o, Made(f, o), Loadable(f)
  PROVE  LET ix == o.instruction
             loaded == LoadedInstruction(f)
         IN  /\ loaded = [program |-> ix.program, reads |-> ix.reads, fails |-> ix.fails,
                          metas |-> loaded.metas]
             /\ loaded.metas \in Seq(Meta) /\ Len(loaded.metas) = Len(ix.metas)
             /\ \A i \in 1..Len(ix.metas) :
                  /\ loaded.metas[i].key = f.accounts[f.metas[i].index].key
                  /\ f.format = "mollusk" => /\ loaded.metas[i].signer <=> ix.metas[i].signer
                                             /\ loaded.metas[i].writable <=> ix.metas[i].writable
                  /\ f.format = "fd" =>
                       /\ loaded.metas[i].signer <=> Signs(ix, ix.metas[i].key)
                       /\ loaded.metas[i].writable <=> Writes(ix, ix.metas[i].key)
<1> DEFINE ix == o.instruction
           n == Len(ix.metas)
           loaded == LoadedInstruction(f)
<1>1. /\ n \in Nat /\ DOMAIN ix.metas = 1..n
      /\ \A i \in 1..n : ix.metas[i] \in Meta
  BY MadeFacts, InstructionFacts
<1>2. /\ DOMAIN f.metas = 1..n
      /\ \A i \in 1..n :
           /\ f.metas[i].signer \in BOOLEAN /\ f.metas[i].writable \in BOOLEAN
           /\ f.format = "mollusk" => /\ f.metas[i].signer = ix.metas[i].signer
                                      /\ f.metas[i].writable = ix.metas[i].writable
           /\ f.format = "fd" => /\ f.metas[i].signer <=> Signs(ix, ix.metas[i].key)
                                 /\ f.metas[i].writable <=> Writes(ix, ix.metas[i].key)
  <2>1. CASE f.format = "mollusk"
    <3>1. f.metas = MetaIndices(ix, o.accounts)
      <4>1. f = MolluskFixture(ix, o.accounts, o.env, o.result)
        BY <2>1, MadeFacts
      <4> QED BY <4>1 DEF MolluskFixture
    <3>2. \A i \in 1..n : ix.metas[i].signer \in BOOLEAN /\ ix.metas[i].writable \in BOOLEAN
      BY <1>1 DEF Meta
    <3>3. /\ DOMAIN f.metas = 1..n
          /\ \A i \in 1..n : /\ f.metas[i].signer = ix.metas[i].signer
                              /\ f.metas[i].writable = ix.metas[i].writable
      BY <1>1, <3>1 DEF MetaIndices
    <3> QED BY <2>1, <3>2, <3>3
  <2>2. CASE f.format = "fd"
    <3>1. f.metas = MessageIndices(ix)
      <4>1. f = FdFixture(ix, o.accounts, o.env, o.result)
        BY <2>2, MadeFacts
      <4> QED BY <4>1 DEF FdFixture
    <3>2. \A k : Signs(ix, k) \in BOOLEAN /\ Writes(ix, k) \in BOOLEAN
      BY DEF Signs, Writes, Asked
    <3>3. /\ DOMAIN f.metas = 1..n
          /\ \A i \in 1..n : /\ f.metas[i].signer = Signs(ix, ix.metas[i].key)
                              /\ f.metas[i].writable = Writes(ix, ix.metas[i].key)
      BY <1>1, <3>1 DEF MessageIndices
    <3> QED BY <2>2, <3>2, <3>3
  <2> QED BY <2>1, <2>2, MadeFacts
<1>3. loaded.metas = [i \in DOMAIN f.metas |->
                       [key |-> f.accounts[f.metas[i].index].key,
                        signer |-> f.metas[i].signer, writable |-> f.metas[i].writable]]
  BY DEF LoadedInstruction
<1>4. loaded = [program |-> ix.program, reads |-> ix.reads, fails |-> ix.fails,
                metas |-> loaded.metas]
  <2>1. /\ f.program = ix.program
        /\ f.data = [reads |-> ix.reads, fails |-> ix.fails]
    BY MadeFacts
  <2>2. loaded = [program |-> f.program, reads |-> f.data.reads, fails |-> f.data.fails,
                  metas |-> loaded.metas]
    BY DEF LoadedInstruction
  <2> HIDE DEF loaded
  <2> QED BY <2>1, <2>2
<1>5. \A i \in 1..n : f.accounts[f.metas[i].index].key \in Key
  BY <1>2, MadeFacts, ListFacts DEF Loadable, Account
<1> DEFINE M == Meta
           metas == loaded.metas
<1>6. metas = [i \in 1..n |-> metas[i]] /\ \A i \in 1..n : metas[i] \in M
  <2>1. DOMAIN f.metas = 1..n
    BY <1>2
  <2>2. ASSUME NEW i \in 1..n
        PROVE  f.metas[i].signer \in BOOLEAN /\ f.metas[i].writable \in BOOLEAN
    BY <1>2
  <2>3. metas = [i \in 1..n |->
                   [key |-> f.accounts[f.metas[i].index].key,
                    signer |-> f.metas[i].signer, writable |-> f.metas[i].writable]]
    BY <1>3, <2>1
  <2> HIDE DEF metas
  <2>4. ASSUME NEW i \in 1..n PROVE metas[i] \in M
    BY <1>5, <2>2, <2>3 DEF Meta
  <2>5. metas = [i \in 1..n |-> metas[i]]
    BY <2>3
  <2> QED BY <2>4, <2>5
<1> HIDE DEF metas, M
<1>7. metas \in Seq(M) /\ Len(metas) = n
  BY <1>1, <1>6
<1> HIDE DEF loaded
<1>8. ASSUME NEW i \in 1..n
      PROVE  /\ loaded.metas[i].key = f.accounts[f.metas[i].index].key
             /\ loaded.metas[i].signer <=> f.metas[i].signer
             /\ loaded.metas[i].writable <=> f.metas[i].writable
  <2>1. loaded.metas[i] = [key |-> f.accounts[f.metas[i].index].key,
                           signer |-> f.metas[i].signer, writable |-> f.metas[i].writable]
    BY <1>2, <1>3
  <2> QED BY <2>1
<1>9. loaded.metas \in Seq(Meta) /\ Len(loaded.metas) = n
  BY <1>7 DEF metas, M
<1>10. \A i \in 1..n :
         /\ f.format = "mollusk" => /\ loaded.metas[i].signer <=> ix.metas[i].signer
                                    /\ loaded.metas[i].writable <=> ix.metas[i].writable
         /\ f.format = "fd" => /\ loaded.metas[i].signer <=> Signs(ix, ix.metas[i].key)
                               /\ loaded.metas[i].writable <=> Writes(ix, ix.metas[i].key)
  BY <1>2, <1>8
<1> QED BY <1>4, <1>8, <1>9, <1>10 DEF loaded

LEMMA LoadedTyped ==
  ASSUME NEW f, NEW o, Made(f, o), Loadable(f)
  PROVE  LoadedInstruction(f) \in InstructionType
<1> DEFINE ix == o.instruction
           loaded == LoadedInstruction(f)
<1>1. /\ loaded = [program |-> ix.program, reads |-> ix.reads, fails |-> ix.fails,
                   metas |-> loaded.metas]
      /\ loaded.metas \in Seq(Meta) /\ Len(loaded.metas) = Len(ix.metas)
  BY LoadedMetas
<1>2. ix \in InstructionType
  BY MadeFacts
<1>3. /\ ix.program \in Program /\ ix.reads \in Reads /\ ix.fails \in Outcomes
      /\ Len(ix.metas) >= 2
  BY <1>2, InstructionFacts
<1> HIDE DEF loaded, ix
<1> QED BY <1>1, <1>3 DEF InstructionType, loaded

(* Two instructions with the same addresses and rights do the same, if     *)
(* they read the same.                                                     *)
LEMMA SameExecution ==
  ASSUME NEW ix \in InstructionType, NEW jx \in InstructionType,
         NEW list, NEW env, NEW h, NEW i, NEW j,
         jx.program = ix.program, jx.fails = ix.fails,
         Len(jx.metas) = Len(ix.metas),
         \A n \in 1..Len(ix.metas) : jx.metas[n].key = ix.metas[n].key,
         \A n \in 1..Len(ix.metas) :
           /\ Signs(jx, ix.metas[n].key) <=> Signs(ix, ix.metas[n].key)
           /\ Writes(jx, ix.metas[n].key) <=> Writes(ix, ix.metas[n].key),
         View(jx, h, j) = View(ix, env, i)
  PROVE  Execute(jx, list, h, j) = Execute(ix, list, env, i)
<1>1. /\ DOMAIN ix.metas = 1..Len(ix.metas) /\ DOMAIN jx.metas = 1..Len(ix.metas)
      /\ 1 \in 1..Len(ix.metas) /\ 2 \in 1..Len(ix.metas)
  BY InstructionFacts
<1>2. MetaKeys(jx) = MetaKeys(ix)
  BY <1>1 DEF MetaKeys, Keys
<1>3. jx.metas[1].key = ix.metas[1].key /\ jx.metas[2].key = ix.metas[2].key
  BY <1>1
<1>4. CanTransfer(jx, list) <=> CanTransfer(ix, list)
  BY <1>1, <1>3 DEF CanTransfer
<1>5. Transferred(jx, list) = Transferred(ix, list)
  BY <1>2, <1>3 DEF Transferred
<1> QED BY <1>4, <1>5 DEF Execute

(* A replay does again what the origin of its fixture did.                 *)
LEMMA ReplayRuns ==
  ASSUME NEW f, NEW o, Made(f, o), Loadable(f), Replayable(f, o), NEW h, SetFrom(h, f)
  PROVE  Execute(LoadedInstruction(f), f.accounts, h, 0) = o.result
<1> DEFINE ix == o.instruction
           loaded == LoadedInstruction(f)
<1>1. /\ ix \in InstructionType /\ o.accounts \in Seq(Account) /\ f.accounts = o.accounts
      /\ o.result = Execute(ix, o.accounts, o.env, o.index)
      /\ f.format \in {"mollusk", "fd"}
      /\ f.limit = o.env.limit /\ f.features = NumberedFeatures(o.env.features)
  BY MadeFacts
<1>2. loaded \in InstructionType
  BY LoadedTyped
<1>3. /\ Len(ix.metas) \in Nat /\ DOMAIN ix.metas = 1..Len(ix.metas)
      /\ \A i \in 1..Len(ix.metas) : ix.metas[i] \in Meta
      /\ ix.reads \in Reads
  BY <1>1, InstructionFacts
<1>4. /\ loaded = [program |-> ix.program, reads |-> ix.reads, fails |-> ix.fails,
                   metas |-> loaded.metas]
      /\ Len(loaded.metas) = Len(ix.metas)
      /\ \A i \in 1..Len(ix.metas) :
           /\ loaded.metas[i].key = f.accounts[f.metas[i].index].key
           /\ f.format = "mollusk" => /\ loaded.metas[i].signer <=> ix.metas[i].signer
                                      /\ loaded.metas[i].writable <=> ix.metas[i].writable
           /\ f.format = "fd" => /\ loaded.metas[i].signer <=> Signs(ix, ix.metas[i].key)
                                 /\ loaded.metas[i].writable <=> Writes(ix, ix.metas[i].key)
  BY LoadedMetas
<1>5. DOMAIN loaded.metas = 1..Len(ix.metas)
  BY <1>2, <1>4, InstructionFacts
<1> HIDE DEF ix, loaded
<1>6. ASSUME NEW i \in 1..Len(ix.metas) PROVE loaded.metas[i].key = ix.metas[i].key
  <2>1. CASE f.format = "mollusk"
    <3>1. /\ MetaKeys(ix) \subseteq Keys(o.accounts)
          /\ f = MolluskFixture(ix, o.accounts, o.env, o.result)
      BY <2>1, MadeFacts DEF ix
    <3>2. f.metas = MetaIndices(ix, o.accounts)
      BY <3>1 DEF MolluskFixture
    <3>3. f.metas[i].index = Position(o.accounts, ix.metas[i].key)
      BY <1>3, <3>2 DEF MetaIndices
    <3>4. ix.metas[i].key \in Keys(o.accounts) /\ DOMAIN o.accounts \subseteq Nat
      <4>1. ix.metas[i].key \in MetaKeys(ix)
        BY <1>3 DEF MetaKeys, Keys
      <4>2. DOMAIN o.accounts = 1..Len(o.accounts) /\ Len(o.accounts) \in Nat
        BY <1>1, ListFacts
      <4> QED BY <3>1, <4>1, <4>2
    <3>5. o.accounts[Position(o.accounts, ix.metas[i].key)].key = ix.metas[i].key
      BY <3>4, PositionFound
    <3> QED BY <1>1, <1>4, <3>3, <3>5
  <2>2. CASE f.format = "fd"
    BY <1>3, <1>4, <2>2 DEF Replayable, Aligned, ix
  <2> QED BY <1>1, <2>1, <2>2
<1>7. ASSUME NEW n \in 1..Len(ix.metas)
      PROVE  /\ Signs(loaded, ix.metas[n].key) <=> Signs(ix, ix.metas[n].key)
             /\ Writes(loaded, ix.metas[n].key) <=> Writes(ix, ix.metas[n].key)
  <2> DEFINE k == ix.metas[n].key
  <2>1. /\ Signs(loaded, k) <=>
              \E i \in 1..Len(ix.metas) : ix.metas[i].key = k /\ loaded.metas[i].signer
        /\ Writes(loaded, k) <=>
              /\ \E i \in 1..Len(ix.metas) : ix.metas[i].key = k /\ loaded.metas[i].writable
              /\ k # ix.program
    BY <1>4, <1>5, <1>6 DEF Signs, Writes, Asked
  <2>2. /\ Signs(ix, k) <=> \E i \in 1..Len(ix.metas) : ix.metas[i].key = k /\ ix.metas[i].signer
        /\ Writes(ix, k) <=>
              /\ \E i \in 1..Len(ix.metas) : ix.metas[i].key = k /\ ix.metas[i].writable
              /\ k # ix.program
    BY <1>3 DEF Signs, Writes, Asked
  <2>3. CASE f.format = "mollusk"
    BY <1>4, <2>1, <2>2, <2>3
  <2>4. CASE f.format = "fd"
    <3>1. \A i \in 1..Len(ix.metas) : ix.metas[i].key = k =>
            /\ loaded.metas[i].signer <=> Signs(ix, k)
            /\ loaded.metas[i].writable <=> Writes(ix, k)
      BY <1>4, <2>4
    <3> QED BY <2>1, <2>2, <3>1
  <2> QED BY <1>1, <2>3, <2>4
<1>8. View(loaded, h, 0) = View(ix, o.env, o.index)
  <2>1. loaded.reads = ix.reads
    BY <1>4
  <2>2. ix.reads \in {"limit", "costs", "features", "clock", "index", "nothing"}
    BY <1>3 DEF Replayable, ViewKept, Reads, Carried, ix
  <2>3. CASE ix.reads \in {"index", "nothing"}
    BY <2>1, <2>3 DEF Replayable, ViewKept, View, ix
  <2>4. CASE ix.reads = "limit"
    BY <1>1, <2>1, <2>4 DEF View, SetFrom
  <2>5. CASE ix.reads = "features"
    <3>1. o.env.features \cap Omitted = {}
      BY <2>5 DEF Replayable, ViewKept, ix
    <3>2. NumberedFeatures(o.env.features) = o.env.features
      BY <3>1 DEF NumberedFeatures
    <3> QED BY <1>1, <2>1, <2>5, <3>2 DEF View, SetFrom
  <2>6. CASE ix.reads \in {"costs", "clock"}
    <3>1. CASE f.format = "mollusk"
      <4>1. f = MolluskFixture(ix, o.accounts, o.env, o.result)
        BY <3>1, MadeFacts DEF ix
      <4>2. f.costs = o.env.costs /\ f.clock = o.env.clock
        BY <4>1 DEF MolluskFixture
      <4> QED BY <2>1, <2>6, <3>1, <4>2 DEF View, SetFrom
    <3>2. CASE f.format = "fd"
      <4>1. ix.reads = "costs" /\ o.env.costs = DefaultCosts
        BY <2>6, <3>2 DEF Replayable, ViewKept, ix
      <4> QED BY <2>1, <3>2, <4>1 DEF View, SetFrom
    <3> QED BY <1>1, <3>1, <3>2
  <2> QED BY <2>2, <2>3, <2>4, <2>5, <2>6
<1>9. loaded.program = ix.program /\ loaded.fails = ix.fails
  BY <1>4
<1>10. Execute(loaded, o.accounts, h, 0) = Execute(ix, o.accounts, o.env, o.index)
  <2>1. ix \in InstructionType
    BY <1>1
  <2> QED BY <1>2, <1>4, <1>6, <1>7, <1>8, <1>9, <2>1, SameExecution
<1> QED BY <1>1, <1>10 DEF loaded

(* Mollusk's own fixtures can be loaded.                                   *)
LEMMA MolluskLoadable ==
  ASSUME NEW f, NEW o, Made(f, o), f.format = "mollusk"
  PROVE  Loadable(f)
<1> DEFINE ix == o.instruction
<1>1. /\ MetaKeys(ix) \subseteq Keys(o.accounts)
      /\ f = MolluskFixture(ix, o.accounts, o.env, o.result)
      /\ o.accounts \in Seq(Account) /\ f.accounts = o.accounts
  BY MadeFacts
<1> HIDE DEF ix
<1>2. f.metas = MetaIndices(ix, o.accounts)
  BY <1>1 DEF MolluskFixture
<1>3. ASSUME NEW i \in DOMAIN f.metas PROVE f.metas[i].index \in DOMAIN f.accounts
  <2>1. i \in DOMAIN ix.metas /\ f.metas[i].index = Position(o.accounts, ix.metas[i].key)
    BY <1>2 DEF MetaIndices
  <2>2. ix.metas[i].key \in Keys(o.accounts)
    <3>1. ix.metas[i].key \in MetaKeys(ix)
      BY <2>1 DEF MetaKeys, Keys
    <3> QED BY <1>1, <3>1
  <2>3. DOMAIN o.accounts \subseteq Nat
    <3>1. DOMAIN o.accounts = 1..Len(o.accounts) /\ Len(o.accounts) \in Nat
      BY <1>1, ListFacts
    <3> QED BY <3>1
  <2> QED BY <1>1, <2>1, <2>2, <2>3, PositionFound
<1> QED BY <1>3 DEF Loadable

-----------------------------------------------------------------------------
(* The invariant.                                                          *)

LEMMA InitFInv == Init => FInv
<1> SUFFICES ASSUME Init PROVE FInv
  OBVIOUS
<1> USE DEF Init
<1>1. FixturesTyped
  <2>1. HarnessTyped(harness)
    BY HarnessAssumption DEF HarnessTyped
  <2> QED BY <2>1 DEF FixturesTyped, Format, NoCall
<1>2. FilesMade
  BY DEF FilesMade
<1>3. SourceKept /\ ListKept /\ ChainKept /\ ChainFixtures
  BY DEF SourceKept, Replaying, ListKept, ChainKept, ChainFixtures
<1> QED BY <1>1, <1>2, <1>3 DEF FInv

(* A call, of a test or of a replay, has begun.                            *)
LEMMA BeginStep ==
  ASSUME FInv, NEW c, NEW from, NEW format \in Format, Begin(c, from, format),
         c.instructions \in Seq(InstructionType) \ {<<>>}, c.accounts \in Seq(Account),
         HarnessTyped(harness)'
  PROVE  (FixturesTyped /\ FilesMade /\ ListKept /\ ChainKept /\ ChainFixtures)'
<1> USE DEF Begin
<1>1. Len(c.instructions) > 0 /\ Len(c.instructions) \in Nat
  <2> DEFINE I == InstructionType
  <2>1. c.instructions \in Seq(I) /\ c.instructions # <<>>
    OBVIOUS
  <2> HIDE DEF I
  <2> QED BY <2>1
<1>2. FixturesTyped'
  BY <1>1 DEF FixturesTyped
<1>3. FilesMade'
  BY DEF FInv, FilesMade
<1>4. ListKept' /\ ChainKept' /\ ChainFixtures'
  <2>1. Len(<<>>) = 0 /\ <<>> \in Seq({<<>>[i] : i \in DOMAIN <<>>})
    OBVIOUS
  <2> QED BY <2>1 DEF ListKept, ChainKept, ChainFixtures
<1> QED BY <1>2, <1>3, <1>4

(* The test has the harness to itself.                                     *)
LEMMA IdleStep ==
  ASSUME FInv, HarnessTyped(harness)', pc' = "idle", source' = Test, call' = NoCall,
         ejecting' = "off", place' = 0, UNCHANGED directory
  PROVE  FInv'
<1>1. FixturesTyped'
  BY DEF FixturesTyped, Format, NoCall
<1>2. FilesMade'
  BY DEF FInv, FilesMade
<1>3. (SourceKept /\ ListKept /\ ChainKept /\ ChainFixtures)'
  BY DEF SourceKept, Replaying, ListKept, ChainKept, ChainFixtures
<1> QED BY <1>1, <1>2, <1>3 DEF FInv

(* A panic leaves what it finds.                                           *)
LEMMA PanicStep ==
  ASSUME FInv, pc' = "panicked", place' \in Nat, UNCHANGED <<harness, directory, source, call, ejecting>>
  PROVE  FInv'
<1>1. FixturesTyped'
  BY DEF FInv, FixturesTyped
<1>2. FilesMade'
  BY DEF FInv, FilesMade
<1>3. (SourceKept /\ ListKept /\ ChainKept /\ ChainFixtures)'
  BY DEF FInv, SourceKept, Replaying, ListKept, ChainKept, ChainFixtures
<1> QED BY <1>1, <1>2, <1>3 DEF FInv

(* What an instruction starts from and gives.                              *)
LEMMA RanFacts ==
  ASSUME FInv, Ran
  PROVE  /\ Instruction \in InstructionType /\ accounts \in Seq(Account)
         /\ place \in Nat /\ place' = place + 1 /\ place < Len(call.instructions)
         /\ HarnessTyped(harness)
         /\ result' = Execute(Instruction, accounts, harness, place)
         /\ result'.outcome \in Outcomes
         /\ result'.accounts \in Seq(Account) /\ Len(result'.accounts) = Len(accounts)
         /\ \A i \in 1..Len(accounts) : result'.accounts[i].key = accounts[i].key
<1>1. /\ accounts \in Seq(Account) /\ place \in Nat /\ place < Len(call.instructions)
      /\ HarnessTyped(harness) /\ call.instructions \in Seq(InstructionType)
  BY DEF FInv, FixturesTyped, Ran
<1>2. Instruction \in InstructionType
  <2> DEFINE I == InstructionType
             s == call.instructions
  <2>1. s \in Seq(I) /\ place + 1 \in 1..Len(s)
    BY <1>1
  <2> HIDE DEF I, s
  <2>2. s[place + 1] \in I
    BY <2>1
  <2> QED BY <2>2 DEF Instruction, I, s
<1>3. result' = Execute(Instruction, accounts, harness, place) /\ place' = place + 1
  BY DEF Ran
<1> QED BY <1>1, <1>2, <1>3, ExecuteTyped

(* The loop goes on with what the instruction has left.                    *)
LEMMA ContinueStep ==
  ASSUME FInv, Ran, Continue
  PROVE  (FixturesTyped /\ SourceKept /\ ListKept)'
<1>1. /\ Instruction \in InstructionType /\ accounts \in Seq(Account)
      /\ place \in Nat /\ place' = place + 1 /\ place < Len(call.instructions)
      /\ result' = Execute(Instruction, accounts, harness, place)
      /\ result'.accounts \in Seq(Account) /\ Len(result'.accounts) = Len(accounts)
      /\ \A i \in 1..Len(accounts) : result'.accounts[i].key = accounts[i].key
  BY RanFacts
<1>2. /\ pc = "running" /\ UNCHANGED <<harness, source, call, ejecting>>
      /\ pc' \in {"idle", "running"} /\ accounts' = result'.accounts
      /\ pc' = "running" => place' # Len(call.instructions)
  BY DEF Ran, Continue
<1>3. Len(call.instructions) \in Nat
  <2> DEFINE I == InstructionType
  <2>1. call.instructions \in Seq(I)
    BY DEF FInv, FixturesTyped
  <2> HIDE DEF I
  <2> QED BY <2>1
<1>4. FixturesTyped'
  BY <1>1, <1>2, <1>3 DEF FInv, FixturesTyped
<1>5. SourceKept'
  <2> SUFFICES ASSUME Replaying PROVE SourceKept'
    BY <1>2 DEF SourceKept, Replaying
  <2> DEFINE f == source.fixture
             ix == LoadedInstruction(f)
  <2>1. /\ Made(f, source.origin) /\ Loadable(f) /\ SetFrom(harness, f)
        /\ call.instructions = <<ix>> /\ place = 0 /\ accounts = f.accounts
    BY <1>2 DEF FInv, SourceKept
  <2>2. Instruction = ix /\ Len(call.instructions) = 1
    BY <2>1 DEF Instruction
  <2>3. pc' = "idle" /\ result' = Execute(ix, f.accounts, harness, 0)
    BY <1>1, <1>2, <2>1, <2>2
  <2> QED BY <1>2, <2>1, <2>3 DEF SourceKept, Replaying
<1>6. ListKept'
  <2>1. /\ Len(accounts) = Len(call.accounts)
        /\ \A i \in 1..Len(call.accounts) : accounts[i].key = call.accounts[i].key
    BY <1>2 DEF FInv, ListKept
  <2> QED BY <1>1, <1>2, <2>1 DEF ListKept
<1> QED BY <1>4, <1>5, <1>6

(* One more fixture.                                                       *)
LEMMA EjectStep ==
  ASSUME FInv, RunAndEject
  PROVE  (FilesMade /\ ChainKept /\ ChainFixtures)'
<1> DEFINE f == FixtureOf(ejecting, Instruction, accounts, harness, result')
           origin == [instruction |-> Instruction, accounts |-> accounts,
                      env |-> harness, index |-> place, result |-> result']
<1>1. /\ Instruction \in InstructionType /\ accounts \in Seq(Account)
      /\ place \in Nat /\ place' = place + 1 /\ place < Len(call.instructions)
      /\ HarnessTyped(harness)
      /\ result' = Execute(Instruction, accounts, harness, place)
  BY RanFacts DEF RunAndEject
<1>2. /\ pc = "running" /\ ejecting \in {"mollusk", "fd"}
      /\ UNCHANGED <<call, ejecting>> /\ Ejectable(ejecting, Instruction, accounts)
      /\ directory' = Dumped(f, origin) /\ written' = Append(written, f)
      /\ pc' \in {"idle", "running"} /\ accounts' = result'.accounts
      /\ result'.outcome # Success => pc' = "idle"
  BY DEF RunAndEject, Ran, Continue, FInv, FixturesTyped, Format
<1> HIDE DEF f
<1>3. Made(f, origin) /\ origin.result = result' /\ origin.accounts = accounts
  <2>1. f = FixtureOf(ejecting, Instruction, accounts, harness, result')
    BY DEF f
  <2> QED BY <1>1, <1>2, <2>1 DEF Made
<1> HIDE DEF origin
<1>4. f.format = ejecting /\ f.accounts = accounts /\ f.program = Instruction.program
  BY <1>2 DEF f, FixtureOf, MolluskFixture, FdFixture
<1>5. FilesMade'
  <2> SUFFICES ASSUME NEW name \in DOMAIN directory'
               PROVE  /\ Made(directory'[name].fixture, directory'[name].origin)
                      /\ FileName(directory'[name].fixture) = name
    BY DEF FilesMade
  <2>1. CASE name = FileName(f)
    <3>1. directory'[name] = [fixture |-> f, origin |-> origin]
      BY <1>2, <2>1 DEF Dumped
    <3> QED BY <1>3, <2>1, <3>1
  <2>2. CASE name # FileName(f)
    <3>1. name \in DOMAIN directory /\ directory'[name] = directory[name]
      BY <1>2, <2>2 DEF Dumped
    <3> QED BY <3>1 DEF FInv, FilesMade
  <2> QED BY <2>1, <2>2
<1>6. /\ Len(written) = place /\ Len(written') = place + 1
      /\ DOMAIN written' = 1..(place + 1)
      /\ written' \in Seq({written'[i] : i \in DOMAIN written'})
      /\ written'[place + 1] = f /\ \A i \in 1..place : written'[i] = written[i]
  <2> DEFINE S == {written[i] : i \in DOMAIN written}
             T == {written'[i] : i \in DOMAIN written'}
  <2>1. written \in Seq(S) /\ Len(written) = place
    BY <1>2 DEF FInv, ChainKept, ChainFixtures
  <2> HIDE DEF S
  <2>2. DOMAIN written = 1..place /\ \A i \in 1..place : written[i] \in S
    BY <1>1, <2>1
  <2>3. written \in Seq(S \cup {f})
    BY <1>1, <2>1, <2>2
  <2>4. /\ Len(written') = place + 1 /\ DOMAIN written' = 1..(place + 1)
        /\ written'[place + 1] = f /\ \A i \in 1..place : written'[i] = written[i]
    BY <1>1, <1>2, <2>1, <2>3
  <2>5. written' = [i \in 1..(place + 1) |-> written'[i]]
    <3> DEFINE R == S \cup {f}
    <3>1. written \in Seq(R) /\ f \in R
      BY <2>3
    <3> HIDE DEF R
    <3>2. written' \in Seq(R)
      BY <1>2, <3>1
    <3> QED BY <2>4, <3>2
  <2>6. \A i \in 1..(place + 1) : written'[i] \in T
    BY <2>4
  <2> HIDE DEF T
  <2>7. written' \in Seq(T)
    BY <1>1, <2>5, <2>6
  <2> QED BY <2>1, <2>4, <2>7 DEF T
<1>7. /\ Expected(f).outcome = Success <=> result'.outcome = Success
      /\ f.format = "mollusk" \/ UniqueKeys(accounts) => Expected(f).accounts = result'.accounts
  BY <1>3, <1>4, EffectsRead
<1>8. UniqueKeys(call.accounts) => UniqueKeys(accounts)
  <2>1. /\ Len(accounts) = Len(call.accounts)
        /\ \A i \in 1..Len(call.accounts) : accounts[i].key = call.accounts[i].key
    BY <1>2 DEF FInv, ListKept
  <2>2. DOMAIN accounts = 1..Len(accounts) /\ DOMAIN call.accounts = 1..Len(call.accounts)
    <3>1. call.accounts \in Seq(Account)
      BY DEF FInv, FixturesTyped
    <3> QED BY <1>1, <3>1, ListFacts
  <2> QED BY <2>1, <2>2 DEF UniqueKeys
<1>9. ChainKept'
  <2>1. (ejecting' = "fd" => UniqueKeys(call'.accounts)) =>
          accounts' = Expected(written'[place']).accounts
    BY <1>1, <1>2, <1>4, <1>6, <1>7, <1>8
  <2> QED BY <1>6, <2>1 DEF ChainKept
<1>10. ChainFixtures'
  <2> SUFFICES ASSUME NEW i \in 1..place'
               PROVE  /\ i = 1 => written'[i].accounts = call'.accounts
                      /\ i > 1 /\ (ejecting' = "fd" => UniqueKeys(call'.accounts)) =>
                           written'[i].accounts = Expected(written'[i - 1]).accounts
                      /\ written'[i].program = call'.instructions[i].program
                      /\ Expected(written'[i]).outcome # Success => i = place' /\ pc' = "idle"
    BY <1>1, <1>6 DEF ChainFixtures
  <2>1. CASE i \in 1..place
    <3>1. /\ i = 1 => written[i].accounts = call.accounts
          /\ i > 1 /\ (ejecting = "fd" => UniqueKeys(call.accounts)) =>
               written[i].accounts = Expected(written[i - 1]).accounts
          /\ written[i].program = call.instructions[i].program
          /\ Expected(written[i]).outcome = Success
      BY <1>2, <2>1 DEF FInv, ChainFixtures
    <3>2. written'[i] = written[i] /\ (i > 1 => written'[i - 1] = written[i - 1])
      BY <1>1, <1>6, <2>1
    <3> QED BY <1>2, <3>1, <3>2
  <2>2. CASE i = place + 1
    <3>1. i = 1 => accounts = call.accounts
      BY <1>1, <1>2, <2>2 DEF FInv, ListKept
    <3>2. i > 1 /\ (ejecting = "fd" => UniqueKeys(call.accounts)) =>
            accounts = Expected(written[place]).accounts
      BY <1>1, <1>2, <2>2 DEF FInv, ChainKept
    <3>3. i > 1 => written'[i - 1] = written[place]
      BY <1>1, <1>6, <2>2
    <3>4. Instruction = call.instructions[i]
      BY <2>2 DEF Instruction
    <3> QED BY <1>1, <1>2, <1>4, <1>6, <1>7, <2>2, <3>1, <3>2, <3>3, <3>4
  <2> QED BY <1>1, <2>1, <2>2
<1> QED BY <1>5, <1>9, <1>10

LEMMA StepFInv == FInv /\ [Next]_vars => FInv'
<1> SUFFICES ASSUME FInv, [Next]_vars PROVE FInv'
  OBVIOUS
<1>1. CASE UNCHANGED vars
  BY <1>1 DEF vars, FInv, FixturesTyped, FilesMade, SourceKept, Replaying, ListKept, ChainKept,
              ChainFixtures
<1>2. ASSUME NEW h \in Harness, SetHarness(h) PROVE FInv'
  <2>1. HarnessTyped(harness)'
    BY <1>2, HarnessAssumption DEF SetHarness, HarnessTyped
  <2> QED BY <1>2, <2>1, IdleStep DEF SetHarness
<1>3. ASSUME NEW c \in Calls, NEW format \in Format, BeginCall(c, format) PROVE FInv'
  <2>1. c.instructions \in Seq(InstructionType) \ {<<>>} /\ c.accounts \in Seq(Account)
    BY CallsAssumption
  <2>2. Begin(c, Test, format) /\ HarnessTyped(harness)'
    BY <1>3 DEF BeginCall, FInv, FixturesTyped
  <2>3. (FixturesTyped /\ FilesMade /\ ListKept /\ ChainKept /\ ChainFixtures)'
    BY <2>1, <2>2, BeginStep
  <2>4. SourceKept'
    BY <2>2 DEF Begin, SourceKept, Replaying
  <2> QED BY <2>3, <2>4 DEF FInv
<1>4. ASSUME NEW name \in DOMAIN directory, NEW format \in Format, Replay(name, format)
      PROVE  FInv'
  <2> DEFINE f == directory[name].fixture
             o == directory[name].origin
             ix == LoadedInstruction(f)
             c == [instructions |-> <<ix>>, accounts |-> f.accounts]
  <2>1. Made(f, o)
    BY DEF FInv, FilesMade
  <2>2. Loadable(f) /\ Begin(c, directory[name], format) /\ harness' = LoadedHarness(f)
    BY <1>4 DEF Replay
  <2>3. ix \in InstructionType /\ f.accounts \in Seq(Account)
    BY <2>1, <2>2, LoadedTyped, MadeFacts
  <2>4. f.limit \in Nat /\ f.format \in {"mollusk", "fd"}
    BY <2>1, MadeFacts DEF HarnessTyped
  <2>5. HarnessTyped(harness)' /\ SetFrom(harness', f)
    <3>1. DOMAIN harness = Carried \cup {"restart", "stake", "slot"}
      BY DEF FInv, FixturesTyped, HarnessTyped
    <3>2. CASE f.format = "mollusk"
      <4>1. harness' = [harness EXCEPT !.limit = f.limit, !.costs = f.costs,
                          !.features = f.features, !.clock = f.clock, !.restart = DefaultRestart]
        BY <2>2, <3>2 DEF LoadedHarness
      <4> QED BY <2>4, <3>1, <3>2, <4>1 DEF HarnessTyped, SetFrom, Carried
    <3>3. CASE f.format = "fd"
      <4>1. harness' = [harness EXCEPT !.limit = f.limit, !.costs = DefaultCosts,
                          !.features = f.features, !.slot = f.slot]
        BY <2>2, <3>3 DEF LoadedHarness
      <4> QED BY <2>4, <3>1, <3>3, <4>1 DEF HarnessTyped, SetFrom, Carried
    <3> QED BY <2>4, <3>2, <3>3
  <2> HIDE DEF f, o, ix
  <2>6. c.instructions \in Seq(InstructionType) \ {<<>>} /\ c.accounts \in Seq(Account)
    BY <2>3
  <2>7. (FixturesTyped /\ FilesMade /\ ListKept /\ ChainKept /\ ChainFixtures)'
    BY <2>2, <2>5, <2>6, BeginStep
  <2>8. SourceKept'
    <3>1. /\ source' = directory[name] /\ call' = c /\ pc' = "running"
          /\ place' = 0 /\ accounts' = f.accounts
      BY <2>2 DEF Begin
    <3>2. source'.fixture = f /\ source'.origin = o /\ LoadedInstruction(source'.fixture) = ix
      BY <3>1 DEF f, o, ix
    <3> QED BY <2>1, <2>2, <2>5, <3>1, <3>2 DEF SourceKept
  <2> QED BY <2>7, <2>8 DEF FInv
<1>5. ASSUME NEW name \in DOMAIN directory, LoadPanics(name) PROVE FInv'
  BY <1>5, PanicStep DEF LoadPanics, FInv, FixturesTyped
<1>6. CASE CallPanics
  BY <1>6, PanicStep DEF CallPanics, FInv, FixturesTyped
<1>7. CASE RunOnly
  <2>1. (FixturesTyped /\ SourceKept /\ ListKept)'
    BY <1>7, ContinueStep DEF RunOnly
  <2>2. ejecting' = "off" /\ UNCHANGED directory
    BY <1>7 DEF RunOnly, Ran
  <2>3. (FilesMade /\ ChainKept /\ ChainFixtures)'
    BY <2>2 DEF FInv, FilesMade, ChainKept, ChainFixtures
  <2> QED BY <2>1, <2>3 DEF FInv
<1>8. CASE RunAndEject
  <2>1. (FixturesTyped /\ SourceKept /\ ListKept)'
    BY <1>8, ContinueStep DEF RunAndEject
  <2> QED BY <1>8, <2>1, EjectStep DEF FInv
<1>9. CASE EjectPanics
  <2>1. place' \in Nat
    BY <1>9, RanFacts DEF EjectPanics
  <2> QED BY <1>9, <2>1, PanicStep DEF EjectPanics, Ran
<1>10. CASE Catch
  <2>1. HarnessTyped(harness)'
    BY <1>10 DEF Catch, FInv, FixturesTyped
  <2> QED BY <1>10, <2>1, IdleStep DEF Catch
<1> QED BY <1>1, <1>2, <1>3, <1>4, <1>5, <1>6, <1>7, <1>8, <1>9, <1>10 DEF Next

-----------------------------------------------------------------------------
(* The theorems.                                                           *)

(* The invariant that the properties follow from: what is in a file, what  *)
(* a replay has set, and what a chain has ejected so far.                  *)
THEOREM FixturesInvariance == Spec => []FInv
BY InitFInv, StepFInv, PTL DEF Spec

(* A replay gives the result of the execution whose fixture it replays, if *)
(* the fixture has what that execution read.                               *)
THEOREM Reproduction == Spec => []ReplayReproduces
<1>1. FInv => ReplayReproduces
  <2> SUFFICES ASSUME FInv, Replaying, pc = "idle", Replayable(source.fixture, source.origin)
               PROVE  /\ result = source.origin.result
                      /\ result = Expected(source.fixture)
    BY DEF ReplayReproduces
  <2> DEFINE f == source.fixture
             o == source.origin
  <2>1. /\ Made(f, o) /\ Loadable(f) /\ SetFrom(harness, f)
        /\ result = Execute(LoadedInstruction(f), f.accounts, harness, 0)
    BY DEF FInv, SourceKept
  <2>2. Replayable(f, o)
    OBVIOUS
  <2> HIDE DEF f, o
  <2>3. result = o.result
    BY <2>1, <2>2, ReplayRuns
  <2>4. Expected(f) = o.result
    <3>1. f.format \in {"mollusk", "fd"}
      BY <2>1, MadeFacts
    <3> QED BY <2>1, <2>2, <3>1, EffectsRead DEF Replayable
  <2> QED BY <2>3, <2>4 DEF f, o
<1> QED BY <1>1, FixturesInvariance, PTL

(* The effects in a file are read as the result they were made of.         *)
THEOREM EffectsTruth == Spec => []EffectsKept
<1>1. FInv => EffectsKept
  <2> SUFFICES ASSUME FInv, NEW name \in DOMAIN directory
               PROVE  LET f == directory[name].fixture
                          o == directory[name].origin
                      IN  /\ (IF f.format = "mollusk"
                              THEN o.result.outcome \notin UnknownError \ {InvalidError}
                              ELSE UniqueKeys(f.accounts))
                             => Expected(f) = o.result
                          /\ f.format = "mollusk" => Loadable(f)
                          /\ FileName(f) = name
    BY DEF EffectsKept
  <2> DEFINE f == directory[name].fixture
             o == directory[name].origin
  <2>1. Made(f, o) /\ FileName(f) = name
    BY DEF FInv, FilesMade
  <2> QED BY <2>1, EffectsRead, MolluskLoadable
<1> QED BY <1>1, FixturesInvariance, PTL

(* A chain's fixtures are those of its instructions and hand on accounts   *)
(* as the chain did.                                                       *)
THEOREM ChainOrder == Spec => []ChainFixtures
<1>1. FInv => ChainFixtures
  BY DEF FInv
<1> QED BY <1>1, FixturesInvariance, PTL
=============================================================================
