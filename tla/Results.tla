------------------------------ MODULE Results ------------------------------
(***************************************************************************)
(* What a test does with results (result/src): run_checks against a list   *)
(* of checks, compare_with_config against another result.  Both are loops  *)
(* over a list that stop early: compare! leaves the function at the first  *)
(* mismatch, throw! notes a failure and goes on, and either one panics     *)
(* under config.panic.                                                     *)
(*                                                                         *)
(* Results are those of instructions and of transactions: `inner` has the  *)
(* number of CPIs of each group, of which an instruction has one.          *)
(***************************************************************************)
EXTENDS Integers, Sequences

CONSTANTS
  Key,           \* account addresses
  Owner,         \* account owners
  SystemOwner,   \* Pubkey::default(), the owner of Account::default()
  Byte,          \* contents of account and return data
  Outcome,       \* program results: success and errors
  RentOverhead,  \* bytes that rent is charged for beside the data
  RentPerByte,   \* lamports for a byte to be exempt
  Results,       \* results that a test holds
  CheckLists,    \* lists of checks
  CompareLists   \* lists of comparisons

(* AccountField of a comparison, which has no rent_epoch.                  *)
AccountField == {"data", "executable", "lamports", "owner", "space"}

Account == [owner : Owner, lamports : Nat, executable : BOOLEAN, data : Seq(Byte),
            rent_epoch : Nat]
Result == [units : Nat, time : Nat, outcome : Outcome, returned : Seq(Byte),
           accounts : Seq([key : Key, account : Account]), inner : Seq(Nat)]

(* What the calls on an AccountCheckBuilder may leave under each name: the *)
(* last call stands, and closed and rent_exempt are calls of one name.     *)
Requirement ==
  [data |-> Seq(Byte), executable |-> BOOLEAN, lamports |-> Nat, owner |-> Owner,
   space |-> Nat, state |-> {"closed", "rent_exempt"},
   slice |-> [offset : Nat, bytes : Seq(Byte)]]

(* A check holds what it checks for in the field of its own type.          *)
IsCheck(c) ==
  \/ c \in [type : {"units"}, units : Nat] \cup [type : {"time"}, time : Nat]
  \/ c \in [type : {"outcome"}, outcome : Outcome]
  \/ c \in [type : {"returned"}, returned : Seq(Byte)]
  \/ c \in [type : {"inner"}, inner : Nat] \cup [type : {"all_rent_exempt"}]
  \/ /\ DOMAIN c = {"type", "key", "requires"} /\ c.type = "account" /\ c.key \in Key
     /\ DOMAIN c.requires \subseteq DOMAIN Requirement
     /\ \A name \in DOMAIN c.requires : c.requires[name] \in Requirement[name]

IsCompare(c) ==
  \/ c \in [type : {"units", "time", "outcome", "returned"}]
  \/ c \in [type : {"all"}, fields : SUBSET AccountField]
  \/ c \in [type : {"only", "except"}, fields : SUBSET AccountField, keys : SUBSET Key]

IsList(seq) == Len(seq) \in Nat /\ DOMAIN seq = 1..Len(seq)

ASSUME RentAssumption == {RentOverhead, RentPerByte} \subseteq Nat /\ SystemOwner \in Owner
ASSUME ResultsAssumption == Results \subseteq Result
ASSUME CheckListsAssumption ==
  \A checks \in CheckLists : IsList(checks) /\ \A i \in DOMAIN checks : IsCheck(checks[i])
ASSUME CompareListsAssumption ==
  \A checks \in CompareLists : IsList(checks) /\ \A i \in DOMAIN checks : IsCompare(checks[i])

VARIABLES
  pc,      \* "idle", "checking", "comparing", "returned" or "panicked"
  task,    \* what is or was done: "check" or "compare"
  self,    \* the result at hand
  other,   \* the result it is compared with
  list,    \* the checks or comparisons
  panic,   \* config.panic
  at,      \* the next of them
  pass     \* what the loop has found; when it is over, the verdict

vars == <<pc, task, self, other, list, panic, at, pass>>

-----------------------------------------------------------------------------
(* Accounts.                                                               *)

DefaultAccount ==
  [owner |-> SystemOwner, lamports |-> 0, executable |-> FALSE, data |-> <<>>,
   rent_epoch |-> 0]

(* CheckContext::is_rent_exempt, of the default context and of Mollusk.    *)
RentExempt(account) ==
  \/ account.owner = SystemOwner /\ account.lamports = 0
  \/ account.lamports >= (RentOverhead + Len(account.data)) * RentPerByte

Field(account, name) ==
  IF name = "space" THEN Len(account.data) ELSE account[name]

Present(result, k) == \E i \in DOMAIN result.accounts : result.accounts[i].key = k

(* resulting_accounts.iter().find(|(k, _)| k == &pubkey)                   *)
Found(result, k) ==
  result.accounts[CHOOSE i \in DOMAIN result.accounts :
                    /\ result.accounts[i].key = k
                    /\ \A j \in DOMAIN result.accounts :
                         result.accounts[j].key = k => i <= j].account

Keys(result) == {result.accounts[i].key : i \in DOMAIN result.accounts}

(* The CPIs that a check looks at: those of the first group.               *)
InnerCount(result) == IF result.inner = <<>> THEN 0 ELSE result.inner[1]

-----------------------------------------------------------------------------
(* run_checks.                                                             *)

(* The sum is one of usize that does not overflow.                         *)
SliceFits(slice, account) == slice.offset + Len(slice.bytes) <= Len(account.data)

SliceDiffers(slice, account) ==
  SubSeq(account.data, slice.offset + 1, slice.offset + Len(slice.bytes)) # slice.bytes

Fails(requires, name, account) ==
  CASE name = "slice" ->
         SliceFits(requires.slice, account) /\ SliceDiffers(requires.slice, account)
    [] name = "state" -> IF requires.state = "closed" THEN account # DefaultAccount
                         ELSE ~RentExempt(account)
    [] OTHER -> Field(account, name) # requires[name]

(* compare!: the check ends the loop.                                      *)
Mismatch(c) ==
  CASE c.type = "account" ->
         /\ Present(self, c.key)
         /\ \E name \in DOMAIN c.requires : Fails(c.requires, name, Found(self, c.key))
    [] c.type = "all_rent_exempt" -> FALSE
    [] c.type = "inner" -> InnerCount(self) # c.inner
    [] OTHER -> self[c.type] # c[c.type]

(* throw!: the check fails and the loop goes on.                           *)
Thrown(c) ==
  CASE c.type = "account" ->
         \/ ~Present(self, c.key)
         \/ "slice" \in DOMAIN c.requires
              /\ ~SliceFits(c.requires.slice, Found(self, c.key))
    [] c.type = "all_rent_exempt" ->
         \E i \in DOMAIN self.accounts : ~RentExempt(self.accounts[i].account)
    [] OTHER -> FALSE

-----------------------------------------------------------------------------
(* compare_with_config.                                                    *)

(* The addresses a comparison passes on, less those to ignore.             *)
Compared(c) ==
  CASE c.type = "all" -> Keys(self)
    [] c.type = "only" -> c.keys
    [] c.type = "except" -> Keys(self) \ c.keys

\* Mutant: the first pair of accounts decides.
ResultingAccountsDifferAtFirst(c) ==
  \E i \in DOMAIN self.accounts \cap DOMAIN other.accounts \cap {1} :
    /\ self.accounts[i].key \in Compared(c)
    /\ \E name \in c.fields :
         Field(self.accounts[i].account, name) # Field(other.accounts[i].account, name)

(* compare_resulting_accounts: pairs by position, as far as both lists go; *)
(* a mismatch leaves this function only.                                   *)
ResultingAccountsDiffer(c) ==
  \E i \in DOMAIN self.accounts \cap DOMAIN other.accounts :
    /\ self.accounts[i].key \in Compared(c)
    /\ \E name \in c.fields :
         Field(self.accounts[i].account, name) # Field(other.accounts[i].account, name)

Unequal(c) ==
  CASE c.type = "all" -> Len(self.accounts) # Len(other.accounts)
    [] c.type \in {"only", "except"} -> FALSE
    [] OTHER -> self[c.type] # other[c.type]

DifferentAccounts(c) ==
  c.type \in {"all", "only", "except"} /\ ResultingAccountsDiffer(c)

(* compare(): everything, panicking.                                       *)
Everything ==
  <<[type |-> "units"], [type |-> "outcome"], [type |-> "returned"],
    [type |-> "all", fields |-> AccountField]>>

-----------------------------------------------------------------------------
Init ==
  /\ pc = "idle" /\ task = "check"
  /\ self \in Results /\ other = self
  /\ list = <<>> /\ panic = TRUE /\ at = 1 /\ pass = TRUE

(* A call on either side: both begin with `pass = true`.                   *)
Start(what, where, a, b, l, p) ==
  /\ pc = "idle"
  /\ pc' = where /\ task' = what
  /\ self' = a /\ other' = b /\ list' = l /\ panic' = p
  /\ at' = 1 /\ pass' = TRUE

RunChecks(a, checks, p) == Start("check", "checking", a, a, checks, p)

(* Only results of instructions are compared.                              *)
CompareWithConfig(a, b, checks, p) ==
  /\ Len(a.inner) = 1 /\ Len(b.inner) = 1
  /\ Start("compare", "comparing", a, b, checks, p)

CompareAll(a, b) == CompareWithConfig(a, b, Everything, TRUE)

(* One item of the list: `mismatch` is compare!, `thrown` is throw! or a   *)
(* function that returned false.                                           *)

\* Mutant: an item that passes makes up for those that failed.
ItemForgets(mismatch, thrown) ==
  /\ at <= Len(list)
  /\ pc' = IF (mismatch \/ thrown) /\ panic THEN "panicked"
           ELSE IF mismatch THEN "returned" ELSE pc
  /\ pass' = ~(mismatch \/ thrown)
  /\ at' = IF mismatch \/ (thrown /\ panic) THEN at ELSE at + 1
  /\ UNCHANGED <<task, self, other, list, panic>>

Item(mismatch, thrown) ==
  /\ at <= Len(list)
  /\ pc' = IF (mismatch \/ thrown) /\ panic THEN "panicked"
           ELSE IF mismatch THEN "returned" ELSE pc
  /\ pass' = (pass /\ ~mismatch /\ ~thrown)
  /\ at' = IF mismatch \/ (thrown /\ panic) THEN at ELSE at + 1
  /\ UNCHANGED <<task, self, other, list, panic>>

CheckOne == pc = "checking" /\ Item(Mismatch(list[at]), Thrown(list[at]))

CompareOne == pc = "comparing" /\ Item(Unequal(list[at]), DifferentAccounts(list[at]))

EndOfList ==
  /\ pc \in {"checking", "comparing"} /\ at > Len(list)
  /\ pc' = "returned"
  /\ UNCHANGED <<task, self, other, list, panic, at, pass>>

(* The caller takes the verdict or catches the panic.                      *)
Forget ==
  /\ pc \in {"returned", "panicked"}
  /\ pc' = "idle" /\ task' = "check" /\ other' = self
  /\ list' = <<>> /\ panic' = TRUE /\ at' = 1 /\ pass' = TRUE
  /\ UNCHANGED self

Next ==
  \/ \E a \in Results, checks \in CheckLists, p \in BOOLEAN : RunChecks(a, checks, p)
  \/ \E a, b \in Results, checks \in CompareLists, p \in BOOLEAN :
       CompareWithConfig(a, b, checks, p)
  \/ \E a, b \in Results : CompareAll(a, b)
  \/ CheckOne \/ CompareOne \/ EndOfList \/ Forget

Spec == Init /\ [][Next]_vars

-----------------------------------------------------------------------------
Total(counts) ==
  LET upTo[i \in 0..Len(counts)] == IF i = 0 THEN 0 ELSE upTo[i - 1] + counts[i]
  IN  upTo[Len(counts)]

Over == pc \in {"returned", "panicked"}

(* The verdict: TRUE, FALSE or a panic.                                    *)
Says(ok) ==
  IF ok THEN pc = "returned" /\ pass
  ELSE IF panic THEN pc = "panicked" ELSE pc = "returned" /\ ~pass

(* What the doc comments of the checks mean for an account.                *)
Satisfies(requires, name, account) ==
  CASE name = "slice" ->
         /\ requires.slice.offset + Len(requires.slice.bytes) <= Len(account.data)
         /\ \A i \in DOMAIN requires.slice.bytes :
              account.data[requires.slice.offset + i] = requires.slice.bytes[i]
    [] name = "state" -> IF requires.state = "closed" THEN account = DefaultAccount
                         ELSE RentExempt(account)
    [] name = "space" -> Len(account.data) = requires.space
    [] OTHER -> account[name] = requires[name]

Holds(c) ==
  CASE c.type = "account" ->
         \E i \in DOMAIN self.accounts :
           /\ self.accounts[i].key = c.key
           /\ \A j \in 1..(i - 1) : self.accounts[j].key # c.key
           /\ \A name \in DOMAIN c.requires :
                Satisfies(c.requires, name, self.accounts[i].account)
    [] c.type = "all_rent_exempt" ->
         \A i \in DOMAIN self.accounts : RentExempt(self.accounts[i].account)
    [] c.type = "inner" -> InnerCount(self) = c.inner
    [] OTHER -> self[c.type] = c[c.type]

(* Whatever the order of the checks, however many fail and in which of the *)
(* two ways: run_checks says TRUE if all of them hold, and otherwise it    *)
(* panics or says FALSE, by config.panic.                                  *)
ChecksDecide ==
  Over /\ task = "check" => Says(\A i \in DOMAIN list : Holds(list[i]))

(* Results as those of one list of accounts, or of a fixture's: the same   *)
(* keys in the same order, none twice.                                     *)
SameAddresses ==
  /\ Len(self.accounts) = Len(other.accounts)
  /\ \A i, j \in DOMAIN self.accounts :
       (self.accounts[i].key = other.accounts[j].key) = (i = j)

AgreeOn(k, fields) ==
  /\ Present(self, k) /\ Present(other, k)
  /\ \A name \in fields :
       Field(Found(self, k), name) = Field(Found(other, k), name)

Agrees(c) ==
  CASE c.type = "all" -> \A k \in Keys(self) \cup Keys(other) : AgreeOn(k, c.fields)
    [] c.type = "only" ->
         \A k \in c.keys \cap (Keys(self) \cup Keys(other)) : AgreeOn(k, c.fields)
    [] c.type = "except" ->
         \A k \in (Keys(self) \cup Keys(other)) \ c.keys : AgreeOn(k, c.fields)
    [] OTHER -> self[c.type] = other[c.type]

(* For such results compare_with_config finds every difference in what it  *)
(* is asked to compare and no other, in either direction and either mode.  *)
ComparisonDecides ==
  Over /\ task = "compare" /\ SameAddresses =>
    Says(\A i \in DOMAIN list : Agrees(list[i]))

(* Doc comment of Check::inner_instruction_count: "Check the number of     *)
(* inner instructions (CPIs) invoked during execution."  Of a transaction  *)
(* this would be the CPIs of all its instructions.                         *)
AllCpisCounted ==
  pc = "returned" /\ task = "check" /\ pass =>
    \A i \in DOMAIN list : list[i].type = "inner" =>
      list[i].inner = Total(self.inner)
=============================================================================
