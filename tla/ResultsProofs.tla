---------------------------- MODULE ResultsProofs ----------------------------
(***************************************************************************)
(* Proofs about Results, for any results, checks and comparisons: however  *)
(* run_checks and compare_with_config leave their loops, their verdict is  *)
(* that of all the checks, or comparisons, together.                       *)
(***************************************************************************)
EXTENDS Results, SumProofs

-----------------------------------------------------------------------------
(* The inductive invariant.                                                *)

(* What the loop makes of one item: neither compare! nor throw! fires.     *)
Passed(c) ==
  IF task = "check" THEN ~Mismatch(c) /\ ~Thrown(c)
  ELSE ~Unequal(c) /\ ~DifferentAccounts(c)

ResultsTyped ==
  /\ pc \in {"idle", "checking", "comparing", "returned", "panicked"}
  /\ task \in {"check", "compare"} /\ self \in Results /\ other \in Results
  /\ panic \in BOOLEAN /\ pass \in BOOLEAN /\ at \in Nat /\ at > 0
  /\ pc = "checking" => task = "check"
  /\ pc = "comparing" => task = "compare"
  /\ pc # "idle" =>
       /\ IsList(list)
       /\ task = "check" => \A i \in DOMAIN list : IsCheck(list[i])
       /\ task = "compare" => \A i \in DOMAIN list : IsCompare(list[i])

(* In the loop, pass is the verdict on the items so far, all of which      *)
(* passed if a failure panics; after it, on all of them.                   *)
VerdictKept ==
  /\ pc \in {"checking", "comparing"} =>
       /\ at <= Len(list) + 1
       /\ pass <=> \A i \in 1..(at - 1) : Passed(list[i])
       /\ panic => pass
  /\ Over => Says(\A i \in DOMAIN list : Passed(list[i]))

VInv == ResultsTyped /\ VerdictKept

-----------------------------------------------------------------------------
(* Lemmas on checks.                                                       *)

LEMMA AccountFacts ==
  ASSUME NEW result \in Results
  PROVE  /\ result.accounts \in Seq([key : Key, account : Account])
         /\ Len(result.accounts) \in Nat /\ DOMAIN result.accounts = 1..Len(result.accounts)
         /\ \A i \in 1..Len(result.accounts) :
              /\ result.accounts[i].key \in Key /\ result.accounts[i].account \in Account
              /\ result.accounts[i].account.data \in Seq(Byte)
<1>1. result.accounts \in Seq([key : Key, account : Account])
  BY ResultsAssumption DEF Result
<1>2. /\ Len(result.accounts) \in Nat /\ DOMAIN result.accounts = 1..Len(result.accounts)
      /\ \A i \in 1..Len(result.accounts) : result.accounts[i] \in [key : Key, account : Account]
  BY <1>1, SeqFacts
<1> QED BY <1>1, <1>2 DEF Account

(* find() finds the first account with the address.                        *)
LEMMA FoundIsFirst ==
  ASSUME NEW result \in Results, NEW k, Present(result, k)
  PROVE  \E i \in 1..Len(result.accounts) :
           /\ result.accounts[i].key = k /\ Found(result, k) = result.accounts[i].account
           /\ \A j \in 1..Len(result.accounts) : result.accounts[j].key = k => i <= j
<1> DEFINE accounts == result.accounts
           S == {i \in 1..Len(accounts) : accounts[i].key = k}
           First(i) == /\ accounts[i].key = k
                       /\ \A j \in DOMAIN accounts : accounts[j].key = k => i <= j
<1>1. Len(accounts) \in Nat /\ DOMAIN accounts = 1..Len(accounts)
  BY AccountFacts
<1>2. S \in SUBSET Nat /\ S # {}
  BY <1>1 DEF Present
<1>3. \E i \in S : \A j \in S : i <= j
  <2> HIDE DEF S
  <2> QED BY <1>2, SmallestElement
<1>4. \E i \in DOMAIN accounts : First(i)
  BY <1>1, <1>3
<1>5. Found(result, k) = accounts[CHOOSE i \in DOMAIN accounts : First(i)].account
  BY DEF Found
<1> HIDE DEF First
<1>6. First(CHOOSE i \in DOMAIN accounts : First(i)) /\ (CHOOSE i \in DOMAIN accounts : First(i)) \in DOMAIN accounts
  BY <1>4
<1> QED BY <1>1, <1>5, <1>6 DEF First

(* The bytes of a slice, compared as a whole or one by one.                *)
LEMMA SliceAgrees ==
  ASSUME NEW data \in Seq(Byte), NEW bytes \in Seq(Byte), NEW offset \in Nat,
         offset + Len(bytes) <= Len(data)
  PROVE  SubSeq(data, offset + 1, offset + Len(bytes)) = bytes
           <=> \A i \in DOMAIN bytes : data[offset + i] = bytes[i]
<1> DEFINE n == Len(bytes)
           part == SubSeq(data, offset + 1, offset + n)
<1>1. n \in Nat /\ DOMAIN bytes = 1..n /\ Len(data) \in Nat /\ bytes = [i \in 1..n |-> bytes[i]]
  BY SeqFacts, SeqIsFunction
<1>2. part = [i \in 1..n |-> data[offset + i]]
  <2>1. part \in Seq(Byte) /\ Len(part) = n
    BY <1>1
  <2>2. \A i \in 1..n : part[i] = data[offset + i]
    BY <1>1
  <2>3. part = [i \in 1..n |-> part[i]]
    BY <2>1, SeqIsFunction
  <2> HIDE DEF part
  <2> QED BY <2>2, <2>3
<1> HIDE DEF part, n
<1>3. ASSUME part = bytes, NEW i \in 1..n PROVE data[offset + i] = bytes[i]
  BY <1>2, <1>3
<1>4. ASSUME \A i \in 1..n : data[offset + i] = bytes[i] PROVE part = bytes
  BY <1>1, <1>2, <1>4
<1> QED BY <1>1, <1>3, <1>4 DEF part, n

(* One requirement on an account: it fails where it is not satisfied, but  *)
(* for a slice that does not fit, which is thrown.                         *)
LEMMA RequirementDecided ==
  ASSUME NEW c, IsCheck(c), c.type = "account", NEW account \in Account, NEW name \in DOMAIN c.requires
  PROVE  Satisfies(c.requires, name, account)
           <=> /\ ~Fails(c.requires, name, account)
               /\ name = "slice" => SliceFits(c.requires.slice, account)
<1> DEFINE requires == c.requires
<1>1. /\ DOMAIN requires \subseteq DOMAIN Requirement /\ requires[name] \in Requirement[name]
  BY DEF IsCheck
<1>2. name \in {"data", "executable", "lamports", "owner", "space", "state", "slice"}
  BY <1>1 DEF Requirement
<1> HIDE DEF requires
<1>3. CASE name = "slice"
  <2> DEFINE slice == requires.slice
  <2>1. slice \in [offset : Nat, bytes : Seq(Byte)] /\ account.data \in Seq(Byte)
    BY <1>1, <1>3 DEF Requirement, Account
  <2>2. Fails(requires, name, account) <=> SliceFits(slice, account) /\ SliceDiffers(slice, account)
    BY <1>3 DEF Fails
  <2>3. Satisfies(requires, name, account)
          <=> /\ slice.offset + Len(slice.bytes) <= Len(account.data)
              /\ \A i \in DOMAIN slice.bytes : account.data[slice.offset + i] = slice.bytes[i]
    BY <1>3 DEF Satisfies
  <2> HIDE DEF slice
  <2>4. SliceFits(slice, account) =>
          (~SliceDiffers(slice, account)
             <=> \A i \in DOMAIN slice.bytes : account.data[slice.offset + i] = slice.bytes[i])
    BY <2>1, SliceAgrees, ZenonT(30) DEF SliceFits, SliceDiffers
  <2> QED BY <1>3, <2>2, <2>3, <2>4 DEF SliceFits, requires, slice
<1>4. CASE name = "state"
  <2>1. Fails(requires, name, account) <=> IF requires.state = "closed" THEN account # DefaultAccount
                                           ELSE ~RentExempt(account)
    BY <1>4 DEF Fails
  <2>2. Satisfies(requires, name, account)
          <=> IF requires.state = "closed" THEN account = DefaultAccount ELSE RentExempt(account)
    BY <1>4 DEF Satisfies
  <2> QED BY <1>4, <2>1, <2>2 DEF requires
<1>5. CASE name = "space"
  <2>1. Fails(requires, name, account) <=> Len(account.data) # requires.space
    BY <1>5 DEF Fails, Field
  <2>2. Satisfies(requires, name, account) <=> Len(account.data) = requires.space
    BY <1>5 DEF Satisfies
  <2> QED BY <1>5, <2>1, <2>2 DEF requires
<1>6. CASE name \in {"data", "executable", "lamports", "owner"}
  <2>1. Fails(requires, name, account) <=> account[name] # requires[name]
    BY <1>6 DEF Fails, Field
  <2>2. Satisfies(requires, name, account) <=> account[name] = requires[name]
    BY <1>6 DEF Satisfies
  <2> QED BY <1>6, <2>1, <2>2 DEF requires
<1> QED BY <1>2, <1>3, <1>4, <1>5, <1>6

(* A check holds if and only if it neither mismatches nor throws.          *)
LEMMA CheckDecided ==
  ASSUME self \in Results, NEW c, IsCheck(c)
  PROVE  Holds(c) <=> ~Mismatch(c) /\ ~Thrown(c)
<1>1. CASE c.type = "account"
  <2>1. Mismatch(c) <=> /\ Present(self, c.key)
                        /\ \E name \in DOMAIN c.requires : Fails(c.requires, name, Found(self, c.key))
    BY <1>1 DEF Mismatch
  <2>2. Thrown(c) <=> \/ ~Present(self, c.key)
                      \/ "slice" \in DOMAIN c.requires
                           /\ ~SliceFits(c.requires.slice, Found(self, c.key))
    BY <1>1 DEF Thrown
  <2>3. Holds(c) <=>
          \E i \in DOMAIN self.accounts :
            /\ self.accounts[i].key = c.key
            /\ \A j \in 1..(i - 1) : self.accounts[j].key # c.key
            /\ \A name \in DOMAIN c.requires : Satisfies(c.requires, name, self.accounts[i].account)
    BY <1>1 DEF Holds
  <2>4. CASE ~Present(self, c.key)
    BY <2>2, <2>3, <2>4 DEF Present
  <2>5. CASE Present(self, c.key)
    <3>1. /\ Len(self.accounts) \in Nat /\ DOMAIN self.accounts = 1..Len(self.accounts)
          /\ \A i \in 1..Len(self.accounts) : self.accounts[i].account \in Account
      BY AccountFacts
    <3>2. PICK first \in 1..Len(self.accounts) :
            /\ self.accounts[first].key = c.key
            /\ Found(self, c.key) = self.accounts[first].account
            /\ \A j \in 1..Len(self.accounts) : self.accounts[j].key = c.key => first <= j
      BY <2>5, FoundIsFirst
    <3> DEFINE account == self.accounts[first].account
               AllSatisfied(a) == \A name \in DOMAIN c.requires : Satisfies(c.requires, name, a)
    <3>3. \A i \in 1..Len(self.accounts) :
            self.accounts[i].key = c.key /\ (\A j \in 1..(i - 1) : self.accounts[j].key # c.key)
              => i = first
      <4> SUFFICES ASSUME NEW i \in 1..Len(self.accounts), self.accounts[i].key = c.key,
                          \A j \in 1..(i - 1) : self.accounts[j].key # c.key, first # i
                   PROVE  FALSE
        OBVIOUS
      <4>1. first \in 1..(i - 1)
        BY <3>1, <3>2
      <4> QED BY <3>2, <4>1
    <3>4. \A j \in 1..(first - 1) : self.accounts[j].key # c.key
      BY <3>1, <3>2
    <3>5. Holds(c) <=> AllSatisfied(account)
      <4> HIDE DEF AllSatisfied
      <4>1. Holds(c) <=>
              \E i \in 1..Len(self.accounts) :
                /\ self.accounts[i].key = c.key
                /\ \A j \in 1..(i - 1) : self.accounts[j].key # c.key
                /\ AllSatisfied(self.accounts[i].account)
        BY <2>3, <3>1 DEF AllSatisfied
      <4> QED BY <3>2, <3>3, <3>4, <4>1
    <3>6. account \in Account /\ Found(self, c.key) = account
      BY <3>1, <3>2
    <3> HIDE DEF account
    <3>7. \A name \in DOMAIN c.requires :
            Satisfies(c.requires, name, account)
              <=> /\ ~Fails(c.requires, name, account)
                  /\ name = "slice" => SliceFits(c.requires.slice, account)
      BY <1>1, <3>6, RequirementDecided
    <3> QED BY <2>1, <2>2, <2>5, <3>5, <3>6, <3>7
  <2> QED BY <2>4, <2>5
<1>2. CASE c.type = "all_rent_exempt"
  BY <1>2 DEF Holds, Mismatch, Thrown
<1>3. CASE c.type = "inner"
  BY <1>3 DEF Holds, Mismatch, Thrown
<1>4. CASE c.type \notin {"account", "all_rent_exempt", "inner"}
  BY <1>4 DEF Holds, Mismatch, Thrown
<1> QED BY <1>1, <1>2, <1>3, <1>4

-----------------------------------------------------------------------------
(* Lemmas on comparisons.                                                  *)

(* Of results of the same addresses, the accounts of an address are those  *)
(* of one position.                                                        *)
LEMMA PairsOfAddresses ==
  ASSUME self \in Results, other \in Results, SameAddresses
  PROVE  /\ DOMAIN self.accounts = DOMAIN other.accounts
         /\ Keys(self) = Keys(other)
         /\ \A i \in DOMAIN self.accounts :
              /\ Present(self, self.accounts[i].key) /\ Present(other, self.accounts[i].key)
              /\ Found(self, self.accounts[i].key) = self.accounts[i].account
              /\ Found(other, self.accounts[i].key) = other.accounts[i].account
<1>1. /\ Len(self.accounts) \in Nat /\ DOMAIN self.accounts = 1..Len(self.accounts)
      /\ Len(other.accounts) \in Nat /\ DOMAIN other.accounts = 1..Len(other.accounts)
  BY AccountFacts
<1>2. Len(self.accounts) = Len(other.accounts)
  BY DEF SameAddresses
<1>3. \A i, j \in 1..Len(self.accounts) : self.accounts[i].key = other.accounts[j].key <=> i = j
  BY <1>1 DEF SameAddresses
<1>4. Keys(self) = Keys(other)
  BY <1>1, <1>2, <1>3 DEF Keys
<1>5. ASSUME NEW i \in 1..Len(self.accounts)
      PROVE  /\ Present(self, self.accounts[i].key) /\ Present(other, self.accounts[i].key)
             /\ Found(self, self.accounts[i].key) = self.accounts[i].account
             /\ Found(other, self.accounts[i].key) = other.accounts[i].account
  <2> DEFINE k == self.accounts[i].key
  <2>1. Present(self, k)
    BY <1>1 DEF Present
  <2>2. Present(other, k)
    BY <1>1, <1>2, <1>3 DEF Present
  <2>3. other.accounts[i].key = k
    BY <1>3
  <2> HIDE DEF k
  <2>4. PICK m \in 1..Len(self.accounts) :
          self.accounts[m].key = k /\ Found(self, k) = self.accounts[m].account
    BY <2>1, FoundIsFirst
  <2>5. PICK n \in 1..Len(other.accounts) :
          other.accounts[n].key = k /\ Found(other, k) = other.accounts[n].account
    BY <2>2, FoundIsFirst
  <2>6. m = i
    BY <1>3, <2>3, <2>4
  <2>7. n = i
    BY <1>2, <1>3, <2>5 DEF k
  <2> QED BY <2>1, <2>2, <2>4, <2>5, <2>6, <2>7 DEF k
<1> QED BY <1>1, <1>2, <1>4, <1>5

(* Of such results a comparison agrees if and only if it finds nothing.    *)
LEMMA ComparisonDecided ==
  ASSUME self \in Results, other \in Results, SameAddresses, NEW c, IsCompare(c)
  PROVE  Agrees(c) <=> ~Unequal(c) /\ ~DifferentAccounts(c)
<1> DEFINE Same(i) == \A name \in c.fields :
                        Field(self.accounts[i].account, name) = Field(other.accounts[i].account, name)
<1>1. /\ DOMAIN self.accounts = DOMAIN other.accounts /\ Keys(self) = Keys(other)
      /\ \A i \in DOMAIN self.accounts : AgreeOn(self.accounts[i].key, c.fields) <=> Same(i)
  BY PairsOfAddresses DEF AgreeOn
<1>2. Len(self.accounts) = Len(other.accounts)
  BY DEF SameAddresses
<1>3. DifferentAccounts(c)
        <=> /\ c.type \in {"all", "only", "except"}
            /\ \E i \in DOMAIN self.accounts : self.accounts[i].key \in Compared(c) /\ ~Same(i)
  BY <1>1 DEF DifferentAccounts, ResultingAccountsDiffer
<1> HIDE DEF Same
<1>4. CASE c.type = "all"
  <2>1. Compared(c) = Keys(self) /\ ~Unequal(c)
    BY <1>2, <1>4 DEF Compared, Unequal
  <2>2. Agrees(c) <=> \A k \in Keys(self) : AgreeOn(k, c.fields)
    BY <1>1, <1>4 DEF Agrees
  <2> QED BY <1>1, <1>3, <1>4, <2>1, <2>2 DEF Keys
<1>5. CASE c.type = "only"
  <2>1. Compared(c) = c.keys /\ ~Unequal(c)
    BY <1>5 DEF Compared, Unequal
  <2>2. Agrees(c) <=> \A k \in c.keys \cap Keys(self) : AgreeOn(k, c.fields)
    BY <1>1, <1>5 DEF Agrees
  <2> QED BY <1>1, <1>3, <1>5, <2>1, <2>2 DEF Keys
<1>6. CASE c.type = "except"
  <2>1. Compared(c) = Keys(self) \ c.keys /\ ~Unequal(c)
    BY <1>6 DEF Compared, Unequal
  <2>2. Agrees(c) <=> \A k \in Keys(self) \ c.keys : AgreeOn(k, c.fields)
    BY <1>1, <1>6 DEF Agrees
  <2> QED BY <1>1, <1>3, <1>6, <2>1, <2>2 DEF Keys
<1>7. CASE c.type \notin {"all", "only", "except"}
  BY <1>3, <1>7 DEF Agrees, Unequal
<1> QED BY <1>4, <1>5, <1>6, <1>7

-----------------------------------------------------------------------------
(* The invariant.                                                          *)

LEMMA InitVInv == Init => VInv
BY DEF Init, VInv, ResultsTyped, VerdictKept, Over

(* compare() asks for four comparisons.                                    *)
LEMMA EverythingIsAList ==
  IsList(Everything) /\ \A i \in DOMAIN Everything : IsCompare(Everything[i])
<1>1. Len(Everything) = 4 /\ DOMAIN Everything = 1..4
  BY DEF Everything
<1>2. ASSUME NEW i \in 1..4 PROVE IsCompare(Everything[i])
  <2>1. i = 1 \/ i = 2 \/ i = 3 \/ i = 4
    OBVIOUS
  <2>2. CASE i = 4
    BY <2>2 DEF Everything, IsCompare
  <2>3. CASE i # 4
    BY <2>1, <2>3 DEF Everything, IsCompare
  <2> QED BY <2>2, <2>3
<1> QED BY <1>1, <1>2 DEF IsList

(* A call begins with an empty prefix.                                     *)
LEMMA StartKeeps ==
  ASSUME NEW what, NEW where, NEW a \in Results, NEW b \in Results, NEW l, NEW p \in BOOLEAN,
         \/ what = "check" /\ where = "checking" /\ \A i \in DOMAIN l : IsCheck(l[i])
         \/ what = "compare" /\ where = "comparing" /\ \A i \in DOMAIN l : IsCompare(l[i]),
         IsList(l), Start(what, where, a, b, l, p)
  PROVE  VInv'
<1>1. ResultsTyped'
  BY DEF Start, ResultsTyped
<1>2. pc' \in {"checking", "comparing"} /\ ~Over' /\ at' = 1 /\ pass' = TRUE /\ list' = l
  BY DEF Start, Over
<1>3. Len(l) \in Nat
  BY DEF IsList
<1>4. /\ at' <= Len(list') + 1 /\ 1..(at' - 1) = {}
      /\ pass' /\ ~Over'
  BY <1>2, <1>3
<1>5. VerdictKept'
  BY <1>4 DEF VerdictKept
<1> QED BY <1>1, <1>5 DEF VInv

(* One item of the loop, whatever it is.                                   *)
LEMMA ItemKeeps ==
  ASSUME VInv, NEW mismatch \in BOOLEAN, NEW thrown \in BOOLEAN, Item(mismatch, thrown),
         pc \in {"checking", "comparing"}, Passed(list[at]) <=> ~mismatch /\ ~thrown
  PROVE  VInv'
<1>1. /\ at \in 1..Len(list) /\ Len(list) \in Nat /\ DOMAIN list = 1..Len(list)
      /\ pass <=> \A i \in 1..(at - 1) : Passed(list[i])
      /\ panic => pass
      /\ panic \in BOOLEAN /\ pass \in BOOLEAN
  BY DEF VInv, VerdictKept, ResultsTyped, IsList, Item
<1>2. UNCHANGED <<task, self, other, list, panic>>
  BY DEF Item
<1>3. \A i \in 1..Len(list) : (Passed(list[i]))' <=> Passed(list[i])
  BY <1>2 DEF Passed, Mismatch, Thrown, Unequal, DifferentAccounts, ResultingAccountsDiffer,
              Compared
<1>4. ResultsTyped'
  <2>1. pc' \in {pc, "returned", "panicked"} /\ at' \in {at, at + 1} /\ pass' \in BOOLEAN
    BY <1>1 DEF Item
  <2> QED BY <1>2, <2>1 DEF VInv, ResultsTyped
<1>5. CASE ~mismatch /\ ~(thrown /\ panic)
  <2>1. pc' = pc /\ at' = at + 1 /\ pass' = (pass /\ ~mismatch /\ ~thrown)
    BY <1>1, <1>5 DEF Item
  <2>2. \A i \in 1..at : i \in 1..(at - 1) \/ i = at
    BY <1>1
  <2>3. pass' <=> \A i \in 1..at : Passed(list[i])
    <3>1. pass' <=> pass /\ Passed(list[at])
      BY <1>1, <2>1
    <3>2. at \in 1..at /\ 1..(at - 1) \subseteq 1..at
      BY <1>1
    <3> QED BY <1>1, <2>2, <3>1, <3>2, Zenon
  <2>4. (at + 1) - 1 = at /\ at + 1 <= Len(list) + 1
    BY <1>1
  <2>5. pass' <=> \A i \in 1..(at' - 1) : (Passed(list[i]))'
    BY <1>1, <1>3, <2>1, <2>3, <2>4
  <2>6. pc' \notin {"returned", "panicked"}
    BY <2>1
  <2>7. panic' => pass'
    BY <1>1, <1>2, <1>5, <2>1
  <2>8. at' <= Len(list') + 1
    BY <1>2, <2>1, <2>4
  <2> QED BY <1>2, <1>4, <2>5, <2>6, <2>7, <2>8 DEF VInv, VerdictKept, Over
<1>6. CASE mismatch \/ (thrown /\ panic)
  <2>1. /\ pc' = IF panic THEN "panicked" ELSE "returned"
        /\ pass' = FALSE
    BY <1>1, <1>6 DEF Item
  <2>2. ~(\A i \in DOMAIN list : (Passed(list[i]))')
    BY <1>1, <1>3, <1>6
  <2>3. Over' => (Says(\A i \in DOMAIN list : Passed(list[i])))'
    BY <1>2, <2>1, <2>2 DEF Says
  <2>4. pc' \notin {"checking", "comparing"}
    BY <2>1
  <2> QED BY <1>4, <2>3, <2>4 DEF VInv, VerdictKept
<1> QED BY <1>5, <1>6

LEMMA EndOfListKeeps == VInv /\ EndOfList => VInv'
<1> SUFFICES ASSUME VInv, EndOfList PROVE VInv'
  OBVIOUS
<1>1. /\ at = Len(list) + 1 /\ Len(list) \in Nat /\ DOMAIN list = 1..Len(list) /\ at - 1 = Len(list)
      /\ pass <=> \A i \in 1..(at - 1) : Passed(list[i])
      /\ panic => pass
      /\ panic \in BOOLEAN /\ pass \in BOOLEAN
  BY DEF VInv, VerdictKept, ResultsTyped, IsList, EndOfList
<1>2. pc' = "returned" /\ UNCHANGED <<task, self, other, list, panic, at, pass>>
  BY DEF EndOfList
<1>3. \A i \in 1..Len(list) : (Passed(list[i]))' <=> Passed(list[i])
  BY <1>2 DEF Passed, Mismatch, Thrown, Unequal, DifferentAccounts, ResultingAccountsDiffer,
              Compared
<1>4. ResultsTyped'
  BY <1>1, <1>2 DEF VInv, ResultsTyped, EndOfList
<1>5. pass' <=> (\A i \in DOMAIN list : Passed(list[i]))'
  BY <1>1, <1>2, <1>3
<1>6. (Says(\A i \in DOMAIN list : Passed(list[i])))'
  BY <1>1, <1>2, <1>5 DEF Says
<1> QED BY <1>2, <1>4, <1>6 DEF VInv, VerdictKept

LEMMA ForgetKeeps == VInv /\ Forget => VInv'
BY DEF VInv, ResultsTyped, VerdictKept, Forget, Over

LEMMA NextKeeps == VInv /\ [Next]_vars => VInv'
<1> SUFFICES ASSUME VInv, [Next]_vars PROVE VInv'
  OBVIOUS
<1>1. ASSUME NEW a \in Results, NEW checks \in CheckLists, NEW p \in BOOLEAN, RunChecks(a, checks, p)
      PROVE  VInv'
  BY <1>1, CheckListsAssumption, StartKeeps DEF RunChecks
<1>2. ASSUME NEW a \in Results, NEW b \in Results, NEW checks \in CompareLists, NEW p \in BOOLEAN,
             CompareWithConfig(a, b, checks, p)
      PROVE  VInv'
  BY <1>2, CompareListsAssumption, StartKeeps DEF CompareWithConfig
<1>3. ASSUME NEW a \in Results, NEW b \in Results, CompareAll(a, b) PROVE VInv'
  BY <1>3, EverythingIsAList, StartKeeps DEF CompareAll, CompareWithConfig
<1>4. CASE CheckOne
  <2>1. task = "check" /\ pc = "checking"
    BY <1>4 DEF CheckOne, VInv, ResultsTyped
  <2> DEFINE mismatch == Mismatch(list[at])
             thrown == Thrown(list[at])
  <2>2. mismatch \in BOOLEAN /\ thrown \in BOOLEAN
    BY DEF Mismatch, Thrown
  <2>3. Passed(list[at]) <=> ~mismatch /\ ~thrown
    BY <2>1 DEF Passed
  <2>4. Item(mismatch, thrown)
    BY <1>4 DEF CheckOne
  <2> HIDE DEF mismatch, thrown
  <2> QED BY <2>1, <2>2, <2>3, <2>4, ItemKeeps
<1>5. CASE CompareOne
  <2>1. task = "compare" /\ pc = "comparing"
    BY <1>5 DEF CompareOne, VInv, ResultsTyped
  <2> DEFINE mismatch == Unequal(list[at])
             thrown == DifferentAccounts(list[at])
  <2>2. mismatch \in BOOLEAN /\ thrown \in BOOLEAN
    BY DEF Unequal, DifferentAccounts
  <2>3. Passed(list[at]) <=> ~mismatch /\ ~thrown
    BY <2>1 DEF Passed
  <2>4. Item(mismatch, thrown)
    BY <1>5 DEF CompareOne
  <2> HIDE DEF mismatch, thrown
  <2> QED BY <2>1, <2>2, <2>3, <2>4, ItemKeeps
<1>6. CASE EndOfList
  BY <1>6, EndOfListKeeps
<1>7. CASE Forget
  BY <1>7, ForgetKeeps
<1>8. CASE UNCHANGED vars
  <2>1. \A c : (Passed(c))' <=> Passed(c)
    BY <1>8 DEF vars, Passed, Mismatch, Thrown, Unequal, DifferentAccounts,
                ResultingAccountsDiffer, Compared
  <2> QED BY <1>8, <2>1 DEF vars, VInv, ResultsTyped, VerdictKept, Over, Says
<1> QED BY <1>1, <1>2, <1>3, <1>4, <1>5, <1>6, <1>7, <1>8 DEF Next

(* At every moment of run_checks and compare_with_config, `pass` is the    *)
(* verdict on the items looked at, and at the end on the whole list,       *)
(* also when the loop was left at a mismatch with items to go.             *)
THEOREM ResultsInvariance == Spec => []VInv
BY InitVInv, NextKeeps, PTL DEF Spec

(* run_checks: TRUE if and only if every check of the list holds, a panic  *)
(* or FALSE by config.panic otherwise, for any result and any checks.      *)
THEOREM ChecksDecision == Spec => []ChecksDecide
<1>1. VInv => ChecksDecide
  <2> SUFFICES ASSUME VInv, Over, task = "check"
               PROVE  Says(\A i \in DOMAIN list : Holds(list[i]))
    BY DEF ChecksDecide
  <2>1. self \in Results /\ \A i \in DOMAIN list : IsCheck(list[i])
    BY DEF VInv, ResultsTyped, Over
  <2>2. \A i \in DOMAIN list : Holds(list[i]) <=> Passed(list[i])
    BY <2>1, CheckDecided DEF Passed
  <2>3. (\A i \in DOMAIN list : Holds(list[i])) <=> \A i \in DOMAIN list : Passed(list[i])
    BY <2>2
  <2> QED BY <2>3 DEF VInv, VerdictKept, Says
<1> QED BY <1>1, ResultsInvariance, PTL

(* compare_with_config and compare, for any results of the same addresses: *)
(* TRUE if and only if the results agree in everything compared.           *)
THEOREM ComparisonDecision == Spec => []ComparisonDecides
<1>1. VInv => ComparisonDecides
  <2> SUFFICES ASSUME VInv, Over, task = "compare", SameAddresses
               PROVE  Says(\A i \in DOMAIN list : Agrees(list[i]))
    BY DEF ComparisonDecides
  <2>1. self \in Results /\ other \in Results /\ \A i \in DOMAIN list : IsCompare(list[i])
    BY DEF VInv, ResultsTyped, Over
  <2>2. \A i \in DOMAIN list : Agrees(list[i]) <=> Passed(list[i])
    BY <2>1, ComparisonDecided DEF Passed
  <2>3. (\A i \in DOMAIN list : Agrees(list[i])) <=> \A i \in DOMAIN list : Passed(list[i])
    BY <2>2
  <2> QED BY <2>3 DEF VInv, VerdictKept, Says
<1> QED BY <1>1, ResultsInvariance, PTL
=============================================================================
