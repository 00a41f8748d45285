---------------------------- MODULE BencherProofs ----------------------------
(***************************************************************************)
(* Proofs about Bencher, for any benches, programs, builds and files: the  *)
(* tables of both files say what was measured, a table is written only if  *)
(* something has changed, and not at all after a failure that must not be. *)
(***************************************************************************)
EXTENDS Bencher, SumProofs

-----------------------------------------------------------------------------
(* The inductive invariant.                                                *)

ReportTable == Seq(Row)
MatrixTable == [header : Seq(Name), rows : Seq([name : Name, cells : Seq(Nat)])]

BencherTyped ==
  /\ outcome \in Outcomes
  /\ cache \in [ProgramId -> Image] /\ lent \in [ProgramId -> Image]
  /\ deployed \in [ProgramId -> Image \cup {Untouched}]
  /\ kind \in {"units", "matrix"} /\ pc \in {"idle", "ready", "column", "bench"}
  /\ benches \in Seq(Bench) /\ programs \in Seq(Program) /\ must_pass \in BOOLEAN
  /\ todo \in Seq(Bench) /\ results \in Seq(BenchResult)
  /\ mx_results \in Seq(MatrixResult) /\ failures \in Nat
  /\ executed \in Seq(BenchResult)
  /\ file \in Seq(ReportTable) /\ mx_file \in Seq(MatrixTable)

(* No failure is counted where all must pass, or between executions.       *)
FailuresAbort ==
  /\ must_pass => failures = 0
  /\ pc \in {"idle", "ready"} => failures = 0

(* What a bench takes in the c-th column, and what this says of its result. *)
Cell(bench, c) ==
  outcome[bench.ix][[id \in Reaches[bench.ix] |-> AtColumn(c)[id]]].cus

CellIs(result, bench, c) == Settled(benches) => result.cus_consumed = Cell(bench, c)

(* A matrix changes the borrowed Mollusk at one address alone, unless its  *)
(* benches deploy or close programs.                                       *)
Borrowed ==
  Settled(benches) =>
    \A id \in ProgramId :
      \/ Find(id) = lent[id]
      \/ benches # <<>> /\ id = Target[Head(benches).ix] /\ deployed[id] = Untouched

(* A column has the benches that have run, in order, and those still to    *)
(* run, with its program under the id of the first one; and the columns    *)
(* before it are complete.                                                 *)
MatrixKept ==
  kind = "matrix" =>
    /\ Borrowed
    /\ pc \in {"column", "bench"} =>
         /\ Len(mx_results) <= Len(programs)
         /\ \A c \in 1..Len(mx_results) :
              /\ mx_results[c].program_name = programs[c]
              /\ Len(mx_results[c].results) = Len(benches)
              /\ \A row \in 1..Len(benches) :
                   CellIs(mx_results[c].results[row], benches[row], c)
    /\ pc = "bench" =>
         /\ Len(mx_results) < Len(programs)
         /\ benches # <<>> =>
              cache[Target[Head(benches).ix]] = programs[Len(mx_results) + 1]
         /\ Len(results) + Len(todo) = Len(benches)
         /\ \A j \in 1..Len(todo) : todo[j] = benches[Len(results) + j]
         /\ \A row \in 1..Len(results) :
              CellIs(results[row], benches[row], Len(mx_results) + 1)

ColumnsOfMatrix == pc = "column" => kind = "matrix"

BInv ==
  BencherTyped /\ FailuresAbort /\ MatrixKept /\ ColumnsOfMatrix /\ LedgerTrue

-----------------------------------------------------------------------------
(* Lemmas on the operators of Reports.                                     *)

(* find looks for the first row of a name.                                 *)
LEMMA FirstOfFinds ==
  ASSUME NEW previous, Len(previous) \in Nat, NEW name
  PROVE  LET i == FirstOf(previous, name) IN
         \/ /\ i \in 1..Len(previous) /\ previous[i].name = name
            /\ \A j \in 1..Len(previous) : previous[j].name = name => i <= j
         \/ i = 0 /\ \A j \in 1..Len(previous) : previous[j].name # name
<1> DEFINE I == {j \in 1..Len(previous) : previous[j].name = name}
<1>1. FirstOf(previous, name) = IF I # {} THEN Min(I) ELSE 0
  BY DEF FirstOf, SelectInSeq
<1>2. CASE I = {}
  BY <1>1, <1>2
<1>3. CASE I # {}
  <2>1. I \in SUBSET Nat
    OBVIOUS
  <2> HIDE DEF I
  <2>2. \E m \in I : \A j \in I : m <= j
    BY <1>3, <2>1, SmallestElement
  <2>3. Min(I) \in I /\ \A j \in I : Min(I) <= j
    BY <2>2 DEF Min
  <2>4. FirstOf(previous, name) \in I /\ \A j \in I : FirstOf(previous, name) <= j
    BY <1>1, <1>3, <2>3
  <2> QED BY <2>4 DEF I
<1> QED BY <1>2, <1>3

(* The newest table, read back.                                            *)
LEMMA ParsedTable ==
  ASSUME NEW ledger \in Seq(ReportTable)
  PROVE  LET previous == parse_last_md_table(ledger) IN
         /\ previous \in Seq(BenchResult) /\ Len(previous) \in Nat
         /\ ledger = <<>> => Len(previous) = 0
         /\ ledger # <<>> =>
              /\ Len(previous) = Len(Head(ledger)) /\ DOMAIN Head(ledger) = 1..Len(previous)
              /\ \A i \in 1..Len(previous) :
                   /\ Head(ledger)[i] \in Row
                   /\ previous[i].name = Trimmed[Head(ledger)[i].name]
                   /\ previous[i].cus_consumed = UnitsRead(Head(ledger)[i])
<1> DEFINE previous == parse_last_md_table(ledger)
           table == Head(ledger)
<1>1. CASE ledger = <<>>
  <2>1. previous = <<>>
    BY <1>1 DEF parse_last_md_table
  <2>2. <<>> \in Seq(BenchResult) /\ Len(<<>>) = 0
    OBVIOUS
  <2> QED BY <1>1, <2>1, <2>2
<1>2. CASE ledger # <<>>
  <2>1. table \in Seq(Row)
    <3> DEFINE T == ReportTable
    <3>1. ledger \in Seq(T)
      OBVIOUS
    <3> HIDE DEF T
    <3>2. table \in T
      BY <1>2, <3>1
    <3> QED BY <3>2 DEF T, ReportTable
  <2>2. previous = [i \in DOMAIN table |-> Result(Trimmed[table[i].name], UnitsRead(table[i]))]
    BY <1>2 DEF parse_last_md_table
  <2> HIDE DEF previous, table
  <2>3. Len(table) \in Nat /\ DOMAIN table = 1..Len(table) /\ \A i \in 1..Len(table) : table[i] \in Row
    <3> DEFINE R == Row
    <3>1. table \in Seq(R)
      BY <2>1
    <3> HIDE DEF R
    <3>2. Len(table) \in Nat /\ DOMAIN table = 1..Len(table) /\ \A i \in 1..Len(table) : table[i] \in R
      BY <3>1
    <3> QED BY <3>2 DEF R
  <2>4. \A i \in 1..Len(table) :
          /\ previous[i].name = Trimmed[table[i].name]
          /\ previous[i].cus_consumed = UnitsRead(table[i])
    BY <2>2, <2>3 DEF Result
  <2>5. previous \in [1..Len(table) -> BenchResult]
    <3>1. \A i \in 1..Len(table) : UnitsRead(table[i]) \in Nat
      BY <2>3, NamesAssumption DEF UnitsRead, Row
    <3>2. \A i \in 1..Len(table) : Trimmed[table[i].name] \in Name
      BY <2>3, NamesAssumption DEF Row
    <3> QED BY <2>2, <2>3, <3>1, <3>2 DEF Result, BenchResult
  <2>6. previous \in Seq(BenchResult) /\ Len(previous) = Len(table)
    <3> DEFINE R == BenchResult
    <3>1. previous \in [1..Len(table) -> R]
      BY <2>5
    <3> HIDE DEF R
    <3>2. previous \in Seq(R) /\ Len(previous) = Len(table)
      BY <2>3, <3>1
    <3> QED BY <3>2 DEF R
  <2> QED BY <1>2, <2>3, <2>4, <2>6 DEF previous, table
<1> QED BY <1>1, <1>2

(* A new table: a row per result, with its delta.                          *)
LEMMA TableOfResults ==
  ASSUME NEW previous \in Seq(BenchResult), NEW measured \in Seq(BenchResult)
  PROVE  LET table == Table(previous, measured) IN
         /\ table \in ReportTable
         /\ Len(measured) \in Nat /\ Len(table) = Len(measured)
         /\ DOMAIN table = 1..Len(measured) /\ DOMAIN measured = 1..Len(measured)
         /\ \A i \in 1..Len(measured) :
              /\ measured[i] \in BenchResult
              /\ table[i].name = measured[i].name
              /\ table[i].cus_consumed = measured[i].cus_consumed
              /\ table[i].delta = Delta(previous, measured[i])
<1> DEFINE table == Table(previous, measured)
           n == Len(measured)
<1>1. n \in Nat /\ DOMAIN measured = 1..n /\ \A i \in 1..n : measured[i] \in BenchResult
  <2> DEFINE R == BenchResult
  <2>1. measured \in Seq(R)
    OBVIOUS
  <2> HIDE DEF R
  <2>2. n \in Nat /\ DOMAIN measured = 1..n /\ \A i \in 1..n : measured[i] \in R
    BY <2>1
  <2> QED BY <2>2 DEF R
<1>2. Len(previous) \in Nat /\ \A i \in 1..Len(previous) : previous[i] \in BenchResult
  <2> DEFINE R == BenchResult
  <2>1. previous \in Seq(R)
    OBVIOUS
  <2> HIDE DEF R
  <2>2. Len(previous) \in Nat /\ \A i \in 1..Len(previous) : previous[i] \in R
    BY <2>1
  <2> QED BY <2>2 DEF R
<1> HIDE DEF n
<1>3. table = [i \in 1..n |-> [name |-> measured[i].name, cus_consumed |-> measured[i].cus_consumed,
                               delta |-> Delta(previous, measured[i])]]
  BY <1>1 DEF Table
<1> HIDE DEF table
<1>4. \A i \in 1..n : Delta(previous, measured[i]) \in Int \cup {New}
  <2> SUFFICES ASSUME NEW i \in 1..n PROVE Delta(previous, measured[i]) \in Int \cup {New}
    OBVIOUS
  <2> DEFINE at == FirstOf(previous, measured[i].name)
  <2>1. at = 0 \/ at \in 1..Len(previous)
    BY <1>2, FirstOfFinds
  <2>2. Delta(previous, measured[i]) = IF at = 0 THEN New
                                       ELSE measured[i].cus_consumed - previous[at].cus_consumed
    BY DEF Delta
  <2> HIDE DEF at
  <2>3. at # 0 => measured[i].cus_consumed - previous[at].cus_consumed \in Int
    BY <1>1, <1>2, <2>1 DEF BenchResult
  <2> QED BY <2>2, <2>3
<1>5. table \in [1..n -> Row]
  BY <1>1, <1>3, <1>4 DEF Row, BenchResult
<1>6. table \in ReportTable /\ Len(table) = n
  <2> DEFINE R == Row
  <2>1. table \in [1..n -> R]
    BY <1>5
  <2> HIDE DEF R
  <2>2. table \in Seq(R) /\ Len(table) = n
    BY <1>1, <2>1
  <2> QED BY <2>2 DEF R, ReportTable
<1> QED BY <1>1, <1>3, <1>6 DEF n, table

-----------------------------------------------------------------------------
(* The two halves of LedgerTrue, for any file.                             *)
Recorded(ledger, done) ==
  Plain(done) /\ (ledger # <<>> => Legible(Head(ledger))) =>
    \A i \in DOMAIN done :
      /\ ledger # <<>>
      /\ \E row \in RowOf(Head(ledger), done[i].name) :
           Head(ledger)[row].cus_consumed = done[i].cus_consumed

RowTrue(row, below) ==
  IF row.delta = New THEN RowOf(below, row.name) = {}
  ELSE Legible(below) =>
         \E j \in RowOf(below, row.name) : row.cus_consumed = below[j].cus_consumed + row.delta

DeltasTrue(ledger) ==
  \A t \in DOMAIN ledger : \A i \in DOMAIN ledger[t] :
    RowTrue(ledger[t][i], IF t < Len(ledger) THEN ledger[t + 1] ELSE <<>>)

LEMMA LedgerHalves == LedgerTrue <=> Recorded(file, executed) /\ DeltasTrue(file)
BY DEF LedgerTrue, Recorded, DeltasTrue, RowTrue

(* A row of the new table: New, if the newest table lacks its name, else   *)
(* the difference to the units read in the first row of its name there.    *)
LEMMA DeltaFacts ==
  ASSUME NEW ledger \in Seq(ReportTable), NEW result \in BenchResult
  PROVE  LET below == IF ledger = <<>> THEN <<>> ELSE Head(ledger)
             delta == Delta(parse_last_md_table(ledger), result)
             rows == RowOf(below, result.name) IN
         \/ delta = New /\ rows = {}
         \/ /\ ledger # <<>> /\ delta \in Int /\ delta # New
            /\ \E j \in rows :
                 /\ \A other \in rows : j <= other
                 /\ UnitsRead(below[j]) \in Nat
                 /\ result.cus_consumed = UnitsRead(below[j]) + delta
                 /\ Legible(below) => UnitsRead(below[j]) = below[j].cus_consumed
<1> DEFINE below == IF ledger = <<>> THEN <<>> ELSE Head(ledger)
           previous == parse_last_md_table(ledger)
           delta == Delta(previous, result)
           rows == RowOf(below, result.name)
           at == FirstOf(previous, result.name)
<1>1. /\ Len(previous) \in Nat
      /\ ledger = <<>> => Len(previous) = 0
      /\ ledger # <<>> =>
           /\ Len(previous) = Len(Head(ledger)) /\ DOMAIN Head(ledger) = 1..Len(previous)
           /\ \A i \in 1..Len(previous) :
                /\ Head(ledger)[i] \in Row
                /\ previous[i].name = Trimmed[Head(ledger)[i].name]
                /\ previous[i].cus_consumed = UnitsRead(Head(ledger)[i])
  BY ParsedTable
<1> HIDE DEF previous
<1>2. DOMAIN below = 1..Len(previous)
  BY <1>1
<1>3. \A i \in 1..Len(previous) :
        /\ below[i] \in Row /\ previous[i].name = Trimmed[below[i].name]
        /\ previous[i].cus_consumed = UnitsRead(below[i])
  BY <1>1
<1> HIDE DEF below
<1>4. rows = {i \in 1..Len(previous) : previous[i].name = result.name}
  BY <1>2, <1>3 DEF RowOf
<1>5. delta = IF at = 0 THEN New ELSE result.cus_consumed - previous[at].cus_consumed
  BY DEF Delta
<1>6. \/ /\ at \in 1..Len(previous) /\ previous[at].name = result.name
         /\ \A j \in 1..Len(previous) : previous[j].name = result.name => at <= j
      \/ at = 0 /\ \A j \in 1..Len(previous) : previous[j].name # result.name
  BY <1>1, FirstOfFinds
<1> HIDE DEF rows, delta, at
<1>7. CASE at = 0
  BY <1>1, <1>4, <1>5, <1>6, <1>7 DEF rows, delta, below, previous
<1>8. CASE at # 0
  <2>1. at \in rows /\ \A other \in rows : at <= other
    BY <1>4, <1>6, <1>8
  <2>2. UnitsRead(below[at]) \in Nat /\ previous[at].cus_consumed = UnitsRead(below[at])
    BY <1>3, <1>6, <1>8, NamesAssumption DEF Row, UnitsRead
  <2>6. Legible(below) => UnitsRead(below[at]) = below[at].cus_consumed
    BY <1>2, <1>6, <1>8 DEF Legible, UnitsRead
  <2>3. result.cus_consumed \in Nat
    BY DEF BenchResult
  <2>4. delta \in Int /\ delta # New /\ result.cus_consumed = UnitsRead(below[at]) + delta
    <3>1. delta = result.cus_consumed - UnitsRead(below[at])
      BY <1>5, <1>8, <2>2
    <3>2. delta \in Int /\ result.cus_consumed = UnitsRead(below[at]) + delta
      BY <2>2, <2>3, <3>1
    <3> QED BY <3>2, NamesAssumption
  <2>5. ledger # <<>>
    BY <1>1, <1>6, <1>8
  <2> QED BY <2>1, <2>2, <2>4, <2>5, <2>6 DEF rows, delta, below, previous
<1> QED BY <1>7, <1>8

(* The file after an execution: it records what was measured, its deltas   *)
(* are true, and a new table has a reason.                                 *)
LEMMA ResultsWritten ==
  ASSUME NEW ledger \in Seq(ReportTable), NEW measured \in Seq(BenchResult), DeltasTrue(ledger)
  PROVE  LET new == write_results(ledger, measured) IN
         /\ new \in Seq(ReportTable) /\ DeltasTrue(new) /\ Recorded(new, measured)
         /\ new # ledger /\ ledger # <<>> /\ Legible(Head(ledger)) =>
              \E i \in DOMAIN measured :
                LET rows == RowOf(Head(ledger), measured[i].name)
                IN  \A row \in rows : (\A other \in rows : row <= other) =>
                      Head(ledger)[row].cus_consumed # measured[i].cus_consumed
<1> DEFINE new == write_results(ledger, measured)
           previous == parse_last_md_table(ledger)
           table == Table(previous, measured)
           below == IF ledger = <<>> THEN <<>> ELSE Head(ledger)
           n == Len(measured)
<1>1. previous \in Seq(BenchResult)
  BY ParsedTable
<1>2. /\ table \in ReportTable /\ n \in Nat /\ Len(table) = n
      /\ DOMAIN table = 1..n /\ DOMAIN measured = 1..n
      /\ \A i \in 1..n :
           /\ measured[i] \in BenchResult
           /\ table[i].name = measured[i].name
           /\ table[i].cus_consumed = measured[i].cus_consumed
           /\ table[i].delta = Delta(previous, measured[i])
  BY <1>1, TableOfResults
<1>3. new = IF Changed(table) THEN Prepended(ledger, table) ELSE ledger
  BY DEF write_results
<1>4. \A i \in 1..n :
        LET rows == RowOf(below, measured[i].name) IN
        \/ table[i].delta = New /\ rows = {}
        \/ /\ ledger # <<>> /\ table[i].delta \in Int /\ table[i].delta # New
           /\ \E j \in rows :
                /\ \A other \in rows : j <= other
                /\ UnitsRead(below[j]) \in Nat
                /\ measured[i].cus_consumed = UnitsRead(below[j]) + table[i].delta
                /\ Legible(below) => UnitsRead(below[j]) = below[j].cus_consumed
  <2> SUFFICES ASSUME NEW i \in 1..n
               PROVE  LET rows == RowOf(below, measured[i].name) IN
                      \/ table[i].delta = New /\ rows = {}
                      \/ /\ ledger # <<>> /\ table[i].delta \in Int /\ table[i].delta # New
                         /\ \E j \in rows :
                              /\ \A other \in rows : j <= other
                              /\ UnitsRead(below[j]) \in Nat
                              /\ measured[i].cus_consumed = UnitsRead(below[j]) + table[i].delta
                              /\ Legible(below) => UnitsRead(below[j]) = below[j].cus_consumed
    OBVIOUS
  <2>1. measured[i] \in BenchResult /\ table[i].delta = Delta(previous, measured[i])
    BY <1>2
  <2> QED BY <2>1, DeltaFacts, ZenonT(30)
<1> HIDE DEF previous, table, n, new
<1>5. CASE Changed(table)
  <2>1. new = <<table>> \o ledger
    BY <1>3, <1>5 DEF Prepended
  <2> DEFINE T == ReportTable
  <2>2. table \in T /\ ledger \in Seq(T)
    BY <1>2
  <2> HIDE DEF T
  <2>3. /\ new \in Seq(T) /\ Len(ledger) \in Nat /\ Len(new) = Len(ledger) + 1
        /\ new # <<>> /\ Head(new) = table /\ new[1] = table
        /\ DOMAIN new = 1..(Len(ledger) + 1) /\ DOMAIN ledger = 1..Len(ledger)
        /\ \A t \in 2..Len(new) : new[t] = ledger[t - 1]
        /\ (ledger = <<>> <=> Len(ledger) = 0) /\ (ledger # <<>> => Head(ledger) = ledger[1])
    BY <2>1, <2>2
  <2>4. DeltasTrue(new)
    <3> SUFFICES ASSUME NEW t \in 1..(Len(ledger) + 1), NEW i \in DOMAIN new[t]
                 PROVE  RowTrue(new[t][i], IF t < Len(new) THEN new[t + 1] ELSE <<>>)
      BY <2>3 DEF DeltasTrue
    <3>1. CASE t = 1
      <4>1. (IF t < Len(new) THEN new[t + 1] ELSE <<>>) = below
        BY <2>3, <3>1
      <4>2. i \in 1..n /\ new[t][i] = table[i]
        BY <1>2, <2>3, <3>1
      <4> HIDE DEF below
      <4>3. RowTrue(table[i], below)
        <5>1. measured[i].name = table[i].name /\ measured[i].cus_consumed = table[i].cus_consumed
          BY <1>2, <4>2
        <5>2. CASE table[i].delta = New /\ RowOf(below, measured[i].name) = {}
          BY <5>1, <5>2 DEF RowTrue
        <5>3. CASE table[i].delta # New
          <6>1. PICK j \in RowOf(below, measured[i].name) :
                  /\ measured[i].cus_consumed = UnitsRead(below[j]) + table[i].delta
                  /\ Legible(below) => UnitsRead(below[j]) = below[j].cus_consumed
            BY <1>4, <4>2, <5>3
          <6>2. Legible(below) => table[i].cus_consumed = below[j].cus_consumed + table[i].delta
            BY <5>1, <6>1
          <6> QED BY <5>1, <5>3, <6>2 DEF RowTrue
        <5> QED BY <1>4, <4>2, <5>2, <5>3
      <4> QED BY <4>1, <4>2, <4>3
    <3>2. CASE t # 1
      <4>1. /\ t \in 2..Len(new) /\ t - 1 \in DOMAIN ledger /\ new[t] = ledger[t - 1]
            /\ t < Len(new) <=> t - 1 < Len(ledger)
        BY <2>3, <3>2
      <4>2. t < Len(new) => new[t + 1] = ledger[(t - 1) + 1]
        <5> SUFFICES ASSUME t < Len(new) PROVE new[t + 1] = ledger[(t - 1) + 1]
          OBVIOUS
        <5>1. t + 1 \in 2..Len(new) /\ (t + 1) - 1 = (t - 1) + 1
          BY <2>3, <4>1
        <5> QED BY <2>3, <5>1, SMTT(30)
      <4>3. RowTrue(ledger[t - 1][i], IF t - 1 < Len(ledger) THEN ledger[(t - 1) + 1] ELSE <<>>)
        BY <4>1 DEF DeltasTrue
      <4> QED BY <4>1, <4>2, <4>3
    <3> QED BY <3>1, <3>2
  <2>5. Recorded(new, measured)
    <3> SUFFICES ASSUME Plain(measured), NEW i \in DOMAIN measured
                 PROVE  \E row \in RowOf(Head(new), measured[i].name) :
                          Head(new)[row].cus_consumed = measured[i].cus_consumed
      BY <2>3 DEF Recorded
    <3>1. i \in 1..n /\ Trimmed[measured[i].name] = measured[i].name
      BY <1>2 DEF Plain
    <3>2. i \in RowOf(table, measured[i].name) /\ table[i].cus_consumed = measured[i].cus_consumed
      BY <1>2, <3>1 DEF RowOf
    <3> QED BY <2>3, <3>2
  <2>6. ASSUME ledger # <<>>, Legible(Head(ledger))
        PROVE  \E i \in DOMAIN measured :
                 LET rows == RowOf(Head(ledger), measured[i].name)
                 IN  \A row \in rows : (\A other \in rows : row <= other) =>
                       Head(ledger)[row].cus_consumed # measured[i].cus_consumed
    <3>1. PICK i \in 1..n : table[i].delta # 0
      BY <1>2, <1>5 DEF Changed
    <3>2. below = Head(ledger)
      BY <2>6
    <3> HIDE DEF below
    <3> DEFINE rows == RowOf(below, measured[i].name)
    <3>3. \A row \in rows : row \in Int
      <4>1. DOMAIN below \in SUBSET Nat
        <5>1. Head(ledger) \in ReportTable
          BY <2>2, <2>3, <2>6 DEF T
        <5>2. DOMAIN Head(ledger) = 1..Len(Head(ledger)) /\ Len(Head(ledger)) \in Nat
          <6> DEFINE R == Row
          <6>1. Head(ledger) \in Seq(R)
            BY <5>1 DEF ReportTable
          <6> HIDE DEF R
          <6> QED BY <6>1
        <5> QED BY <3>2, <5>2
      <4> QED BY <4>1 DEF RowOf
    <3>4. \A row \in rows : (\A other \in rows : row <= other) =>
            below[row].cus_consumed # measured[i].cus_consumed
      <4>1. CASE rows = {}
        BY <4>1
      <4>2. CASE rows # {}
        <5>1. PICK j \in rows :
                /\ \A other \in rows : j <= other
                /\ below[j].cus_consumed \in Nat /\ table[i].delta \in Int
                /\ measured[i].cus_consumed = below[j].cus_consumed + table[i].delta
          <6>1. PICK j \in rows :
                  /\ \A other \in rows : j <= other
                  /\ UnitsRead(below[j]) \in Nat /\ table[i].delta \in Int
                  /\ measured[i].cus_consumed = UnitsRead(below[j]) + table[i].delta
                  /\ Legible(below) => UnitsRead(below[j]) = below[j].cus_consumed
            BY <1>4, <4>2
          <6> QED BY <2>6, <3>2, <6>1
        <5>2. below[j].cus_consumed # measured[i].cus_consumed
          <6>1. \A a \in Nat, d \in Int : d # 0 => a # a + d
            OBVIOUS
          <6> QED BY <3>1, <5>1, <6>1
        <5>3. \A row \in rows : (\A other \in rows : row <= other) => row = j
          <6> HIDE DEF rows
          <6>1. \A row \in rows : (\A other \in rows : row <= other) => row <= j /\ j <= row
            BY <5>1
          <6> QED BY <3>3, <6>1
        <5> QED BY <5>2, <5>3
      <4> QED BY <4>1, <4>2
    <3> QED BY <1>2, <3>2, <3>4
  <2> QED BY <2>3, <2>4, <2>5, <2>6 DEF new, T
<1>6. CASE ~Changed(table)
  <2>1. new = ledger
    BY <1>3, <1>6
  <2>2. \A i \in 1..n : table[i].delta = 0
    BY <1>2, <1>6 DEF Changed
  <2>3. Recorded(new, measured)
    <3> SUFFICES ASSUME ledger # <<>> => Legible(Head(ledger)), NEW i \in DOMAIN measured
                 PROVE  /\ ledger # <<>>
                        /\ \E row \in RowOf(Head(ledger), measured[i].name) :
                             Head(ledger)[row].cus_consumed = measured[i].cus_consumed
      BY <2>1 DEF Recorded
    <3>1. i \in 1..n /\ table[i].delta = 0 /\ table[i].delta # New
      BY <1>2, <2>2, NamesAssumption
    <3>2. ledger # <<>> /\ below = Head(ledger)
      BY <1>4, <3>1
    <3> HIDE DEF below
    <3>3. PICK j \in RowOf(below, measured[i].name) :
            /\ below[j].cus_consumed \in Nat
            /\ measured[i].cus_consumed = below[j].cus_consumed + table[i].delta
      BY <1>4, <3>1, <3>2
    <3>4. below[j].cus_consumed = measured[i].cus_consumed
      BY <3>1, <3>3
    <3> QED BY <3>2, <3>4
  <2> QED BY <2>1, <2>3 DEF new
<1> QED BY <1>5, <1>6

-----------------------------------------------------------------------------
(* The recursive definition of a row's cells defines a function.           *)
LEMMA CellsDefined ==
  ASSUME NEW columns, Len(columns) \in Nat, NEW row,
         \A c \in 1..Len(columns) : row \in DOMAIN columns[c].results
  PROVE  LET cells == CellsUpTo(columns, row) IN
         cells = [c \in 0..Len(columns) |->
                    IF c = 0 THEN <<>>
                    ELSE Append(cells[c - 1], columns[c].results[row].cus_consumed)]
<1> DEFINE n == Len(columns)
           cus(c) == columns[c].results[row].cus_consumed
           Rec(f, m) == f = [c \in 0..m |-> IF c = 0 THEN <<>> ELSE Append(f[c - 1], cus(c))]
           Defined(m) == \E f : Rec(f, m)
           S == {m \in Nat : Defined(m)}
           Case(f, c) == CASE c = 0 -> <<>>
                           [] c > 0 /\ row \in DOMAIN columns[c].results -> Append(f[c - 1], cus(c))
                           [] OTHER -> f[c - 1]
           Cases(f) == f = [c \in 0..n |-> Case(f, c)]
<1>1. 0 \in S
  <2> DEFINE f == [c \in 0..0 |-> <<>>]
  <2>1. Rec(f, 0)
    OBVIOUS
  <2> QED BY <2>1
<1>2. ASSUME NEW m \in S PROVE m + 1 \in S
  <2>1. PICK f : Rec(f, m)
    OBVIOUS
  <2> HIDE DEF cus
  <2> DEFINE g == [c \in 0..(m + 1) |-> IF c = m + 1 THEN Append(f[m], cus(m + 1)) ELSE f[c]]
  <2>2. DOMAIN f = 0..m /\ \A c \in 0..m : f[c] = IF c = 0 THEN <<>> ELSE Append(f[c - 1], cus(c))
    BY <2>1
  <2>3. ASSUME NEW c \in 0..(m + 1) PROVE g[c] = IF c = 0 THEN <<>> ELSE Append(g[c - 1], cus(c))
    <3>1. CASE c = 0
      BY <2>2, <3>1
    <3>2. CASE c \in 1..m
      <4>1. g[c] = f[c] /\ g[c - 1] = f[c - 1] /\ c # 0 /\ c \in 0..m
        BY <3>2
      <4> HIDE DEF g
      <4> QED BY <2>2, <4>1
    <3>3. CASE c = m + 1
      <4>1. g[c] = Append(f[m], cus(c)) /\ g[c - 1] = f[m] /\ c # 0
        BY <3>3
      <4> HIDE DEF g
      <4> QED BY <4>1
    <3> QED BY <3>1, <3>2, <3>3
  <2>4. Rec(g, m + 1)
    BY <2>3
  <2> HIDE DEF g
  <2>5. Defined(m + 1)
    BY <2>4
  <2> HIDE DEF Defined
  <2> QED BY <2>5
<1>3. S = Nat
  <2> HIDE DEF S
  <2> QED BY <1>1, <1>2, InductiveSet DEF S
<1>4. \E f : Rec(f, n)
  BY <1>3
<1>5. \A f : Rec(f, n) <=> Cases(f)
  <2> SUFFICES ASSUME NEW f PROVE Rec(f, n) <=> Cases(f)
    OBVIOUS
  <2> HIDE DEF cus
  <2>1. ASSUME NEW c \in 0..n
        PROVE  Case(f, c) = IF c = 0 THEN <<>> ELSE Append(f[c - 1], cus(c))
    <3>1. c = 0 \/ (c > 0 /\ c # 0 /\ row \in DOMAIN columns[c].results)
      OBVIOUS
    <3> QED BY <3>1
  <2> HIDE DEF Case
  <2>2. [c \in 0..n |-> Case(f, c)]
          = [c \in 0..n |-> IF c = 0 THEN <<>> ELSE Append(f[c - 1], cus(c))]
    BY <2>1
  <2> QED BY <2>2
<1>6. CellsUpTo(columns, row) = CHOOSE f : Cases(f)
  BY DEF CellsUpTo
<1>7. Cases(CellsUpTo(columns, row))
  <2> HIDE DEF Cases, Rec
  <2> QED BY <1>4, <1>5, <1>6
<1>8. Rec(CellsUpTo(columns, row), n)
  <2> HIDE DEF Cases, Rec
  <2> QED BY <1>5, <1>7
<1> QED BY <1>8

(* A row has a cell of every column.                                       *)
LEMMA CompleteRow ==
  ASSUME NEW columns, Len(columns) \in Nat, NEW row,
         \A c \in 1..Len(columns) :
           row \in DOMAIN columns[c].results /\ columns[c].results[row].cus_consumed \in Nat
  PROVE  LET cells == CellsUpTo(columns, row)[Len(columns)] IN
         /\ cells \in Seq(Nat)
         /\ \A c \in 1..Len(columns) : cells[c] = columns[c].results[row].cus_consumed
<1> DEFINE n == Len(columns)
           cus == [c \in 1..n |-> columns[c].results[row].cus_consumed]
           cells == CellsUpTo(columns, row)
           Upto(c) == /\ cells[c] \in Seq(Nat) /\ Len(cells[c]) = c
                      /\ \A d \in 1..c : cells[c][d] = cus[d]
           S == {c \in 0..n : Upto(c)}
<1>1. n \in Nat /\ cus \in [1..n -> Nat] /\ \A c \in 1..n : cus[c] = columns[c].results[row].cus_consumed
  OBVIOUS
<1>2. cells[0] = <<>> /\ \A c \in 1..n : cells[c] = Append(cells[c - 1], cus[c])
  <2>1. cells = [c \in 0..n |-> IF c = 0 THEN <<>>
                               ELSE Append(cells[c - 1], columns[c].results[row].cus_consumed)]
    BY CellsDefined
  <2> HIDE DEF cells, cus, n
  <2>2. cells[0] = <<>>
    BY <1>1, <2>1
  <2>3. ASSUME NEW c \in 1..n PROVE cells[c] = Append(cells[c - 1], cus[c])
    <3>1. c \in 0..n /\ c # 0
      BY <1>1
    <3>2. cells[c] = Append(cells[c - 1], columns[c].results[row].cus_consumed)
      BY <2>1, <3>1
    <3> QED BY <1>1, <3>2
  <2> QED BY <2>2, <2>3
<1> HIDE DEF cells, cus, n
<1>3. 0 \in S
  <2>1. cells[0] \in Seq(Nat) /\ Len(cells[0]) = 0
    BY <1>2
  <2> QED BY <1>1, <2>1
<1>4. ASSUME NEW c \in 0..(n - 1), c \in S PROVE c + 1 \in S
  <2>1. c + 1 \in 1..n /\ (c + 1) - 1 = c /\ cus[c + 1] \in Nat
    BY <1>1
  <2>2. cells[c + 1] = Append(cells[c], cus[c + 1])
    BY <1>2, <2>1
  <2>3. cells[c] \in Seq(Nat) /\ Len(cells[c]) = c /\ \A d \in 1..c : cells[c][d] = cus[d]
    BY <1>4
  <2>4. /\ cells[c + 1] \in Seq(Nat) /\ Len(cells[c + 1]) = c + 1
        /\ cells[c + 1][c + 1] = cus[c + 1]
        /\ \A d \in 1..c : cells[c + 1][d] = cells[c][d]
    BY <2>1, <2>2, <2>3, AppendFacts
  <2>5. \A d \in 1..(c + 1) : cells[c + 1][d] = cus[d]
    BY <2>3, <2>4
  <2> QED BY <1>1, <2>1, <2>4, <2>5
<1>5. S = 0..n
  <2> HIDE DEF S
  <2>1. S \in SUBSET (0..n)
    BY DEF S
  <2> QED BY <1>1, <1>3, <1>4, <2>1, InductiveUpTo
<1>6. n \in S
  <2> HIDE DEF S
  <2> QED BY <1>1, <1>5
<1> QED BY <1>1, <1>6 DEF cells, n

-----------------------------------------------------------------------------
(* What the types say of the state.                                        *)
LEMMA BencherFacts ==
  ASSUME BencherTyped
  PROVE  /\ Len(benches) \in Nat /\ DOMAIN benches = 1..Len(benches)
         /\ \A i \in 1..Len(benches) : benches[i] \in Bench
         /\ (benches = <<>> <=> Len(benches) = 0)
         /\ benches # <<>> => Head(benches) \in Bench
         /\ Len(programs) \in Nat /\ DOMAIN programs = 1..Len(programs)
         /\ \A i \in 1..Len(programs) : programs[i] \in Program
         /\ Len(mx_results) \in Nat /\ DOMAIN mx_results = 1..Len(mx_results)
         /\ \A i \in 1..Len(mx_results) : mx_results[i] \in MatrixResult
         /\ (mx_results = <<>> <=> Len(mx_results) = 0)
         /\ Len(results) \in Nat /\ DOMAIN results = 1..Len(results)
         /\ \A i \in 1..Len(results) : results[i] \in BenchResult
         /\ Len(todo) \in Nat /\ (todo = <<>> <=> Len(todo) = 0)
         /\ todo # <<>> =>
              /\ Head(todo) = todo[1] /\ Head(todo) \in Bench
              /\ Tail(todo) \in Seq(Bench) /\ Len(Tail(todo)) = Len(todo) - 1
              /\ \A i \in 1..(Len(todo) - 1) : Tail(todo)[i] = todo[i + 1]
         /\ \A bench \in Bench :
              /\ bench.name \in Name /\ bench.ix \in Ix /\ Target[bench.ix] \in ProgramId
         /\ \A id \in ProgramId : Find(id) \in Image
         /\ \A bench \in Bench : OutcomeOf(bench) \in Outcome
<1>1. /\ benches \in Seq(Bench) /\ programs \in Seq(Program) /\ todo \in Seq(Bench)
      /\ results \in Seq(BenchResult) /\ mx_results \in Seq(MatrixResult)
  BY DEF BencherTyped
<1>2. \A bench \in Bench :
        /\ bench.name \in Name /\ bench.ix \in Ix /\ Target[bench.ix] \in ProgramId
  BY BencherAssumption DEF Bench
<1>3. \A id \in ProgramId : Find(id) \in Image
  BY DEF BencherTyped, Find
<1>9. \A bench \in Bench : OutcomeOf(bench) \in Outcome
  <2> SUFFICES ASSUME NEW bench \in Bench PROVE OutcomeOf(bench) \in Outcome
    OBVIOUS
  <2>1. bench.ix \in Ix /\ Reaches[bench.ix] \in SUBSET ProgramId
    BY <1>2, BencherAssumption
  <2>2. outcome[bench.ix] \in [[Reaches[bench.ix] -> Image] -> Outcome]
    BY <2>1, BencherAssumption DEF BencherTyped
  <2>3. [id \in Reaches[bench.ix] |-> Find(id)] \in [Reaches[bench.ix] -> Image]
    BY <1>3, <2>1
  <2> QED BY <2>2, <2>3 DEF OutcomeOf
<1>4. /\ Len(benches) \in Nat /\ DOMAIN benches = 1..Len(benches)
      /\ \A i \in 1..Len(benches) : benches[i] \in Bench
      /\ (benches = <<>> <=> Len(benches) = 0)
      /\ benches # <<>> => Head(benches) \in Bench
  BY <1>1, SeqFacts
<1>5. /\ Len(programs) \in Nat /\ DOMAIN programs = 1..Len(programs)
      /\ \A i \in 1..Len(programs) : programs[i] \in Program
  BY <1>1, SeqFacts
<1>6. /\ Len(mx_results) \in Nat /\ DOMAIN mx_results = 1..Len(mx_results)
      /\ \A i \in 1..Len(mx_results) : mx_results[i] \in MatrixResult
      /\ (mx_results = <<>> <=> Len(mx_results) = 0)
  BY <1>1, SeqFacts
<1>7. /\ Len(results) \in Nat /\ DOMAIN results = 1..Len(results)
      /\ \A i \in 1..Len(results) : results[i] \in BenchResult
  BY <1>1, SeqFacts
<1>8. /\ Len(todo) \in Nat /\ (todo = <<>> <=> Len(todo) = 0)
      /\ todo # <<>> =>
           /\ Head(todo) = todo[1] /\ Head(todo) \in Bench
           /\ Tail(todo) \in Seq(Bench) /\ Len(Tail(todo)) = Len(todo) - 1
           /\ \A i \in 1..(Len(todo) - 1) : Tail(todo)[i] = todo[i + 1]
  BY <1>1, SeqFacts
<1> QED BY <1>2, <1>3, <1>4, <1>5, <1>6, <1>7, <1>8, <1>9

(* The table of a matrix whose columns are complete.                       *)
LEMMA MatrixWritten ==
  ASSUME BencherTyped, MatrixKept, kind = "matrix", pc = "column",
         Len(mx_results) = Len(programs), mx_results # <<>>
  PROVE  LET new == mx_write_results(mx_file, mx_results)
             table == Head(new) IN
         /\ new \in Seq(MatrixTable)
         /\ table.header = programs /\ Len(table.rows) = Len(benches)
         /\ Settled(benches) =>
              \A row \in 1..Len(benches) : \A c \in 1..Len(programs) :
                table.rows[row].cells[c] = Cell(benches[row], c)
<1> DEFINE new == mx_write_results(mx_file, mx_results)
           n == Len(programs)
           m == Len(benches)
           header == [c \in DOMAIN mx_results |-> mx_results[c].program_name]
           rows == [row \in DOMAIN mx_results[1].results |-> MatrixRow(mx_results, row)]
           table == [header |-> header, rows |-> rows]
           R == [name : Name, cells : Seq(Nat)]
<1>1. /\ n \in Nat /\ m \in Nat /\ n > 0 /\ Len(mx_results) = n
      /\ DOMAIN mx_results = 1..n /\ \A c \in 1..n : mx_results[c] \in MatrixResult
  BY BencherFacts
<1>2. \A c \in 1..n :
        /\ mx_results[c].program_name = programs[c]
        /\ Len(mx_results[c].results) = m
        /\ \A row \in 1..m : CellIs(mx_results[c].results[row], benches[row], c)
  BY <1>1 DEF MatrixKept
<1>3. ASSUME NEW c \in 1..n
      PROVE  /\ DOMAIN mx_results[c].results = 1..m
             /\ \A row \in 1..m : mx_results[c].results[row] \in BenchResult
  <2>1. mx_results[c].results \in Seq(BenchResult)
    BY <1>1 DEF MatrixResult
  <2> QED BY <1>2, <2>1, SeqFacts
<1> HIDE DEF n, m
<1>4. header = programs
  <2>1. programs = [c \in 1..n |-> programs[c]]
    BY SeqIsFunction DEF BencherTyped, n
  <2>2. header = [c \in 1..n |-> programs[c]]
    BY <1>1, <1>2
  <2> QED BY <2>1, <2>2
<1>5. header \in Seq(Name)
  <2>1. header \in [1..n -> Name]
    BY <1>1 DEF MatrixResult
  <2> HIDE DEF header
  <2> QED BY <1>1, <2>1, FunctionIsSeq
<1>6. ASSUME NEW row \in 1..m
      PROVE  /\ MatrixRow(mx_results, row) \in R
             /\ Settled(benches) =>
                  \A c \in 1..n : MatrixRow(mx_results, row).cells[c] = Cell(benches[row], c)
  <2> DEFINE cells == CellsUpTo(mx_results, row)[Len(mx_results)]
  <2>1. \A c \in 1..Len(mx_results) :
          row \in DOMAIN mx_results[c].results /\ mx_results[c].results[row].cus_consumed \in Nat
    BY <1>1, <1>3 DEF BenchResult
  <2>2. /\ cells \in Seq(Nat)
        /\ \A c \in 1..Len(mx_results) : cells[c] = mx_results[c].results[row].cus_consumed
    BY <1>1, <2>1, CompleteRow
  <2>3. mx_results[1].results[row].name \in Name
    BY <1>1, <1>3 DEF BenchResult
  <2>4. MatrixRow(mx_results, row) = [name |-> mx_results[1].results[row].name, cells |-> cells]
    BY DEF MatrixRow
  <2> HIDE DEF cells
  <2> QED BY <1>1, <1>2, <2>2, <2>3, <2>4 DEF CellIs
<1>7. rows \in Seq(R) /\ Len(rows) = m /\ \A row \in 1..m : rows[row] = MatrixRow(mx_results, row)
  <2>1. DOMAIN mx_results[1].results = 1..m
    BY <1>1, <1>3
  <2>2. rows \in [1..m -> R] /\ \A row \in 1..m : rows[row] = MatrixRow(mx_results, row)
    BY <1>6, <2>1
  <2> HIDE DEF rows, R
  <2> QED BY <1>1, <2>2, FunctionIsSeq
<1> HIDE DEF header, rows, R
<1>8. table \in MatrixTable
  BY <1>5, <1>7 DEF MatrixTable, R
<1>9. new = <<table>> \o mx_file
  BY DEF mx_write_results, Prepended, header, rows
<1>10. new \in Seq(MatrixTable) /\ Head(new) = table
  <2> DEFINE T == MatrixTable
  <2>1. mx_file \in Seq(T) /\ table \in T
    BY <1>8 DEF BencherTyped
  <2> HIDE DEF T, table
  <2>2. new \in Seq(T) /\ Head(new) = table
    BY <1>9, <2>1
  <2> QED BY <2>2 DEF T
<1>11. Settled(benches) =>
         \A row \in 1..m, c \in 1..n : table.rows[row].cells[c] = Cell(benches[row], c)
  BY <1>6, <1>7
<1> QED BY <1>4, <1>7, <1>10, <1>11 DEF n, m, new

-----------------------------------------------------------------------------
(* The steps.                                                              *)

LEMMA InitBInv == Init => BInv
<1> SUFFICES ASSUME Init PROVE BInv
  OBVIOUS
<1>1. BencherTyped
  <2>1. /\ outcome \in Outcomes /\ cache \in [ProgramId -> Image]
        /\ lent \in [ProgramId -> Image]
        /\ deployed \in [ProgramId -> Image \cup {Untouched}]
    BY BencherAssumption DEF Init, NothingDeployed
  <2>2. /\ benches = <<>> /\ programs = <<>> /\ todo = <<>> /\ results = <<>>
        /\ mx_results = <<>> /\ executed = <<>> /\ file = <<>> /\ mx_file = <<>>
    BY DEF Init
  <2>3. /\ benches \in Seq(Bench) /\ programs \in Seq(Program) /\ todo \in Seq(Bench)
        /\ results \in Seq(BenchResult) /\ mx_results \in Seq(MatrixResult)
        /\ executed \in Seq(BenchResult) /\ file \in Seq(ReportTable)
        /\ mx_file \in Seq(MatrixTable)
    BY <2>2, EmptyIsSeq
  <2> QED BY <2>1, <2>3 DEF Init, BencherTyped
<1>2. FailuresAbort /\ MatrixKept /\ ColumnsOfMatrix
  BY DEF Init, FailuresAbort, MatrixKept, ColumnsOfMatrix
<1>3. LedgerTrue
  <2>1. DOMAIN executed = {} /\ DOMAIN file = {}
    BY DEF Init
  <2> QED BY <2>1 DEF LedgerTrue
<1> QED BY <1>1, <1>2, <1>3 DEF BInv

(* The bencher is gone, and what it measured with it.                      *)
LEMMA GoneBInv ==
  ASSUME BInv, Gone, UNCHANGED <<outcome, files>>,
         deployed' \in [ProgramId -> Image \cup {Untouched}],
         UNCHANGED execution \/ (todo' = <<>> /\ results' = <<>> /\ mx_results' = <<>> /\ failures' = 0),
         failures' = 0
  PROVE  BInv'
<1>1. BencherTyped'
  <2>1. /\ benches' \in Seq(Bench) /\ programs' \in Seq(Program)
    BY EmptyIsSeq DEF Gone
  <2>2. /\ todo' \in Seq(Bench) /\ results' \in Seq(BenchResult)
        /\ mx_results' \in Seq(MatrixResult)
    BY EmptyIsSeq DEF execution, BInv, BencherTyped
  <2>3. cache' \in [ProgramId -> Image] /\ lent' \in [ProgramId -> Image]
    BY BencherAssumption DEF Gone, BInv, BencherTyped
  <2> QED BY <2>1, <2>2, <2>3 DEF Gone, files, BInv, BencherTyped
<1>2. FailuresAbort' /\ MatrixKept' /\ ColumnsOfMatrix'
  BY DEF Gone, FailuresAbort, MatrixKept, ColumnsOfMatrix
<1>3. LedgerTrue'
  BY DEF files, BInv, LedgerTrue
<1> QED BY <1>1, <1>2, <1>3 DEF BInv

(* A bench that does not abort adds a result of the matrix column it is in. *)
LEMMA RunBenchBInv ==
  ASSUME BInv, RunBench
  PROVE  BInv'
<1>1. BencherTyped
  BY DEF BInv
<1>2. /\ pc = "bench" /\ todo # <<>>
      /\ results' = Append(results, Result(Head(todo).name, OutcomeOf(Head(todo)).cus))
      /\ failures' = failures + IF OutcomeOf(Head(todo)).ends = "success" THEN 0 ELSE 1
      /\ todo' = Tail(todo) /\ deployed' = Deployed(Head(todo))
      /\ UNCHANGED <<outcome, cache, lent, bencher, pc, mx_results, files>>
  BY DEF RunBench
<1>3. /\ Head(todo) = todo[1] /\ Head(todo) \in Bench
      /\ Tail(todo) \in Seq(Bench) /\ Len(todo) \in Nat /\ Len(todo) > 0
      /\ Len(Tail(todo)) = Len(todo) - 1
      /\ \A i \in 1..(Len(todo) - 1) : Tail(todo)[i] = todo[i + 1]
      /\ Len(results) \in Nat /\ results \in Seq(BenchResult)
  BY <1>1, <1>2, BencherFacts DEF BencherTyped
<1> DEFINE bench == Head(todo)
           new == Result(bench.name, OutcomeOf(bench).cus)
<1>4. /\ bench.name \in Name /\ bench.ix \in Ix /\ Target[bench.ix] \in ProgramId
  BY <1>1, <1>3, BencherFacts
<1>5. /\ OutcomeOf(bench).cus \in Nat
      /\ OutcomeOf(bench).ends \in {"success", "failure", "panic"}
      /\ OutcomeOf(bench).deploys \in [ProgramId -> Image \cup {Untouched}]
  BY <1>1, <1>3, BencherFacts DEF Outcome
<1>6. new \in BenchResult /\ new.cus_consumed = OutcomeOf(bench).cus
  BY <1>4, <1>5 DEF BenchResult, Result
<1>7. /\ results' \in Seq(BenchResult) /\ Len(results') = Len(results) + 1
      /\ results'[Len(results) + 1] = new
      /\ \A i \in 1..Len(results) : results'[i] = results[i]
  <2> HIDE DEF new
  <2> QED BY <1>2, <1>3, <1>6, AppendFacts DEF new
<1>8. BencherTyped'
  <2>1. failures' \in Nat
    BY <1>1, <1>2 DEF BencherTyped
  <2>2. todo' \in Seq(Bench)
    BY <1>2, <1>3
  <2>3. deployed' \in [ProgramId -> Image \cup {Untouched}]
    BY <1>1, <1>2, <1>5 DEF Deployed, BencherTyped
  <2> QED BY <1>1, <1>2, <1>7, <2>1, <2>2, <2>3 DEF BencherTyped, bencher, files
<1>9. FailuresAbort'
  <2>1. must_pass => OutcomeOf(bench).ends = "success"
    BY <1>5 DEF RunBench, Aborts
  <2> QED BY <1>2, <2>1 DEF BInv, FailuresAbort, bencher
<1>10. MatrixKept'
  <2> SUFFICES ASSUME kind = "matrix" PROVE MatrixKept'
    BY <1>2 DEF MatrixKept, bencher
  <2>1. /\ Len(mx_results) < Len(programs)
        /\ benches # <<>> => cache[Target[Head(benches).ix]] = programs[Len(mx_results) + 1]
        /\ Len(results) + Len(todo) = Len(benches)
        /\ \A j \in 1..Len(todo) : todo[j] = benches[Len(results) + j]
        /\ \A row \in 1..Len(results) :
             CellIs(results[row], benches[row], Len(mx_results) + 1)
        /\ Borrowed
    BY <1>2 DEF BInv, MatrixKept
  <2>3. benches # <<>> /\ bench = benches[Len(results) + 1]
    BY <1>1, <1>3, <2>1, BencherFacts
  <2>4. Settled(benches) => OutcomeOf(bench).deploys = NothingDeployed
    <3>1. \A id \in Reaches[bench.ix] : Find(id) \in Image
      BY <1>1, <1>4, BencherFacts, BencherAssumption
    <3>2. [id \in Reaches[bench.ix] |-> Find(id)] \in [Reaches[bench.ix] -> Image]
      BY <3>1
    <3>3. Len(results) + 1 \in DOMAIN benches
      BY <1>1, <1>3, <2>1, BencherFacts
    <3> QED BY <2>3, <3>2, <3>3 DEF Settled, OutcomeOf
  <2>8. Settled(benches) => deployed' = deployed
    BY <1>1, <1>2, <2>4 DEF Deployed, NothingDeployed, BencherTyped
  <2>2. Settled(benches)' = Settled(benches) /\ \A r, b, c : CellIs(r, b, c)' = CellIs(r, b, c)
    <3>1. Settled(benches)' = Settled(benches)
      BY <1>2 DEF Settled, bencher
    <3>2. Settled(benches) => \A b, c : Cell(b, c)' = Cell(b, c)
      <4> SUFFICES ASSUME Settled(benches) PROVE \A b, c : Cell(b, c)' = Cell(b, c)
        OBVIOUS
      <4>1. /\ deployed' = deployed /\ outcome' = outcome /\ lent' = lent
            /\ benches' = benches /\ programs' = programs
        BY <1>2, <2>8 DEF bencher
      <4> QED BY <4>1 DEF Cell, AtColumn
    <3> QED BY <3>1, <3>2 DEF CellIs
  <2>9. Settled(benches) => OutcomeOf(bench).cus = Cell(bench, Len(mx_results) + 1)
    <3> SUFFICES ASSUME Settled(benches)
                 PROVE  OutcomeOf(bench).cus = Cell(bench, Len(mx_results) + 1)
      OBVIOUS
    <3>1. \A id \in ProgramId : Find(id) = AtColumn(Len(mx_results) + 1)[id]
      BY <2>1, <2>3 DEF AtColumn, Borrowed, Find
    <3>2. [id \in Reaches[bench.ix] |-> Find(id)]
            = [id \in Reaches[bench.ix] |-> AtColumn(Len(mx_results) + 1)[id]]
      BY <1>4, <3>1, BencherAssumption
    <3> QED BY <3>2 DEF OutcomeOf, Cell
  <2>10. Borrowed'
    BY <1>2, <2>1, <2>2, <2>8 DEF Borrowed, Find, bencher
  <2>5. \A row \in 1..(Len(results) + 1) :
          CellIs(results'[row], benches[row], Len(mx_results) + 1)
    <3> SUFFICES ASSUME NEW row \in 1..(Len(results) + 1)
                 PROVE  CellIs(results'[row], benches[row], Len(mx_results) + 1)
      OBVIOUS
    <3>1. CASE row = Len(results) + 1
      BY <1>6, <1>7, <2>3, <2>9, <3>1 DEF CellIs
    <3>2. CASE row \in 1..Len(results)
      BY <1>7, <2>1, <3>2
    <3> QED BY <1>3, <3>1, <3>2
  <2>6. \A j \in 1..Len(todo') : todo'[j] = benches[Len(results') + j]
    <3> SUFFICES ASSUME NEW j \in 1..(Len(todo) - 1)
                 PROVE  Tail(todo)[j] = benches[(Len(results) + 1) + j]
      BY <1>2, <1>3, <1>7
    <3>1. j + 1 \in 1..Len(todo) /\ Len(results) + (j + 1) = (Len(results) + 1) + j
      BY <1>3
    <3> QED BY <1>3, <2>1, <3>1
  <2>7. Len(results') + Len(todo') = Len(benches)
    BY <1>2, <1>3, <1>7, <2>1
  <2> QED BY <1>2, <1>7, <2>1, <2>2, <2>5, <2>6, <2>7, <2>10 DEF BInv, MatrixKept, bencher
<1>11. ColumnsOfMatrix' /\ LedgerTrue'
  BY <1>2, ZenonT(30) DEF BInv, ColumnsOfMatrix, LedgerTrue, bencher, files
<1> QED BY <1>8, <1>9, <1>10, <1>11 DEF BInv

(* A column begins with every bench to run, under its program, and ends    *)
(* with the units of each.                                                 *)
LEMMA StartColumnBInv ==
  ASSUME BInv, StartColumn
  PROVE  BInv'
<1>1. /\ BencherTyped /\ kind = "matrix" /\ MatrixKept
  BY DEF BInv, ColumnsOfMatrix, StartColumn
<1>2. /\ pc = "column" /\ Len(mx_results) < Len(programs)
      /\ cache' = UnderFirstBench(cache, programs[Len(mx_results) + 1])
      /\ todo' = benches /\ results' = <<>> /\ pc' = "bench"
      /\ UNCHANGED <<outcome, deployed, lent, bencher, mx_results, failures, files>>
  BY DEF StartColumn
<1>3. /\ Len(benches) \in Nat /\ (benches # <<>> => Target[Head(benches).ix] \in ProgramId)
      /\ programs[Len(mx_results) + 1] \in Image
  BY <1>1, <1>2, BencherFacts, BencherAssumption
<1>4. /\ cache' \in [ProgramId -> Image]
      /\ \A id \in ProgramId :
           cache'[id] = IF benches # <<>> /\ id = Target[Head(benches).ix]
                        THEN programs[Len(mx_results) + 1] ELSE cache[id]
  BY <1>1, <1>2, <1>3 DEF UnderFirstBench, BencherTyped
<1>5. BencherTyped'
  <2>1. results' \in Seq(BenchResult)
    BY <1>2, EmptyIsSeq
  <2> QED BY <1>1, <1>2, <1>4, <2>1 DEF BencherTyped, bencher, files
<1>6. MatrixKept'
  <2>1. \A r, b, c : CellIs(r, b, c)' = CellIs(r, b, c)
    BY <1>2 DEF CellIs, Cell, AtColumn, Settled, bencher
  <2>2. /\ Len(mx_results) <= Len(programs)
        /\ \A c \in 1..Len(mx_results) :
             /\ mx_results[c].program_name = programs[c]
             /\ Len(mx_results[c].results) = Len(benches)
             /\ \A row \in 1..Len(benches) :
                  CellIs(mx_results[c].results[row], benches[row], c)
        /\ Borrowed
    BY <1>1, <1>2 DEF MatrixKept
  <2>3. Len(results') = 0 /\ \A j \in 1..Len(todo') : todo'[j] = benches[Len(results') + j]
    <3>1. Len(results') = 0
      BY <1>2
    <3> QED BY <1>2, <1>3, <3>1
  <2>4. Borrowed' /\ (benches # <<>> => cache'[Target[Head(benches).ix]] = programs[Len(mx_results) + 1])
    <3>1. Settled(benches)' = Settled(benches)
      BY <1>2 DEF Settled, bencher
    <3>2. \A id \in ProgramId :
            \/ Find(id)' = Find(id)
            \/ benches # <<>> /\ id = Target[Head(benches).ix] /\ deployed[id] = Untouched
      BY <1>2, <1>4 DEF Find
    <3>3. Borrowed'
      BY <1>2, <2>2, <3>1, <3>2 DEF Borrowed, bencher
    <3> QED BY <1>3, <1>4, <3>3
  <2>5. Len(results') + Len(todo') = Len(benches)
    BY <1>2, <1>3, <2>3
  <2> QED BY <1>2, <2>1, <2>2, <2>3, <2>4, <2>5 DEF MatrixKept, bencher
<1>7. FailuresAbort' /\ ColumnsOfMatrix' /\ LedgerTrue'
  BY <1>2, ZenonT(30) DEF BInv, FailuresAbort, ColumnsOfMatrix, LedgerTrue, bencher, files
<1> QED BY <1>5, <1>6, <1>7 DEF BInv

LEMMA EndColumnBInv ==
  ASSUME BInv, EndColumn
  PROVE  BInv'
<1> DEFINE n == Len(mx_results)
           column == [program_name |-> programs[n + 1], results |-> results]
<1>1. BencherTyped /\ MatrixKept
  BY DEF BInv
<1>2. /\ pc = "bench" /\ kind = "matrix" /\ todo = <<>>
      /\ mx_results' = Append(mx_results, column) /\ pc' = "column"
      /\ UNCHANGED <<outcome, mollusk, lent, bencher, todo, results, failures, files>>
  BY DEF EndColumn
<1>3. /\ n \in Nat /\ n < Len(programs) /\ Len(programs) \in Nat
      /\ programs[n + 1] \in Program /\ Len(results) \in Nat /\ Len(todo) = 0
  BY <1>1, <1>2, BencherFacts DEF MatrixKept
<1>4. column \in MatrixResult
  BY <1>1, <1>3, BencherAssumption DEF MatrixResult, BencherTyped
<1>5. /\ mx_results' \in Seq(MatrixResult) /\ Len(mx_results') = n + 1
      /\ mx_results'[n + 1] = column
      /\ \A c \in 1..n : mx_results'[c] = mx_results[c]
  <2>1. mx_results \in Seq(MatrixResult)
    BY <1>1 DEF BencherTyped
  <2> HIDE DEF column
  <2> QED BY <1>2, <1>4, <2>1, AppendFacts
<1>6. BencherTyped'
  BY <1>1, <1>2, <1>5 DEF BencherTyped, bencher, mollusk, files
<1>7. MatrixKept'
  <2>1. Borrowed' = Borrowed /\ \A r, b, c : CellIs(r, b, c)' = CellIs(r, b, c)
    BY <1>2 DEF CellIs, Cell, AtColumn, Settled, Borrowed, Find, bencher, mollusk
  <2>2. /\ Len(results) = Len(benches)
        /\ \A row \in 1..Len(results) : CellIs(results[row], benches[row], n + 1)
        /\ \A c \in 1..n :
             /\ mx_results[c].program_name = programs[c]
             /\ Len(mx_results[c].results) = Len(benches)
             /\ \A row \in 1..Len(benches) :
                  CellIs(mx_results[c].results[row], benches[row], c)
        /\ Borrowed
    BY <1>1, <1>2, <1>3 DEF MatrixKept
  <2>3. ASSUME NEW c \in 1..(n + 1)
        PROVE  /\ mx_results'[c].program_name = programs[c]
               /\ Len(mx_results'[c].results) = Len(benches)
               /\ \A row \in 1..Len(benches) :
                    CellIs(mx_results'[c].results[row], benches[row], c)
    <3>1. CASE c = n + 1
      BY <1>5, <2>2, <3>1
    <3>2. CASE c \in 1..n
      BY <1>5, <2>2, <3>2
    <3> QED BY <1>3, <3>1, <3>2
  <2>4. Len(mx_results') <= Len(programs)
    BY <1>3, <1>5
  <2> HIDE DEF column
  <2> QED BY <1>2, <1>5, <2>1, <2>2, <2>3, <2>4 DEF MatrixKept, bencher
<1>8. FailuresAbort' /\ ColumnsOfMatrix' /\ LedgerTrue'
  BY <1>2, ZenonT(30) DEF BInv, FailuresAbort, ColumnsOfMatrix, LedgerTrue, bencher, files
<1> QED BY <1>6, <1>7, <1>8 DEF BInv

LEMMA WriteResultsBInv ==
  ASSUME BInv, WriteResults
  PROVE  BInv'
<1>1. /\ file \in Seq(ReportTable) /\ results \in Seq(BenchResult) /\ DeltasTrue(file)
  BY LedgerHalves DEF BInv, BencherTyped
<1>2. /\ kind = "units" /\ file' = write_results(file, results) /\ executed' = results
      /\ pc' = "ready" /\ results' = <<>> /\ failures' = 0
      /\ UNCHANGED <<outcome, mollusk, lent, bencher, todo, mx_results, mx_file>>
  BY DEF WriteResults
<1>3. file' \in Seq(ReportTable) /\ DeltasTrue(file') /\ Recorded(file', executed')
  BY <1>1, <1>2, ResultsWritten
<1>4. LedgerTrue'
  BY <1>3, LedgerHalves DEF LedgerTrue, Recorded, DeltasTrue, RowTrue
<1>5. BencherTyped'
  <2>1. results' \in Seq(BenchResult)
    BY <1>2, EmptyIsSeq
  <2> QED BY <1>1, <1>2, <1>3, <2>1 DEF BInv, BencherTyped, bencher, mollusk
<1>6. FailuresAbort' /\ MatrixKept' /\ ColumnsOfMatrix'
  BY <1>2 DEF FailuresAbort, MatrixKept, ColumnsOfMatrix, bencher
<1> QED BY <1>4, <1>5, <1>6 DEF BInv

LEMMA WriteMatrixBInv ==
  ASSUME BInv, WriteMatrix
  PROVE  BInv'
<1>1. BencherTyped /\ MatrixKept /\ kind = "matrix"
  BY DEF BInv, ColumnsOfMatrix, WriteMatrix
<1>2. /\ pc = "column" /\ Len(mx_results) = Len(programs)
      /\ mx_file' = mx_write_results(mx_file, mx_results)
      /\ pc' = "ready" /\ results' = <<>> /\ mx_results' = <<>> /\ failures' = 0
      /\ UNCHANGED <<outcome, mollusk, lent, bencher, todo, executed, file>>
  BY DEF WriteMatrix
<1>3. mx_file' \in Seq(MatrixTable)
  <2>1. CASE mx_results = <<>>
    BY <1>1, <1>2, <2>1 DEF mx_write_results, BencherTyped
  <2>2. CASE mx_results # <<>>
    BY <1>1, <1>2, <2>2, MatrixWritten
  <2> QED BY <2>1, <2>2
<1>4. BencherTyped'
  <2>1. results' \in Seq(BenchResult) /\ mx_results' \in Seq(MatrixResult)
    BY <1>2, EmptyIsSeq
  <2> QED BY <1>1, <1>2, <1>3, <2>1 DEF BencherTyped, bencher, mollusk
<1>5. FailuresAbort' /\ ColumnsOfMatrix' /\ LedgerTrue'
  BY <1>2, ZenonT(30) DEF BInv, FailuresAbort, ColumnsOfMatrix, LedgerTrue, bencher
<1>6. MatrixKept'
  <2>1. Borrowed
    BY <1>1 DEF MatrixKept
  <2>2. Borrowed'
    BY <1>2, <2>1 DEF Borrowed, Settled, Find, bencher, mollusk
  <2> QED BY <1>2, <2>2 DEF MatrixKept, bencher
<1> QED BY <1>4, <1>5, <1>6 DEF BInv

(* What happens outside an execution, and its beginning.                   *)
LEMMA OutsideBInv ==
  ASSUME BInv,
         \/ \E build \in Outcomes, c \in Caches : Rebuild(build, c)
         \/ \E bs \in BenchLists, must \in BOOLEAN :
              \/ NewBencher("units", bs, <<>>, must)
              \/ \E ps \in ProgramLists : NewBencher("matrix", bs, ps, must)
         \/ Execute \/ ExecuteMatrix
  PROVE  BInv'
<1>1. BencherTyped /\ FailuresAbort /\ MatrixKept /\ LedgerTrue
  BY DEF BInv
<1>2. ASSUME NEW build \in Outcomes, NEW c \in Caches, Rebuild(build, c) PROVE BInv'
  <2>1. BencherTyped'
    BY <1>1, <1>2, BencherAssumption DEF Rebuild, BencherTyped, NothingDeployed, bencher, execution, files
  <2>2. FailuresAbort' /\ MatrixKept' /\ ColumnsOfMatrix' /\ LedgerTrue'
    BY <1>1, <1>2 DEF Rebuild, FailuresAbort, MatrixKept, Borrowed, Find, NothingDeployed,
                      ColumnsOfMatrix, LedgerTrue, bencher, execution, files
  <2> QED BY <2>1, <2>2 DEF BInv
<1>3. ASSUME NEW k \in {"units", "matrix"}, NEW bs \in BenchLists, NEW ps \in Seq(Program),
             NEW must \in BOOLEAN, NewBencher(k, bs, ps, must)
      PROVE  BInv'
  <2>1. BencherTyped'
    <3>1. lent' \in [ProgramId -> Image]
      BY <1>1, <1>3, BencherFacts DEF NewBencher
    <3> QED BY <1>1, <1>3, <3>1, BencherAssumption
            DEF NewBencher, BencherTyped, mollusk, execution, files
  <2>2. failures' = 0
    BY <1>1, <1>3 DEF NewBencher, FailuresAbort, execution
  <2>3. FailuresAbort' /\ MatrixKept' /\ ColumnsOfMatrix' /\ LedgerTrue'
    <3>1. Borrowed'
      BY <1>3 DEF NewBencher, Borrowed, Find, mollusk
    <3> QED BY <1>1, <1>3, <2>2, <3>1
            DEF NewBencher, FailuresAbort, MatrixKept, ColumnsOfMatrix, LedgerTrue, files
  <2> QED BY <2>1, <2>3 DEF BInv
<1>4. CASE Execute
  <2>1. BencherTyped'
    <3>1. benches' \in Seq(Bench) /\ results' \in Seq(BenchResult)
      BY <1>4, EmptyIsSeq DEF Execute
    <3> QED BY <1>1, <1>4, <3>1 DEF Execute, BencherTyped, mollusk, files
  <2>2. FailuresAbort' /\ MatrixKept' /\ ColumnsOfMatrix' /\ LedgerTrue'
    BY <1>1, <1>4 DEF Execute, FailuresAbort, MatrixKept, ColumnsOfMatrix, LedgerTrue, files
  <2> QED BY <2>1, <2>2 DEF BInv
<1>5. CASE ExecuteMatrix
  <2>1. BencherTyped'
    <3>1. mx_results' \in Seq(MatrixResult)
      BY <1>5, EmptyIsSeq DEF ExecuteMatrix
    <3> QED BY <1>1, <1>5, <3>1 DEF ExecuteMatrix, BencherTyped, bencher, mollusk, files
  <2>2. Len(mx_results') = 0 /\ Len(programs) \in Nat
    BY <1>1, <1>5, BencherFacts DEF ExecuteMatrix
  <2>3. MatrixKept'
    <3>1. kind = "matrix" /\ Borrowed
      BY <1>1, <1>5 DEF ExecuteMatrix, MatrixKept
    <3>2. Borrowed'
      BY <1>5, <3>1 DEF ExecuteMatrix, Borrowed, Settled, Find, bencher, mollusk
    <3> QED BY <1>5, <2>2, <3>2 DEF ExecuteMatrix, MatrixKept, bencher
  <2>4. FailuresAbort' /\ ColumnsOfMatrix' /\ LedgerTrue'
    BY <1>1, <1>5, ZenonT(30) DEF ExecuteMatrix, FailuresAbort, ColumnsOfMatrix, LedgerTrue, bencher, files
  <2> QED BY <2>1, <2>3, <2>4 DEF BInv
<1>6. <<>> \in Seq(Program) /\ ProgramLists \subseteq Seq(Program)
  BY EmptyIsSeq, BencherAssumption
<1> QED BY <1>2, <1>3, <1>4, <1>5, <1>6

LEMMA StepBInv == BInv /\ [Next]_vars => BInv'
<1> SUFFICES ASSUME BInv, [Next]_vars PROVE BInv'
  OBVIOUS
<1>1. CASE Drop
  <2>1. failures' = 0
    BY <1>1 DEF Drop, BInv, FailuresAbort, execution
  <2>2. deployed' \in [ProgramId -> Image \cup {Untouched}]
    BY <1>1 DEF Drop, NothingDeployed, BInv, BencherTyped
  <2> QED BY <1>1, <2>1, <2>2, GoneBInv DEF Drop
<1>2. CASE BenchPanics \/ WritePanics
  <2>1. deployed' \in [ProgramId -> Image \cup {Untouched}]
    <3>1. NothingDeployed \in [ProgramId -> Image \cup {Untouched}]
      BY DEF NothingDeployed
    <3>2. ASSUME todo # <<>> PROVE Deployed(Head(todo)) \in [ProgramId -> Image \cup {Untouched}]
      <4>1. OutcomeOf(Head(todo)) \in Outcome
        BY <3>2, BencherFacts DEF BInv
      <4> QED BY <4>1 DEF Deployed, Outcome, BInv, BencherTyped
    <3> QED BY <1>2, <3>1, <3>2 DEF BenchPanics, WritePanics
  <2> QED BY <1>2, <2>1, GoneBInv DEF BenchPanics, WritePanics, Unwind
<1>3. CASE UNCHANGED vars
  <2>1. BencherTyped'
    BY <1>3 DEF vars, BInv, BencherTyped
  <2>2. MatrixKept'
    <3>1. Borrowed' = Borrowed /\ \A r, b, c : CellIs(r, b, c)' = CellIs(r, b, c)
      BY <1>3 DEF vars, CellIs, Cell, AtColumn, Settled, Borrowed, Find
    <3> QED BY <1>3, <3>1, ZenonT(30) DEF vars, BInv, MatrixKept
  <2>3. FailuresAbort' /\ ColumnsOfMatrix' /\ LedgerTrue'
    BY <1>3, ZenonT(30) DEF vars, BInv, FailuresAbort, ColumnsOfMatrix, LedgerTrue
  <2> QED BY <2>1, <2>2, <2>3 DEF BInv
<1> QED
  BY <1>1, <1>2, <1>3, OutsideBInv, StartColumnBInv, RunBenchBInv, EndColumnBInv,
     WriteResultsBInv, WriteMatrixBInv DEF Next

(* Which steps write a file.                                               *)
LEMMA FileWritten ==
  ASSUME [Next]_vars
  PROVE  /\ file' # file => WriteResults
         /\ mx_file' # mx_file => WriteMatrix
BY DEF Next, vars, files, Rebuild, NewBencher, Drop, Execute, ExecuteMatrix, StartColumn, RunBench,
       BenchPanics, EndColumn, WriteResults, WritePanics, WriteMatrix, Unwind

LEMMA StepChangeFound == BInv /\ [Next]_vars => [ChangeFound]_vars
<1> SUFFICES ASSUME BInv, [Next]_vars, file' # file, file # <<>>, Legible(Head(file))
             PROVE  \E i \in DOMAIN results :
                      LET rows == RowOf(Head(file), results[i].name)
                      IN  \A row \in rows : (\A other \in rows : row <= other) =>
                            Head(file)[row].cus_consumed # results[i].cus_consumed
  BY DEF ChangeFound
<1>1. file' = write_results(file, results)
  BY FileWritten DEF WriteResults
<1>2. file \in Seq(ReportTable) /\ results \in Seq(BenchResult) /\ DeltasTrue(file)
  BY LedgerHalves DEF BInv, BencherTyped
<1> QED BY <1>1, <1>2, ResultsWritten

LEMMA StepFilesUntouched == BInv /\ [Next]_vars => [FilesUntouched]_vars
BY DEF BInv, FailuresAbort, FilesUntouched, BencherTyped

LEMMA StepTableTrue == BInv /\ [Next]_vars => [TableTrue]_vars
<1> SUFFICES ASSUME BInv, [Next]_vars, mx_file' # mx_file, Settled(benches) PROVE TableTrue
  BY DEF TableTrue
<1>1. /\ BencherTyped /\ MatrixKept /\ kind = "matrix" /\ pc = "column"
      /\ Len(mx_results) = Len(programs) /\ mx_file' = mx_write_results(mx_file, mx_results)
  BY FileWritten DEF WriteMatrix, BInv, ColumnsOfMatrix
<1>2. mx_results # <<>>
  BY <1>1 DEF mx_write_results
<1>3. /\ Head(mx_file').header = programs /\ Len(Head(mx_file').rows) = Len(benches)
      /\ \A row \in 1..Len(benches) : \A c \in 1..Len(programs) :
           Head(mx_file').rows[row].cells[c] = Cell(benches[row], c)
  BY <1>1, <1>2, MatrixWritten
<1>4. DOMAIN benches = 1..Len(benches) /\ DOMAIN programs = 1..Len(programs)
  BY <1>1, BencherFacts
<1>5. \A row \in DOMAIN benches : \A c \in DOMAIN programs :
        Head(mx_file').rows[row].cells[c]
          = outcome[benches[row].ix][[id \in Reaches[benches[row].ix] |-> AtColumn(c)[id]]].cus
  <2>1. SUFFICES ASSUME NEW row \in DOMAIN benches, NEW c \in DOMAIN programs
                 PROVE  Head(mx_file').rows[row].cells[c] = Cell(benches[row], c)
    BY Zenon DEF Cell
  <2> QED BY <1>3, <1>4, <2>1
<1> QED BY <1>3, <1>5, Zenon DEF TableTrue

-----------------------------------------------------------------------------
(* The results.                                                            *)

(* Types, the count of failures, the columns of a matrix, and the ledger.  *)
THEOREM BencherInvariance == Spec => []BInv
<1>1. Init => BInv
  BY InitBInv
<1>2. BInv /\ [Next]_vars => BInv'
  BY StepBInv
<1> QED BY <1>1, <1>2, PTL DEF Spec

(* write_results keeps compute_units.md a ledger: its newest table has     *)
(* what was measured last, and every delta in it is the difference to the  *)
(* table below, unless that one is read back with other units.             *)
THEOREM Ledger == Spec => []LedgerTrue
<1>1. BInv => LedgerTrue
  BY DEF BInv
<1> QED BY <1>1, BencherInvariance, PTL

(* write_results adds a table only if there were changes.                  *)
THEOREM ReasonToWrite == Spec => UnchangedWritesNothing
<1>1. BInv /\ [Next]_vars => [ChangeFound]_vars
  BY StepChangeFound
<1> QED BY <1>1, BencherInvariance, PTL DEF Spec, UnchangedWritesNothing

(* A failure under must_pass leaves no trace in either file.               *)
THEOREM NothingAfterFailure == Spec => FailureWritesNothing
<1>1. BInv /\ [Next]_vars => [FilesUntouched]_vars
  BY StepFilesUntouched
<1> QED BY <1>1, BencherInvariance, PTL DEF Spec, FailureWritesNothing

(* Every cell of a matrix is what its row's bench takes with the program   *)
(* of its column in place, if no bench deploys or closes one.              *)
THEOREM CellsOfTheirPrograms == Spec => MatrixCells
<1>1. BInv /\ [Next]_vars => [TableTrue]_vars
  BY StepTableTrue
<1> QED BY <1>1, BencherInvariance, PTL DEF Spec, MatrixCells
=============================================================================
