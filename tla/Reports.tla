------------------------------- MODULE Reports -------------------------------
(***************************************************************************)
(* The files of compute unit tables (bencher/src/result.rs), which the     *)
(* benchers and the command line runner share.  A file is the sequence of  *)
(* its tables, the newest first; a table is a sequence of rows.  Headers   *)
(* and layout are left out, but for what they do to a name when it is read *)
(* back: it is trimmed, and a bar in it ends it; what comes after the bar  *)
(* is then taken for the units, which panics unless it is a number.  No    *)
(* name has a line break.                                                  *)
(***************************************************************************)
EXTENDS Integers, Sequences, FiniteSets, SequencesExt

CONSTANTS
  Name,      \* names of benches
  Trimmed,   \* what reading a name back makes of it: up to a bar, trimmed
  Barred,    \* the names with a bar in them and no number after it
  Inset,     \* the names with a bar and a number after it: that number
  New        \* the delta "- new -"

ASSUME NamesAssumption ==
  /\ Trimmed \in [Name -> Name] /\ Barred \subseteq Name
  /\ DOMAIN Inset \subseteq Name \ Barred /\ Inset \in [DOMAIN Inset -> Nat]
  /\ \A n \in Name : /\ Trimmed[Trimmed[n]] = Trimmed[n]
                     /\ Trimmed[n] \notin Barred \cup DOMAIN Inset
  /\ New \notin Int

(* A bench result, MolluskComputeUnitBenchResult, and a row; the delta "--" *)
(* is 0.                                                                   *)
BenchResult == [name : Name, cus_consumed : Nat]
Row == [name : Name, cus_consumed : Nat, delta : Int \cup {New}]

Result(name, cus) == [name |-> name, cus_consumed |-> cus]

(* Names that a table keeps apart, and gives back as they are.             *)
Plain(results) ==
  \A i, j \in DOMAIN results :
    /\ Trimmed[results[i].name] = results[i].name
    /\ results[i].name = results[j].name => i = j

-----------------------------------------------------------------------------
(* A table whose rows are read back with their own units.                  *)
Legible(table) == \A i \in DOMAIN table : table[i].name \notin DOMAIN Inset

(* The units of a row, as they are parsed.                                 *)
UnitsRead(row) == IF row.name \in DOMAIN Inset THEN Inset[row.name] ELSE row.cus_consumed

(* What is taken for the units of some row does not parse, which panics.   *)
Unreadable(file) ==
  file # <<>> /\ \E i \in DOMAIN Head(file) : Head(file)[i].name \in Barred

\* Mutant: the table at the end of the file, which is the oldest.
ParsedOldest(file) ==
  IF file = <<>> THEN <<>>
  ELSE LET table == file[Len(file)]
       IN  [i \in DOMAIN table |-> Result(Trimmed[table[i].name], UnitsRead(table[i]))]

(* The rows of the newest table, which is the first.                       *)
parse_last_md_table(file) ==
  IF file = <<>> THEN <<>>
  ELSE [i \in DOMAIN Head(file) |->
          Result(Trimmed[Head(file)[i].name], UnitsRead(Head(file)[i]))]

(* previous.iter().find(...): the place of its first row of that name.     *)
FirstOf(previous, name) ==
  SelectInSeq(previous, LAMBDA prev : prev.name = name)

Delta(previous, result) ==
  LET i == FirstOf(previous, result.name)
  IN  IF i = 0 THEN New ELSE result.cus_consumed - previous[i].cus_consumed

Table(previous, results) ==
  [i \in DOMAIN results |->
     [name |-> results[i].name, cus_consumed |-> results[i].cus_consumed,
      delta |-> Delta(previous, results[i])]]

\* Mutant: only units that went up or down count, not new rows.
ChangedUnits(table) == \E i \in DOMAIN table : table[i].delta \notin {0, New}

(* no_changes is unset.                                                    *)
Changed(table) == \E i \in DOMAIN table : table[i].delta # 0

(* prepend_to_md_file.                                                     *)
Prepended(file, table) == <<table>> \o file

(* write_results: a new table if any row differs from the newest table.    *)
write_results(file, results) ==
  LET table == Table(parse_last_md_table(file), results)
  IN  IF Changed(table) THEN Prepended(file, table) ELSE file

-----------------------------------------------------------------------------
(* A matrix has a column per program and no deltas: its rows are the names *)
(* of the first program's results.                                         *)
MatrixResult == [program_name : Name, results : Seq(BenchResult)]

(* The cells of a row, column by column; one without the row is left out.  *)
CellsUpTo(results, row) ==
  LET upTo[c \in 0..Len(results)] ==
        CASE c = 0 -> <<>>
          [] c > 0 /\ row \in DOMAIN results[c].results ->
               Append(upTo[c - 1], results[c].results[row].cus_consumed)
          [] OTHER -> upTo[c - 1]
  IN  upTo

MatrixRow(results, row) ==
  [name |-> results[1].results[row].name,
   cells |-> CellsUpTo(results, row)[Len(results)]]

(* mx_write_results: nothing without programs, else always a table.        *)
mx_write_results(file, results) ==
  IF results = <<>> THEN file
  ELSE Prepended(file, [header |-> [c \in DOMAIN results |-> results[c].program_name],
                        rows |-> [row \in DOMAIN results[1].results |->
                                    MatrixRow(results, row)]])
=============================================================================
