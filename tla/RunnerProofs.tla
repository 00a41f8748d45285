---------------------------- MODULE RunnerProofs ----------------------------
(***************************************************************************)
(* Proofs about Runner, for any command lines, programs and fixtures:      *)
(* which programs a fixture meets, what the status of the process says of  *)
(* all fixtures, and what the report has of them.                          *)
(***************************************************************************)
EXTENDS Runner, SumProofs, FiniteSetTheorems

-----------------------------------------------------------------------------
(* The inductive invariant.                                                *)

Running == pc \in {"ground", "target", "compare", "exit"}

(* A Mollusk that was made with an ELF and has run k fixtures of a list.   *)
MolluskKept(c, list, mollusk, elf, k) ==
  /\ mollusk \in [added : [ProgramId -> Image \cup {Missing}],
                  deployed : [ProgramId -> Image \cup {Missing}]]
  /\ \A id \in ProgramId : mollusk.added[id] = ElfAt(c, elf, id)
  /\ \A id \in ProgramId : mollusk.deployed[id] # Missing =>
       \E j \in 1..k : \E view \in Views(list[j]) :
         Deploys[list[j]][view][id] = mollusk.deployed[id]

(* The result of the i-th fixture on a Mollusk that was made with an ELF.  *)
ResultKept(c, list, i, r, elf) ==
  /\ list[i] \notin Corrupt /\ r # Missing
  /\ \E view \in Views(list[i]) :
       /\ \A id \in Reaches[list[i]] : view[id] \in MayMeet(c, elf, list, i, id)
       /\ r = Outcome[list[i]][view]
  /\ Undisturbed(Found(c), list[i]) => r = Alone(c, elf, list[i])

(* The rows for the first k fixtures.                                      *)
RowsKept(c, list, rows, k) ==
  /\ rows \in Seq(BenchResult) /\ Len(rows) = k
  /\ \A i \in 1..k : Undisturbed(Found(c), list[i]) =>
       rows[i] = Result(NameOf[list[i]], Alone(c, c.elf, list[i]).compute_units)

(* What k fixtures of a list have shown.                                   *)
FailuresOf(c, list, k, n) ==
  /\ \A i \in 1..k : Runs(c, list[i])
  /\ n > 0 <=> \E i \in 1..k : ~Passes(c, list[i])

(* How many fixtures each Mollusk has run.                                 *)
TargetRuns == IF pc = "compare" THEN next ELSE next - 1
GroundRuns == IF pc \in {"target", "compare"} THEN next ELSE next - 1

(* Where a run stands.                                                     *)
RunPlaced ==
  /\ command \in Commands /\ failures \in Nat /\ file \in Seq(Seq(Row))
  /\ pc \in {"setup", "ground", "target", "compare", "exit", "done"}
  /\ pc = "setup" => failures = 0 /\ bench_results = <<>>
  /\ Running =>
       /\ Started(command) /\ fixtures \in search_paths(command.files)
       /\ next \in 1..(Len(fixtures) + 1)
       /\ pc = "exit" <=> next = Len(fixtures) + 1
       /\ pc = "ground" => IsRunTest(command)

MollusksKept ==
  Running =>
    /\ MolluskKept(command, fixtures, target, command.elf, TargetRuns)
    /\ IsRunTest(command) => MolluskKept(command, fixtures, ground, command.source, GroundRuns)

ResultsKept ==
  /\ pc = "compare" => ResultKept(command, fixtures, next, target_result, command.elf)
  /\ pc \in {"target", "compare"} /\ IsRunTest(command) =>
       ResultKept(command, fixtures, next, ground_result, command.source)

BenchesKept ==
  Running /\ command.cus_report => RowsKept(command, fixtures, bench_results, TargetRuns)

FailuresKept ==
  Running /\ (\A f \in Found(command) : Undisturbed(Found(command), f)) =>
    FailuresOf(command, fixtures, next - 1, failures)

RInv ==
  /\ RunPlaced /\ MollusksKept /\ ResultsKept /\ BenchesKept
  /\ FailuresKept /\ VerdictOfFixtures

-----------------------------------------------------------------------------
(* Lemmas on the programs of a Mollusk.                                    *)

LoadSteps(loads, added, preloads, flag) ==
  /\ loads[0] = added
  /\ \A n \in 1..Len(preloads) :
       /\ preloads[n].flag # flag => loads[n] = loads[n - 1]
       /\ preloads[n].flag = flag =>
            loads[n] = [loads[n - 1] EXCEPT ![preloads[n].id] = preloads[n].elf]

LEMMA LoadsDefined ==
  ASSUME NEW added, NEW preloads, Len(preloads) \in Nat, NEW flag
  PROVE  LoadSteps(Loads(added, preloads, flag), added, preloads, flag)
<1> DEFINE Step(f, n) == IF n = 0 THEN added
                         ELSE IF preloads[n].flag # flag THEN f[n - 1]
                         ELSE [f[n - 1] EXCEPT ![preloads[n].id] = preloads[n].elf]
           Rec(f, m) == f = [n \in 0..m |-> Step(f, n)]
           Defined(m) == \E f : Rec(f, m)
           S == {m \in Nat : Defined(m)}
<1>1. 0 \in S
  <2> DEFINE f == [n \in 0..0 |-> added]
  <2>1. Rec(f, 0)
    OBVIOUS
  <2> QED BY <2>1
<1>2. ASSUME NEW m \in S PROVE m + 1 \in S
  <2>1. PICK f : Rec(f, m)
    OBVIOUS
  <2> DEFINE last == Step(f, m + 1)
             g == [n \in 0..(m + 1) |-> IF n = m + 1 THEN last ELSE f[n]]
  <2>2. DOMAIN f = 0..m /\ \A n \in 0..m : f[n] = Step(f, n)
    <3> HIDE DEF Step
    <3> QED BY <2>1
  <2>3. \A n \in 0..m : Step(g, n) = Step(f, n)
    <3>1. \A n \in 0..m : n = 0 \/ (n - 1 \in 0..(m + 1) /\ n - 1 # m + 1)
      OBVIOUS
    <3>2. \A n \in 0..m : n = 0 \/ g[n - 1] = f[n - 1]
      <4> HIDE DEF last
      <4> QED BY <3>1
    <3> HIDE DEF g
    <3> QED BY <3>2, Zenon
  <2>4. Step(g, m + 1) = last
    BY SMTT(30)
  <2>5. \A n \in 0..(m + 1) : g[n] = Step(g, n)
    <3> HIDE DEF Step, last
    <3> QED BY <2>2, <2>3, <2>4
  <2>6. Rec(g, m + 1)
    <3> HIDE DEF Step, last
    <3> QED BY <2>5
  <2> HIDE DEF g, Rec
  <2>7. Defined(m + 1)
    BY <2>6
  <2> HIDE DEF Defined
  <2> QED BY <2>7
<1>3. S = Nat
  <2> HIDE DEF S
  <2> QED BY <1>1, <1>2, InductiveSet DEF S
<1>4. \E f : Rec(f, Len(preloads))
  BY <1>3
<1> DEFINE loads == Loads(added, preloads, flag)
<1>5. loads = [n \in 0..Len(preloads) |-> Step(loads, n)]
  BY <1>4, Zenon DEF Loads
<1> HIDE DEF loads
<1>6. \A n \in 0..Len(preloads) : loads[n] = Step(loads, n)
  <2> HIDE DEF Step
  <2> QED BY <1>5
<1>7. loads[0] = added
  <2>1. 0 \in 0..Len(preloads)
    OBVIOUS
  <2> QED BY <1>6, <2>1, Zenon
<1>8. \A n \in 1..Len(preloads) : n \in 0..Len(preloads) /\ n # 0
  OBVIOUS
<1>9. \A n \in 1..Len(preloads) :
        /\ preloads[n].flag # flag => loads[n] = loads[n - 1]
        /\ preloads[n].flag = flag =>
             loads[n] = [loads[n - 1] EXCEPT ![preloads[n].id] = preloads[n].elf]
  BY <1>6, <1>8, Zenon
<1> QED BY <1>7, <1>9, Zenon DEF loads, LoadSteps

(* The i-th preload is one, or the last one, of a flag under an address.   *)
LoadOf(preloads, flag, i, id) == preloads[i].flag = flag /\ preloads[i].id = id

LastLoadOf(preloads, flag, i, id) ==
  /\ LoadOf(preloads, flag, i, id)
  /\ \A j \in 1..Len(preloads) : LoadOf(preloads, flag, j, id) => j <= i

(* What a loop over the preloads of a flag makes of what was added before. *)
LastLoaded(added, loaded, preloads, flag) ==
  \A id \in ProgramId :
    \/ /\ \A i \in 1..Len(preloads) : ~LoadOf(preloads, flag, i, id)
       /\ loaded[id] = added[id]
    \/ \E i \in 1..Len(preloads) :
         LastLoadOf(preloads, flag, i, id) /\ loaded[id] = preloads[i].elf

LEMMA LoadedLast ==
  ASSUME NEW V, NEW added \in [ProgramId -> V], NEW preloads, Len(preloads) \in Nat,
         \A i \in 1..Len(preloads) : preloads[i].id \in ProgramId /\ preloads[i].elf \in V,
         NEW flag
  PROVE  /\ Loaded(added, preloads, flag) \in [ProgramId -> V]
         /\ LastLoaded(added, Loaded(added, preloads, flag), preloads, flag)
<1> DEFINE loads == Loads(added, preloads, flag)
           Of(i, id) == preloads[i].flag = flag /\ preloads[i].id = id
           LastIs(n, id) ==
             \/ (\A i \in 1..n : ~Of(i, id)) /\ loads[n][id] = added[id]
             \/ \E i \in 1..n : /\ Of(i, id) /\ \A j \in 1..n : Of(j, id) => j <= i
                                /\ loads[n][id] = preloads[i].elf
           S == {n \in 0..Len(preloads) :
                   loads[n] \in [ProgramId -> V] /\ \A id \in ProgramId : LastIs(n, id)}
<1>1. /\ loads[0] = added
      /\ \A n \in 1..Len(preloads) :
           /\ preloads[n].flag # flag => loads[n] = loads[n - 1]
           /\ preloads[n].flag = flag =>
                loads[n] = [loads[n - 1] EXCEPT ![preloads[n].id] = preloads[n].elf]
  <2>1. LoadSteps(loads, added, preloads, flag)
    BY LoadsDefined
  <2> HIDE DEF loads
  <2> QED BY <2>1, Zenon DEF LoadSteps
<1> HIDE DEF loads
<1>2. 0 \in S
  <2>1. loads[0] = added
    BY <1>1
  <2> QED BY <2>1
<1>3. ASSUME NEW n \in 0..(Len(preloads) - 1), n \in S PROVE n + 1 \in S
  <2>1. /\ loads[n] \in [ProgramId -> V] /\ n + 1 \in 1..Len(preloads)
        /\ \A id \in ProgramId : LastIs(n, id)
    BY <1>3
  <2>2. CASE preloads[n + 1].flag # flag
    <3>1. loads[n + 1] = loads[n]
      <4>1. (n + 1) - 1 = n
        OBVIOUS
      <4>2. \A m \in 1..Len(preloads) : preloads[m].flag # flag => loads[m] = loads[m - 1]
        BY <1>1, Zenon
      <4>3. loads[n + 1] = loads[(n + 1) - 1]
        BY <2>1, <2>2, <4>2, Zenon
      <4> QED BY <4>1, <4>3
    <3>2. \A id : ~Of(n + 1, id)
      BY <2>2
    <3>3. \A i \in 1..(n + 1) : i \in 1..n \/ i = n + 1
      OBVIOUS
    <3>4. ASSUME NEW id \in ProgramId PROVE LastIs(n + 1, id)
      <4>1. LastIs(n, id)
        BY <2>1
      <4> HIDE DEF Of
      <4>2. CASE (\A i \in 1..n : ~Of(i, id)) /\ loads[n][id] = added[id]
        BY <3>1, <3>2, <3>3, <4>2
      <4>3. CASE \E i \in 1..n : /\ Of(i, id) /\ \A j \in 1..n : Of(j, id) => j <= i
                                 /\ loads[n][id] = preloads[i].elf
        <5>1. PICK i \in 1..n : /\ Of(i, id) /\ \A j \in 1..n : Of(j, id) => j <= i
                                /\ loads[n][id] = preloads[i].elf
          BY <4>3
        <5>2. i \in 1..(n + 1) /\ \A j \in 1..(n + 1) : Of(j, id) => j <= i
          BY <3>2, <3>3, <5>1
        <5> QED BY <3>1, <5>1, <5>2
      <4> QED BY <4>1, <4>2, <4>3
    <3> QED BY <2>1, <3>1, <3>4
  <2>3. CASE preloads[n + 1].flag = flag
    <3> DEFINE at == preloads[n + 1].id
    <3>1. loads[n + 1] = [loads[n] EXCEPT ![at] = preloads[n + 1].elf]
      <4>1. (n + 1) - 1 = n
        OBVIOUS
      <4> QED BY <1>1, <2>1, <2>3, <4>1, Zenon
    <3>2. at \in ProgramId /\ preloads[n + 1].elf \in V
      BY <2>1
    <3>3. \A i \in 1..(n + 1) : i \in 1..n \/ i = n + 1
      OBVIOUS
    <3>4. ASSUME NEW id \in ProgramId PROVE LastIs(n + 1, id)
      <4>1. LastIs(n, id)
        BY <2>1
      <4>2. CASE id = at
        <5>1. loads[n + 1][id] = preloads[n + 1].elf
          BY <2>1, <3>1, <3>2, <4>2
        <5>2. n + 1 \in 1..(n + 1) /\ Of(n + 1, id) /\ \A j \in 1..(n + 1) : j <= n + 1
          BY <2>3, <4>2
        <5> HIDE DEF Of
        <5> QED BY <5>1, <5>2
      <4>3. CASE id # at
        <5>1. loads[n + 1][id] = loads[n][id] /\ ~Of(n + 1, id)
          BY <2>1, <3>1, <4>3
        <5> HIDE DEF Of
        <5>2. CASE (\A i \in 1..n : ~Of(i, id)) /\ loads[n][id] = added[id]
          BY <3>3, <5>1, <5>2
        <5>3. CASE \E i \in 1..n : /\ Of(i, id) /\ \A j \in 1..n : Of(j, id) => j <= i
                                   /\ loads[n][id] = preloads[i].elf
          <6>1. PICK i \in 1..n : /\ Of(i, id) /\ \A j \in 1..n : Of(j, id) => j <= i
                                  /\ loads[n][id] = preloads[i].elf
            BY <5>3
          <6>2. i \in 1..(n + 1) /\ \A j \in 1..(n + 1) : Of(j, id) => j <= i
            BY <3>3, <5>1, <6>1
          <6> QED BY <5>1, <6>1, <6>2
        <5> QED BY <4>1, <5>2, <5>3
      <4> QED BY <4>2, <4>3
    <3>5. loads[n + 1] \in [ProgramId -> V]
      BY <2>1, <3>1, <3>2
    <3> QED BY <2>1, <3>4, <3>5
  <2> QED BY <2>2, <2>3
<1>4. S = 0..Len(preloads)
  <2>1. S \in SUBSET (0..Len(preloads))
    OBVIOUS
  <2> HIDE DEF S
  <2> QED BY <1>2, <1>3, <2>1, InductiveUpTo
<1>5. Len(preloads) \in S
  BY <1>4
<1> QED BY <1>5 DEF loads, Loaded, LastLoaded, LastLoadOf, LoadOf

(* What a command line and its preloads are.                               *)
LEMMA CommandFacts ==
  ASSUME NEW c \in Commands
  PROVE  /\ c \in Command /\ c.id \in ProgramId /\ IsFiniteSet(c.files)
         /\ c.source # Missing => c.inputs_only
         /\ Len(c.preloads) \in Nat /\ DOMAIN c.preloads = 1..Len(c.preloads)
         /\ \A i \in 1..Len(c.preloads) :
              /\ c.preloads[i].flag \in Flag /\ c.preloads[i].id \in ProgramId
              /\ ~ElfMissing(c) => c.preloads[i].elf \in Elf
         /\ ~ElfMissing(c) => c.elf \in Elf /\ c.source \in Elf \cup {Missing}
<1>1. /\ c \in Command /\ IsFiniteSet(c.files) /\ (c.source # Missing => c.inputs_only)
  BY RunnerAssumption
<1>2. c.id \in ProgramId /\ c.preloads \in Seq(Preload)
      /\ c.elf \in Elf \cup {Absent} /\ c.source \in Elf \cup {Missing, Absent}
  BY <1>1 DEF Command
<1>3. /\ Len(c.preloads) \in Nat /\ DOMAIN c.preloads = 1..Len(c.preloads)
      /\ \A i \in 1..Len(c.preloads) : c.preloads[i] \in Preload
  <2> HIDE DEF Preload
  <2> QED BY <1>2, SeqFacts
<1>4. \A i \in 1..Len(c.preloads) :
        /\ c.preloads[i].flag \in Flag /\ c.preloads[i].id \in ProgramId
        /\ c.preloads[i].elf \in Elf \cup {Absent}
  BY <1>3 DEF Preload
<1>5. ~ElfMissing(c) =>
        /\ c.elf # Absent /\ c.source # Absent
        /\ \A i \in 1..Len(c.preloads) : c.preloads[i].elf # Absent
  BY <1>3 DEF ElfMissing
<1> QED BY <1>1, <1>2, <1>3, <1>4, <1>5

RankOf(flag) ==
  CHOOSE n \in 1..3 : flag =
    <<"add_program", "add_program_with_loader", "add_program_with_loader_and_elf">>[n]

(* The places of flags in the order in which they are applied.             *)
LEMMA RankOfFlags ==
  /\ RankOf("add_program") = 1 /\ RankOf("add_program_with_loader") = 2
  /\ RankOf("add_program_with_loader_and_elf") = 3
<1> DEFINE flags == <<"add_program", "add_program_with_loader", "add_program_with_loader_and_elf">>
           Is(flag, n) == flag = flags[n]
<1>1. /\ flags[1] = "add_program" /\ flags[2] = "add_program_with_loader"
      /\ flags[3] = "add_program_with_loader_and_elf"
  OBVIOUS
<1>2. \A m, n \in 1..3 : flags[m] = flags[n] => m = n
  <2>1. \A n \in 1..3 : n = 1 \/ n = 2 \/ n = 3
    OBVIOUS
  <2> HIDE DEF flags
  <2> QED BY <1>1, <2>1
<1> HIDE DEF flags
<1>3. \A m \in 1..3 : \A n \in 1..3 : Is(flags[m], n) <=> n = m
  BY <1>2
<1>4. \A m \in 1..3 : (CHOOSE n \in 1..3 : Is(flags[m], n)) = m
  <2> HIDE DEF Is
  <2> QED BY <1>3
<1>5. \A m \in 1..3 : RankOf(flags[m]) = CHOOSE n \in 1..3 : Is(flags[m], n)
  BY Zenon DEF RankOf, flags
<1>6. 1 \in 1..3 /\ 2 \in 1..3 /\ 3 \in 1..3
  OBVIOUS
<1>7. \A m \in 1..3 : RankOf(flags[m]) = m
  BY <1>4, <1>5
<1> QED BY <1>1, <1>6, <1>7

(* After the three loops and the ELF of the command line, an address has   *)
(* what ElfAt says: the order of the flags decides, then the command line. *)
LEMMA AddedElf ==
  ASSUME NEW c \in Commands, ~ElfMissing(c), NEW elf \in Elf
  PROVE  /\ NewMollusk(c, elf) \in [added : [ProgramId -> Image \cup {Missing}],
                                    deployed : [ProgramId -> Image \cup {Missing}]]
         /\ \A id \in ProgramId :
              /\ NewMollusk(c, elf).added[id] = ElfAt(c, elf, id)
              /\ NewMollusk(c, elf).deployed[id] = Missing
<1> DEFINE V == Image \cup {Missing}
           P == c.preloads
           n == Len(P)
           f1 == "add_program"
           f2 == "add_program_with_loader"
           f3 == "add_program_with_loader_and_elf"
           A1 == Loaded(Builtin, P, f1)
           A2 == Loaded(A1, P, f2)
           A3 == Loaded(A2, P, f3)
           Of(flag, i, id) == LoadOf(P, flag, i, id)
           Latest(flag, i, id) == LastLoadOf(P, flag, i, id)
<1>1. /\ n \in Nat /\ DOMAIN P = 1..n
      /\ \A i \in 1..n : P[i].flag \in Flag /\ P[i].id \in ProgramId /\ P[i].elf \in V
  BY CommandFacts, RunnerAssumption
<1>2. Builtin \in [ProgramId -> V] /\ elf \in V
  BY RunnerAssumption
<1> HIDE DEF V
<1>3. A1 \in [ProgramId -> V] /\ LastLoaded(Builtin, A1, P, f1)
  BY <1>1, <1>2, LoadedLast
<1> HIDE DEF A1
<1>4. A2 \in [ProgramId -> V] /\ LastLoaded(A1, A2, P, f2)
  BY <1>1, <1>3, LoadedLast
<1> HIDE DEF A2
<1>5. A3 \in [ProgramId -> V] /\ LastLoaded(A2, A3, P, f3)
  BY <1>1, <1>4, LoadedLast
<1> HIDE DEF A3
<1>6. Additions(c, elf) = [A3 EXCEPT ![c.id] = elf]
  BY DEF Additions, apply_program_load_args, A1, A2, A3
<1>7. Additions(c, elf) \in [ProgramId -> V]
  BY <1>2, <1>5, <1>6
<1>8. ASSUME NEW id \in ProgramId PROVE Additions(c, elf)[id] = ElfAt(c, elf, id)
  <2> DEFINE Rank(i) == RankOf(P[i].flag)
             under == {i \in DOMAIN P : P[i].id = id}
             Outranks(i, j) == Rank(i) > Rank(j) \/ (Rank(i) = Rank(j) /\ i >= j)
             Top(i) == \A j \in under : Outranks(i, j)
  <2>1. ElfAt(c, elf, id) = CASE id = c.id -> elf
                              [] id # c.id /\ under = {} -> Builtin[id]
                              [] OTHER -> P[CHOOSE i \in under : Top(i)].elf
    BY Zenon DEF ElfAt, RankOf
  <2>2. CASE id = c.id
    BY <1>5, <1>6, <2>1, <2>2
  <2>3. CASE id # c.id
    <3>1. Additions(c, elf)[id] = A3[id]
      BY <1>5, <1>6, <2>3
    <3>2. ElfAt(c, elf, id) = IF under = {} THEN Builtin[id] ELSE P[CHOOSE i \in under : Top(i)].elf
      <4> HIDE DEF under, Top
      <4> QED BY <2>1, <2>3
    <3>3. \A i \in under :
            /\ i \in 1..n
            /\ \/ Of(f1, i, id) /\ Rank(i) = 1
               \/ Of(f2, i, id) /\ Rank(i) = 2
               \/ Of(f3, i, id) /\ Rank(i) = 3
      BY <1>1, RankOfFlags DEF Flag, LoadOf
    <3>4. \A i \in 1..n :
            /\ Of(f1, i, id) => i \in under /\ Rank(i) = 1
            /\ Of(f2, i, id) => i \in under /\ Rank(i) = 2
            /\ Of(f3, i, id) => i \in under /\ Rank(i) = 3
      BY <1>1, RankOfFlags DEF LoadOf
    <3>5. \A flag : \A i \in 1..n : Latest(flag, i, id) =>
             Of(flag, i, id) /\ \A j \in 1..n : Of(flag, j, id) => j <= i
      BY DEF LastLoadOf
    <3> HIDE DEF Of, under, Rank
    <3>6. \A i \in under : Top(i) => (CHOOSE j \in under : Top(j)) = i
      <4>1. \A i, j \in under : Outranks(i, j) /\ Outranks(j, i) => i = j
        BY <3>3
      <4>2. \A i, j \in under : Top(i) /\ Top(j) => i = j
        BY <4>1
      <4> HIDE DEF Top
      <4> QED BY <4>2
    <3>7. ASSUME NEW i \in 1..n, Latest(f3, i, id) PROVE i \in under /\ Top(i)
      BY <3>3, <3>4, <3>7, <3>5
    <3>8. ASSUME NEW i \in 1..n, Latest(f2, i, id), \A j \in 1..n : ~Of(f3, j, id)
          PROVE  i \in under /\ Top(i)
      BY <3>3, <3>4, <3>8, <3>5
    <3>9. ASSUME NEW i \in 1..n, Latest(f1, i, id),
                 \A j \in 1..n : ~Of(f3, j, id) /\ ~Of(f2, j, id)
          PROVE  i \in under /\ Top(i)
      BY <3>3, <3>4, <3>9, <3>5
    <3>10. ASSUME NEW i \in under, Top(i) PROVE ElfAt(c, elf, id) = P[i].elf
      <4>1. (CHOOSE j \in under : Top(j)) = i /\ under # {}
        BY <3>6, <3>10
      <4> HIDE DEF Top
      <4> QED BY <3>2, <4>1
    <3> HIDE DEF Latest, Top, P, n
    <3>11. CASE \E i \in 1..n : Latest(f3, i, id) /\ A3[id] = P[i].elf
      BY <3>1, <3>7, <3>10, <3>11
    <3>12. CASE (\A i \in 1..n : ~Of(f3, i, id)) /\ A3[id] = A2[id]
      <4>1. CASE \E i \in 1..n : Latest(f2, i, id) /\ A2[id] = P[i].elf
        BY <3>1, <3>8, <3>10, <3>12, <4>1
      <4>2. CASE (\A i \in 1..n : ~Of(f2, i, id)) /\ A2[id] = A1[id]
        <5>1. CASE \E i \in 1..n : Latest(f1, i, id) /\ A1[id] = P[i].elf
          BY <3>1, <3>9, <3>10, <3>12, <4>2, <5>1
        <5>2. CASE (\A i \in 1..n : ~Of(f1, i, id)) /\ A1[id] = Builtin[id]
          <6>1. under = {}
            BY <3>3, <3>12, <4>2, <5>2
          <6> QED BY <1>2, <3>1, <3>2, <3>12, <4>2, <5>2, <6>1
        <5> QED BY <1>3, <5>1, <5>2 DEF P, n, Latest, Of, LastLoaded
      <4> QED BY <1>4, <4>1, <4>2 DEF P, n, Latest, Of, LastLoaded
    <3> QED BY <1>5, <3>11, <3>12 DEF P, n, Latest, Of, LastLoaded
  <2> QED BY <2>2, <2>3
<1> QED BY <1>2, <1>7, <1>8 DEF NewMollusk, V

-----------------------------------------------------------------------------
(* Lemmas on the fixtures.                                                 *)

(* search_paths finds every fixture of the command, each once.             *)
LEMMA ListFacts ==
  ASSUME NEW c \in Commands, NEW list \in search_paths(c.files)
  PROVE  /\ Len(list) \in Nat /\ Found(c) \subseteq FixFiles
         /\ \A i \in 1..Len(list) : list[i] \in Found(c)
         /\ \A f \in Found(c) : \E i \in 1..Len(list) : list[i] = f
<1> DEFINE S == Found(c)
           n == Cardinality(S)
<1>1. IsFiniteSet(S) /\ n \in Nat /\ S \subseteq FixFiles
  <2>1. IsFiniteSet(c.files) /\ S \subseteq c.files /\ S \subseteq FixFiles
    BY CommandFacts DEF Found
  <2> HIDE DEF S
  <2> QED BY <2>1, FS_Subset, FS_CardinalityType DEF n
<1>2. list \in {f \in [1..n -> S] : \A i, j \in 1..n : i # j => f[i] # f[j]}
  BY DEF search_paths, SetToSeqs, Found
<1> HIDE DEF S, n
<1>3. list \in [1..n -> S] /\ \A i, j \in 1..n : i # j => list[i] # list[j]
  BY <1>2
<1>4. Len(list) = n
  BY <1>1, <1>3, FunctionIsSeq
<1>5. list \in Injection(1..n, S)
  BY <1>3 DEF Injection, IsInjective
<1>6. Cardinality(1..n) = n
  BY <1>1, FS_Interval
<1>7. list \in Surjection(1..n, S)
  BY <1>1, <1>5, <1>6, FS_Injection DEF n
<1>8. \A f \in S : \E i \in 1..n : list[i] = f
  BY <1>7 DEF Surjection
<1> QED BY <1>1, <1>3, <1>4, <1>8 DEF S

(* A fixture of a run, and what comes of what it meets.                    *)
LEMMA FixtureFacts ==
  ASSUME NEW f \in FixFiles
  PROVE  /\ Reaches[f] \in SUBSET ProgramId /\ NameOf[f] \in Name
         /\ \A view \in Views(f) :
              /\ Outcome[f][view] # Missing => Outcome[f][view].compute_units \in Nat
              /\ Deploys[f][view] \in [ProgramId -> Image \cup {Missing}]
<1>1. /\ Reaches[f] \in SUBSET ProgramId /\ NameOf[f] \in Name
      /\ Outcome[f] \in [Views(f) -> ResultType \cup {Missing}]
      /\ Deploys[f] \in [Views(f) -> [ProgramId -> Image \cup {Missing}]]
  BY RunnerAssumption DEF Views
<1>2. \A view \in Views(f) : /\ Outcome[f][view] \in ResultType \cup {Missing}
                             /\ Deploys[f][view] \in [ProgramId -> Image \cup {Missing}]
  BY <1>1
<1>3. \A r \in ResultType : r.compute_units \in Nat
  BY DEF ResultType
<1> QED BY <1>1, <1>2, <1>3

(* What a fixture meets on a Mollusk that has run those before.            *)
LEMMA FoundView ==
  ASSUME NEW c \in Commands, NEW list \in search_paths(c.files), NEW i \in 1..Len(list),
         NEW elf, NEW m, MolluskKept(c, list, m, elf, i - 1)
  PROVE  /\ View(m, list[i]) \in Views(list[i])
         /\ \A id \in Reaches[list[i]] : View(m, list[i])[id] \in MayMeet(c, elf, list, i, id)
         /\ Undisturbed(Found(c), list[i]) =>
              View(m, list[i]) = [id \in Reaches[list[i]] |-> ElfAt(c, elf, id)]
<1> DEFINE f == list[i]
<1>1. /\ Len(list) \in Nat /\ f \in FixFiles /\ Reaches[f] \in SUBSET ProgramId
      /\ \A j \in 1..(i - 1) : j \in 1..Len(list) /\ list[j] \in Found(c)
  BY ListFacts, FixtureFacts
<1>2. ASSUME NEW id \in Reaches[f]
      PROVE  /\ Find(m, id) \in Image \cup {Missing}
             /\ Find(m, id) \in MayMeet(c, elf, list, i, id)
             /\ Undisturbed(Found(c), f) => Find(m, id) = ElfAt(c, elf, id)
  <2>1. /\ m.added[id] \in Image \cup {Missing} /\ m.deployed[id] \in Image \cup {Missing}
        /\ m.added[id] = ElfAt(c, elf, id)
    BY <1>1 DEF MolluskKept
  <2>2. CASE m.deployed[id] = Missing
    <3>1. Find(m, id) = ElfAt(c, elf, id)
      BY <2>1, <2>2 DEF Find
    <3> QED BY <2>1, <3>1 DEF MayMeet
  <2>3. CASE m.deployed[id] # Missing
    <3>1. Find(m, id) = m.deployed[id] /\ Find(m, id) \in Image
      BY <2>1, <2>3 DEF Find
    <3>2. PICK j \in 1..(i - 1) : \E view \in Views(list[j]) :
                                    Deploys[list[j]][view][id] = m.deployed[id]
      BY <1>1, <2>3 DEF MolluskKept
    <3>3. list[j] \in Touch(Found(c), id)
      BY <1>1, <2>3, <3>2 DEF Touch
    <3>4. ~Undisturbed(Found(c), f)
      BY <3>3 DEF Undisturbed
    <3>5. Find(m, id) \in MayMeet(c, elf, list, i, id)
      BY <3>1, <3>2 DEF MayMeet
    <3> QED BY <3>1, <3>4, <3>5
  <2> QED BY <2>2, <2>3
<1> QED BY <1>2 DEF View, Views

(* A fixture that is ready gives a result of what it meets, and leaves the *)
(* Mollusk with what it deploys and closes.                                *)
LEMMA FixtureRun ==
  ASSUME NEW c \in Commands, NEW list \in search_paths(c.files), NEW i \in 1..Len(list),
         NEW elf, NEW m, MolluskKept(c, list, m, elf, i - 1), Ready(m, list[i])
  PROVE  /\ ResultKept(c, list, i, ResultOf(m, list[i]), elf)
         /\ MolluskKept(c, list, After(m, list[i]), elf, i)
         /\ ResultOf(m, list[i]).compute_units \in Nat
<1> DEFINE f == list[i]
           view == View(m, f)
           new == Deploys[f][view]
           after == After(m, f)
           V == Image \cup {Missing}
<1>1. f \in FixFiles /\ i \in Nat
  BY ListFacts
<1>2. /\ view \in Views(f) /\ f \notin Corrupt /\ ResultOf(m, f) # Missing
      /\ \A id \in Reaches[f] : view[id] \in MayMeet(c, elf, list, i, id)
      /\ Undisturbed(Found(c), f) => view = [id \in Reaches[f] |-> ElfAt(c, elf, id)]
      /\ ResultOf(m, f) = Outcome[f][view]
  BY FoundView DEF Ready, ResultOf
<1>3. ResultKept(c, list, i, ResultOf(m, f), elf)
  <2> HIDE DEF view
  <2>1. Undisturbed(Found(c), f) => ResultOf(m, f) = Alone(c, elf, f)
    BY <1>2 DEF Alone
  <2> QED BY <1>2, <2>1 DEF ResultKept
<1>4. ResultOf(m, f).compute_units \in Nat /\ new \in [ProgramId -> V]
  BY <1>1, <1>2, FixtureFacts
<1>5. /\ m \in [added : [ProgramId -> V], deployed : [ProgramId -> V]]
      /\ \A id \in ProgramId : m.added[id] = ElfAt(c, elf, id)
      /\ \A id \in ProgramId : m.deployed[id] # Missing =>
           \E j \in 1..(i - 1) : \E met \in Views(list[j]) :
             Deploys[list[j]][met][id] = m.deployed[id]
  BY DEF MolluskKept
<1>6. i \in 1..i /\ \A j \in 1..(i - 1) : j \in 1..i
  BY <1>1
<1>7. after = [m EXCEPT !.deployed =
                 [id \in ProgramId |-> IF new[id] # Missing THEN new[id] ELSE m.deployed[id]]]
  BY DEF After
<1>8. MolluskKept(c, list, after, elf, i)
  <2> HIDE DEF new, after
  <2>1. /\ after \in [added : [ProgramId -> V], deployed : [ProgramId -> V]]
        /\ after.added = m.added
        /\ \A id \in ProgramId :
             after.deployed[id] = IF new[id] # Missing THEN new[id] ELSE m.deployed[id]
    BY <1>4, <1>5, <1>7
  <2>2. ASSUME NEW id \in ProgramId, after.deployed[id] # Missing
        PROVE  \E j \in 1..i : \E met \in Views(list[j]) :
                 Deploys[list[j]][met][id] = after.deployed[id]
    <3>1. CASE new[id] # Missing
      <4>1. Deploys[list[i]][view][id] = after.deployed[id]
        BY <2>1, <3>1 DEF new
      <4> QED BY <1>2, <1>6, <4>1
    <3>2. CASE new[id] = Missing
      <4>1. after.deployed[id] = m.deployed[id]
        BY <2>1, <3>2
      <4> QED BY <1>5, <1>6, <2>2, <4>1
    <3> QED BY <3>1, <3>2
  <2> QED BY <1>5, <2>1, <2>2 DEF MolluskKept
<1> QED BY <1>3, <1>4, <1>8

(* A fixture that is not ready does not run alone either.                  *)
LEMMA NotReady ==
  ASSUME NEW c \in Commands, NEW list \in search_paths(c.files), NEW i \in 1..Len(list),
         NEW elf, elf = c.elf \/ (IsRunTest(c) /\ elf = c.source), NEW m,
         MolluskKept(c, list, m, elf, i - 1), ~Ready(m, list[i]),
         Undisturbed(Found(c), list[i])
  PROVE  ~Runs(c, list[i])
<1>1. View(m, list[i]) = [id \in Reaches[list[i]] |-> ElfAt(c, elf, id)]
  BY FoundView
<1>2. list[i] \in Corrupt \/ Alone(c, elf, list[i]) = Missing
  BY <1>1 DEF Ready, ResultOf, Alone
<1> QED BY <1>2 DEF Runs

-----------------------------------------------------------------------------
(* Lemmas on the report.                                                   *)

(* What find finds is a row of that name, if there is one.                 *)
LEMMA FirstOfIsRow ==
  ASSUME NEW previous, Len(previous) \in Nat, NEW name
  PROVE  \/ FirstOf(previous, name) = 0
         \/ /\ FirstOf(previous, name) \in 1..Len(previous)
            /\ previous[FirstOf(previous, name)].name = name
<1> DEFINE I == {j \in 1..Len(previous) : previous[j].name = name}
<1>1. FirstOf(previous, name) = IF I # {} THEN Min(I) ELSE 0
  BY DEF FirstOf, SelectInSeq
<1>2. I # {} => Min(I) \in I
  <2> SUFFICES ASSUME I # {} PROVE Min(I) \in I
    OBVIOUS
  <2>1. I \in SUBSET Nat
    OBVIOUS
  <2> HIDE DEF I
  <2>2. \E m \in I : \A j \in I : m <= j
    BY <2>1, SmallestElement
  <2> QED BY <2>2 DEF Min
<1> QED BY <1>1, <1>2

(* The rows of the newest table, read back.                                *)
LEMMA ReadBack ==
  ASSUME NEW ledger \in Seq(Seq(Row))
  PROVE  LET previous == parse_last_md_table(ledger) IN
         /\ Len(previous) \in Nat
         /\ \A i \in 1..Len(previous) :
              /\ ledger # <<>> /\ i \in DOMAIN Head(ledger)
              /\ UnitsRead(Head(ledger)[i]) \in Nat
              /\ previous[i] = Result(Trimmed[Head(ledger)[i].name], UnitsRead(Head(ledger)[i]))
<1> DEFINE previous == parse_last_md_table(ledger)
           table == Head(ledger)
<1>1. CASE ledger = <<>>
  BY <1>1 DEF parse_last_md_table
<1>2. CASE ledger # <<>>
  <2> DEFINE Tables == Seq(Row)
  <2>1. table \in Tables
    <3> HIDE DEF Tables
    <3>1. ledger \in Seq(Tables)
      BY DEF Tables
    <3> QED BY <1>2, <3>1, SeqFacts
  <2> HIDE DEF table
  <2>2. /\ Len(table) \in Nat /\ DOMAIN table = 1..Len(table)
        /\ \A i \in 1..Len(table) : table[i] \in Row
    <3> DEFINE R == Row
    <3> HIDE DEF R
    <3>1. table \in Seq(R)
      BY <2>1 DEF R
    <3> QED BY <3>1, SeqFacts DEF R
  <2>3. previous = [i \in 1..Len(table) |-> Result(Trimmed[table[i].name], UnitsRead(table[i]))]
    BY <1>2, <2>2 DEF parse_last_md_table, table
  <2> DEFINE B == {Result(Trimmed[table[i].name], UnitsRead(table[i])) : i \in 1..Len(table)}
  <2>4. previous \in [1..Len(table) -> B]
    BY <2>3
  <2> HIDE DEF B, previous
  <2>5. Len(previous) = Len(table)
    BY <2>2, <2>4, FunctionIsSeq
  <2>6. \A i \in 1..Len(table) : UnitsRead(table[i]) \in Nat
    BY <2>2, NamesAssumption DEF Row, UnitsRead
  <2> QED BY <1>2, <2>2, <2>3, <2>5, <2>6 DEF previous, table
<1> QED BY <1>1, <1>2

(* The file after write_results is one of tables.                          *)
LEMMA ReportTyped ==
  ASSUME NEW ledger \in Seq(Seq(Row)), NEW rows \in Seq(BenchResult)
  PROVE  /\ Table(parse_last_md_table(ledger), rows) \in Seq(Row)
         /\ write_results(ledger, rows) \in Seq(Seq(Row))
<1> DEFINE previous == parse_last_md_table(ledger)
           table == Table(previous, rows)
           n == Len(rows)
<1>1. n \in Nat /\ DOMAIN rows = 1..n /\ \A i \in 1..n : rows[i] \in BenchResult
  <2> DEFINE R == BenchResult
  <2> HIDE DEF R
  <2>1. rows \in Seq(R)
    BY DEF R
  <2> QED BY <2>1, SeqFacts DEF R
<1>2. /\ Len(previous) \in Nat
      /\ \A i \in 1..Len(previous) : previous[i].cus_consumed \in Nat
  <2>1. /\ Len(previous) \in Nat
        /\ \A i \in 1..Len(previous) :
             /\ UnitsRead(Head(ledger)[i]) \in Nat
             /\ previous[i] = Result(Trimmed[Head(ledger)[i].name], UnitsRead(Head(ledger)[i]))
    BY ReadBack
  <2> HIDE DEF previous
  <2>2. \A name, cus : Result(name, cus).cus_consumed = cus
    BY DEF Result
  <2>3. ASSUME NEW i \in 1..Len(previous) PROVE previous[i].cus_consumed \in Nat
    BY <2>1, <2>2
  <2> QED BY <2>1, <2>3
<1> HIDE DEF previous, n
<1>3. \A i \in 1..n : Delta(previous, rows[i]) \in Int \cup {New}
  <2> SUFFICES ASSUME NEW i \in 1..n PROVE Delta(previous, rows[i]) \in Int \cup {New}
    OBVIOUS
  <2> DEFINE at == FirstOf(previous, rows[i].name)
  <2>1. at = 0 \/ at \in 1..Len(previous)
    BY <1>2, FirstOfIsRow
  <2>2. Delta(previous, rows[i]) = IF at = 0 THEN New
                                   ELSE rows[i].cus_consumed - previous[at].cus_consumed
    BY DEF Delta
  <2> HIDE DEF at
  <2>3. at # 0 => rows[i].cus_consumed - previous[at].cus_consumed \in Int
    BY <1>1, <1>2, <2>1 DEF BenchResult
  <2> QED BY <2>2, <2>3
<1>4. table \in [1..n -> Row]
  BY <1>1, <1>3 DEF Table, Row, BenchResult
<1> HIDE DEF table
<1>5. table \in Seq(Row)
  <2> DEFINE R == Row
  <2> HIDE DEF R
  <2>1. table \in [1..n -> R]
    BY <1>4 DEF R
  <2> QED BY <1>1, <2>1, FunctionIsSeq DEF R
<1>6. write_results(ledger, rows) \in {ledger, <<table>> \o ledger}
  BY DEF write_results, Prepended, table, previous
<1>7. <<table>> \o ledger \in Seq(Seq(Row))
  <2> DEFINE T == Seq(Row)
  <2> HIDE DEF T
  <2>1. ledger \in Seq(T) /\ table \in T
    BY <1>5 DEF T
  <2>2. <<table>> \o ledger \in Seq(T)
    BY <2>1
  <2> QED BY <2>2 DEF T
<1> QED BY <1>5, <1>6, <1>7 DEF table, previous

(* After write_results the newest table has every result, new or not, if   *)
(* its rows are read back with their own units.                            *)
LEMMA ReportWritten ==
  ASSUME NEW ledger \in Seq(Seq(Row)), NEW rows \in Seq(BenchResult), Plain(rows),
         NEW i \in 1..Len(rows),
         LET after == write_results(ledger, rows) IN after # <<>> => Legible(Head(after))
  PROVE  LET after == write_results(ledger, rows) IN
         /\ after # <<>>
         /\ \E row \in DOMAIN Head(after) :
              Result(Trimmed[Head(after)[row].name], Head(after)[row].cus_consumed) = rows[i]
<1> DEFINE previous == parse_last_md_table(ledger)
           table == Table(previous, rows)
           after == write_results(ledger, rows)
<1>1. /\ Len(rows) \in Nat /\ DOMAIN rows = 1..Len(rows)
      /\ rows[i] \in BenchResult
  <2> DEFINE R == BenchResult
  <2> HIDE DEF R
  <2>1. rows \in Seq(R)
    BY DEF R
  <2> QED BY <2>1, SeqFacts DEF R
<1>2. rows[i].cus_consumed \in Nat /\ rows[i] = Result(rows[i].name, rows[i].cus_consumed)
  BY <1>1 DEF BenchResult, Result
<1>3. Trimmed[rows[i].name] = rows[i].name
  BY <1>1 DEF Plain
<1>4. /\ DOMAIN table = 1..Len(rows) /\ table[i].name = rows[i].name
      /\ table[i].cus_consumed = rows[i].cus_consumed
      /\ table[i].delta = Delta(previous, rows[i])
  BY <1>1 DEF Table
<1>5. CASE Changed(table)
  <2>1. after = <<table>> \o ledger
    BY <1>5 DEF write_results, Prepended
  <2> HIDE DEF table, after
  <2>2. after # <<>> /\ Head(after) = table
    <3> DEFINE T == Seq(Row)
    <3>1. table \in T
      BY ReportTyped DEF table
    <3> HIDE DEF T
    <3>2. ledger \in Seq(T)
      BY DEF T
    <3> QED BY <2>1, <3>1, <3>2
  <2> QED BY <1>2, <1>3, <1>4, <2>2 DEF after
<1>6. CASE ~Changed(table)
  <2>1. after = ledger
    BY <1>6 DEF write_results
  <2>2. Delta(previous, rows[i]) = 0
    BY <1>4, <1>6 DEF Changed
  <2> DEFINE at == FirstOf(previous, rows[i].name)
  <2>3. Delta(previous, rows[i]) = IF at = 0 THEN New
                                   ELSE rows[i].cus_consumed - previous[at].cus_consumed
    BY DEF Delta
  <2>4. New # 0
    BY NamesAssumption
  <2>5. Len(previous) \in Nat
    BY ReadBack
  <2>6. at \in 1..Len(previous) /\ previous[at].name = rows[i].name
    BY <2>2, <2>3, <2>4, <2>5, FirstOfIsRow
  <2>7. rows[i].cus_consumed - previous[at].cus_consumed = 0
    BY <2>2, <2>3, <2>4
  <2> HIDE DEF at
  <2>8. /\ ledger # <<>> /\ at \in DOMAIN Head(ledger)
        /\ UnitsRead(Head(ledger)[at]) \in Nat
        /\ previous[at] = Result(Trimmed[Head(ledger)[at].name], UnitsRead(Head(ledger)[at]))
        /\ UnitsRead(Head(ledger)[at]) = Head(ledger)[at].cus_consumed
    BY <2>1, <2>6, ReadBack DEF Legible, UnitsRead
  <2> HIDE DEF previous, table, after
  <2>9. previous[at].cus_consumed \in Nat
        /\ previous[at] = Result(previous[at].name, previous[at].cus_consumed)
    BY <2>8 DEF Result
  <2>10. previous[at].cus_consumed = rows[i].cus_consumed
    BY <1>2, <2>7, <2>9
  <2>11. previous[at] = rows[i]
    BY <1>2, <2>6, <2>9, <2>10
  <2> QED BY <2>1, <2>8, <2>11 DEF after
<1> QED BY <1>5, <1>6

-----------------------------------------------------------------------------
(* The invariant.                                                          *)

(* Both files of tables and rows begin empty.                              *)
LEMMA InitRInv == Init => RInv
<1> SUFFICES ASSUME Init PROVE RInv
  OBVIOUS
<1>1. /\ command \in Commands /\ pc = "setup" /\ failures = 0 /\ bench_results = <<>>
      /\ file \in Seq(Seq(Row))
  BY EmptyIsSeq DEF Init
<1> QED BY <1>1 DEF RInv, RunPlaced, MollusksKept, ResultsKept, BenchesKept, FailuresKept,
                    VerdictOfFixtures, Running

LEMMA NewCommandRInv ==
  ASSUME RInv, NEW c \in Commands, NewCommand(c) PROVE RInv'
<1>1. /\ command' \in Commands /\ pc' = "setup" /\ failures' = 0 /\ bench_results' = <<>>
      /\ file' \in Seq(Seq(Row))
  BY DEF NewCommand, RInv, RunPlaced
<1> QED BY <1>1 DEF RInv, RunPlaced, MollusksKept, ResultsKept, BenchesKept, FailuresKept,
                    VerdictOfFixtures, Running

(* Where Proceed goes.                                                     *)
LEMMA ProceedFacts ==
  ASSUME NEW place \in Nat, Proceed(place), Len(fixtures') \in Nat, place \in 1..(Len(fixtures') + 1)
  PROVE  /\ next' = place /\ pc' \in {"ground", "target", "exit"}
         /\ pc' = "exit" <=> place = Len(fixtures') + 1
         /\ pc' = "ground" => IsRunTest(command)
         /\ pc' = "target" => ~IsRunTest(command)
<1>1. next' = place
  BY DEF Proceed
<1>2. CASE place > Len(fixtures')
  <2>1. pc' = "exit"
    BY <1>2 DEF Proceed
  <2> QED BY <1>1, <1>2, <2>1
<1>3. CASE place <= Len(fixtures') /\ IsRunTest(command)
  <2>1. pc' = "ground"
    BY <1>3 DEF Proceed
  <2> QED BY <1>1, <1>3, <2>1
<1>4. CASE place <= Len(fixtures') /\ ~IsRunTest(command)
  <2>1. pc' = "target"
    BY <1>4 DEF Proceed
  <2> QED BY <1>1, <1>4, <2>1
<1> QED BY <1>2, <1>3, <1>4

(* New Mollusks, and no fixture yet.                                       *)
LEMMA SetupRInv == RInv /\ Setup => RInv'
<1> SUFFICES ASSUME RInv, Setup PROVE RInv'
  OBVIOUS
<1>1. /\ command \in Commands /\ failures = 0 /\ bench_results = <<>> /\ file \in Seq(Seq(Row))
      /\ ~ElfMissing(command) /\ command.config \notin {Broken, NoExtension}
  BY DEF Setup, RInv, RunPlaced
<1>2. /\ command' = command /\ failures' = 0 /\ bench_results' = <<>> /\ file' = file
      /\ ground' = IF IsRunTest(command) THEN NewMollusk(command, command.source) ELSE Missing
      /\ target' = NewMollusk(command, command.elf)
      /\ fixtures' \in search_paths(command.files)
      /\ Proceed(1)
  BY <1>1 DEF Setup, results
<1>3. Len(fixtures') \in Nat
  BY <1>1, <1>2, ListFacts
<1>4. /\ next' = 1 /\ pc' \in {"ground", "target", "exit"}
      /\ pc' = "exit" <=> next' = Len(fixtures') + 1
      /\ pc' = "ground" => IsRunTest(command)
      /\ pc' = "target" => ~IsRunTest(command)
  BY <1>2, <1>3, ProceedFacts
<1>5. command.elf \in Elf /\ (IsRunTest(command) => command.source \in Elf)
  BY <1>1, CommandFacts DEF IsRunTest
<1>6. ASSUME NEW elf \in Elf
      PROVE  MolluskKept(command, fixtures', NewMollusk(command, elf), elf, 0)
  BY <1>1, <1>6, AddedElf DEF MolluskKept
<1>7. RunPlaced'
  BY <1>1, <1>2, <1>3, <1>4 DEF RunPlaced, Running, Started, IsRunTest
<1>8. TargetRuns' = 0 /\ (IsRunTest(command) => GroundRuns' = 0) /\ next' - 1 = 0
  BY <1>4 DEF TargetRuns, GroundRuns
<1>9. MollusksKept'
  BY <1>2, <1>5, <1>6, <1>8 DEF MollusksKept, IsRunTest
<1>10. ResultsKept'
  BY <1>2, <1>4 DEF ResultsKept, IsRunTest
<1>11. BenchesKept'
  <2>1. <<>> \in Seq(BenchResult)
    BY EmptyIsSeq
  <2> QED BY <1>2, <1>8, <2>1 DEF BenchesKept, RowsKept
<1>12. FailuresKept'
  BY <1>2, <1>8 DEF FailuresKept, FailuresOf
<1>13. VerdictOfFixtures'
  BY <1>4 DEF VerdictOfFixtures
<1> QED BY <1>7, <1>9, <1>10, <1>11, <1>12, <1>13 DEF RInv

(* The end of a process, whatever has happened.                            *)
LEMMA EndRInv ==
  ASSUME RInv, pc' = "done", command' = command, failures' = failures,
         file' \in Seq(Seq(Row)), VerdictOfFixtures'
  PROVE  RInv'
<1>1. RunPlaced'
  BY DEF RInv, RunPlaced, Running
<1>2. MollusksKept' /\ ResultsKept' /\ BenchesKept' /\ FailuresKept'
  BY DEF MollusksKept, ResultsKept, BenchesKept, FailuresKept, Running
<1> QED BY <1>1, <1>2 DEF RInv

LEMMA SetupFailsRInv == RInv /\ SetupFails => RInv'
<1> SUFFICES ASSUME RInv, SetupFails PROVE RInv'
  OBVIOUS
<1>1. /\ pc' = "done" /\ command' = command /\ failures' = failures /\ file' = file
      /\ \/ ElfMissing(command) /\ status' = 101
         \/ ~ElfMissing(command) /\ command.config = NoExtension /\ status' = 101
         \/ /\ ~ElfMissing(command) /\ command.config = Broken
            /\ command.config # NoExtension /\ status' = 1
  BY RunnerAssumption DEF SetupFails, End
<1>2. ASSUME ElfMissing(command) \/ command.config = NoExtension, status' = 101
      PROVE  VerdictOfFixtures'
  <2>1. CASE ElfMissing(command)
    BY <1>1, <1>2, <2>1 DEF VerdictOfFixtures, Started
  <2>2. CASE ~ElfMissing(command) /\ command.config = NoExtension
    BY <1>1, <1>2, <2>2, RunnerAssumption DEF VerdictOfFixtures, Started
  <2> QED BY <1>2, <2>1, <2>2
<1>3. ASSUME ~ElfMissing(command), command.config = Broken, status' = 1
      PROVE  VerdictOfFixtures'
  BY <1>1, <1>3, RunnerAssumption DEF VerdictOfFixtures, Started
<1> QED BY <1>1, <1>2, <1>3, EndRInv DEF RInv, RunPlaced

(* What a run has at the fixture at hand.                                  *)
LEMMA AtFixture ==
  ASSUME RInv, pc \in {"ground", "target", "compare"}
  PROVE  /\ command \in Commands /\ Started(command) /\ fixtures \in search_paths(command.files)
         /\ Len(fixtures) \in Nat /\ next \in 1..Len(fixtures)
         /\ Fixture = fixtures[next] /\ Fixture \in Found(command) /\ Fixture \in FixFiles
         /\ command.elf \in Elf /\ (IsRunTest(command) => command.source \in Elf)
<1>1. /\ command \in Commands /\ Started(command) /\ fixtures \in search_paths(command.files)
      /\ next \in 1..(Len(fixtures) + 1) /\ next # Len(fixtures) + 1
  BY DEF RInv, RunPlaced, Running
<1>2. /\ Len(fixtures) \in Nat /\ Found(command) \subseteq FixFiles
      /\ \A i \in 1..Len(fixtures) : fixtures[i] \in Found(command)
  BY <1>1, ListFacts
<1>3. next \in 1..Len(fixtures)
  BY <1>1, <1>2
<1>4. command.elf \in Elf /\ (IsRunTest(command) => command.source \in Elf)
  BY <1>1, CommandFacts DEF IsRunTest, Started
<1> QED BY <1>1, <1>2, <1>3, <1>4 DEF Fixture

LEMMA RunGroundRInv == RInv /\ RunGround => RInv'
<1> SUFFICES ASSUME RInv, RunGround PROVE RInv'
  OBVIOUS
<1>1. pc = "ground" /\ Ready(ground, Fixture)
  BY DEF RunGround
<1>2. /\ command \in Commands /\ Started(command) /\ fixtures \in search_paths(command.files)
      /\ next \in 1..Len(fixtures) /\ Fixture = fixtures[next] /\ Len(fixtures) \in Nat
  BY <1>1, AtFixture
<1>3. /\ pc' = "target" /\ ground' = After(ground, Fixture)
      /\ ground_result' = ResultOf(ground, Fixture)
      /\ UNCHANGED <<command, target, fixtures, next, target_result, failures, bench_results,
                     status, file>>
  BY DEF RunGround
<1>4. /\ IsRunTest(command)
      /\ MolluskKept(command, fixtures, target, command.elf, next - 1)
      /\ MolluskKept(command, fixtures, ground, command.source, next - 1)
  BY <1>1 DEF RInv, RunPlaced, MollusksKept, Running, TargetRuns, GroundRuns
<1>5. /\ ResultKept(command, fixtures, next, ground_result', command.source)
      /\ MolluskKept(command, fixtures, ground', command.source, next)
  BY <1>1, <1>2, <1>3, <1>4, FixtureRun
<1>6. RunPlaced'
  BY <1>1, <1>2, <1>3 DEF RInv, RunPlaced, Running
<1>7. TargetRuns = next - 1 /\ TargetRuns' = next - 1 /\ GroundRuns' = next
  BY <1>1, <1>3 DEF TargetRuns, GroundRuns
<1>8. MollusksKept'
  BY <1>3, <1>4, <1>5, <1>7 DEF MollusksKept
<1>9. ResultsKept'
  BY <1>3, <1>5 DEF ResultsKept
<1>10. BenchesKept'
  BY <1>1, <1>3, <1>7 DEF RInv, BenchesKept, Running
<1>11. FailuresKept'
  BY <1>1, <1>3 DEF RInv, FailuresKept, Running
<1>12. VerdictOfFixtures'
  BY <1>3 DEF VerdictOfFixtures
<1> QED BY <1>6, <1>8, <1>9, <1>10, <1>11, <1>12 DEF RInv

LEMMA RunTargetRInv == RInv /\ RunTarget => RInv'
<1> SUFFICES ASSUME RInv, RunTarget PROVE RInv'
  OBVIOUS
<1>1. pc = "target" /\ Ready(target, Fixture)
  BY DEF RunTarget
<1>2. /\ command \in Commands /\ Started(command) /\ fixtures \in search_paths(command.files)
      /\ next \in 1..Len(fixtures) /\ Fixture = fixtures[next] /\ Len(fixtures) \in Nat
      /\ Fixture \in FixFiles
  BY <1>1, AtFixture
<1>3. /\ pc' = "compare" /\ target' = After(target, Fixture)
      /\ target_result' = ResultOf(target, Fixture)
      /\ bench_results' = IF command.cus_report THEN Benched ELSE bench_results
      /\ UNCHANGED <<command, ground, fixtures, next, ground_result, failures, status, file>>
  BY DEF RunTarget
<1>4. /\ MolluskKept(command, fixtures, target, command.elf, next - 1)
      /\ IsRunTest(command) => MolluskKept(command, fixtures, ground, command.source, next)
  BY <1>1 DEF RInv, MollusksKept, Running, TargetRuns, GroundRuns
<1>5. /\ ResultKept(command, fixtures, next, target_result', command.elf)
      /\ MolluskKept(command, fixtures, target', command.elf, next)
      /\ target_result'.compute_units \in Nat
  BY <1>1, <1>2, <1>3, <1>4, FixtureRun
<1>6. RunPlaced'
  BY <1>1, <1>2, <1>3 DEF RInv, RunPlaced, Running
<1>7. TargetRuns = next - 1 /\ TargetRuns' = next /\ GroundRuns' = next
  BY <1>1, <1>3 DEF TargetRuns, GroundRuns
<1>8. MollusksKept'
  BY <1>3, <1>4, <1>5, <1>7 DEF MollusksKept
<1>9. ResultsKept'
  BY <1>1, <1>3, <1>5 DEF RInv, ResultsKept
<1>10. BenchesKept'
  <2> SUFFICES ASSUME command.cus_report PROVE RowsKept(command, fixtures, bench_results', next)
    BY <1>3, <1>7 DEF BenchesKept
  <2> DEFINE row == Result(NameOf[Fixture], target_result'.compute_units)
             B == BenchResult
  <2>1. /\ bench_results \in Seq(B) /\ Len(bench_results) = next - 1
        /\ \A i \in 1..(next - 1) : Undisturbed(Found(command), fixtures[i]) =>
             bench_results[i] = Result(NameOf[fixtures[i]],
                                       Alone(command, command.elf, fixtures[i]).compute_units)
    BY <1>1, <1>7 DEF RInv, BenchesKept, Running, RowsKept
  <2>2. row \in B
    BY <1>2, <1>5, FixtureFacts DEF Result, BenchResult
  <2>3. bench_results' = Append(bench_results, row)
    BY <1>3 DEF Benched
  <2>4. Undisturbed(Found(command), fixtures[next]) =>
          row = Result(NameOf[fixtures[next]],
                       Alone(command, command.elf, fixtures[next]).compute_units)
    BY <1>2, <1>5 DEF ResultKept
  <2> HIDE DEF row, B
  <2>5. /\ bench_results' \in Seq(B) /\ Len(bench_results') = (next - 1) + 1
        /\ bench_results'[(next - 1) + 1] = row
        /\ \A i \in 1..(next - 1) : bench_results'[i] = bench_results[i]
    BY <2>1, <2>2, <2>3, AppendFacts
  <2>6. (next - 1) + 1 = next /\ \A i \in 1..next : i = next \/ i \in 1..(next - 1)
    BY <1>2
  <2> QED BY <2>1, <2>4, <2>5, <2>6 DEF RowsKept, B
<1>11. FailuresKept'
  BY <1>1, <1>3 DEF RInv, FailuresKept, Running
<1>12. VerdictOfFixtures'
  BY <1>3 DEF VerdictOfFixtures
<1> QED BY <1>6, <1>8, <1>9, <1>10, <1>11, <1>12 DEF RInv

LEMMA RunPanicsRInv == RInv /\ RunPanics => RInv'
<1> SUFFICES ASSUME RInv, RunPanics PROVE RInv'
  OBVIOUS
<1>1. /\ \/ pc = "ground" /\ ~Ready(ground, Fixture)
         \/ pc = "target" /\ ~Ready(target, Fixture)
      /\ pc' = "done" /\ status' = 101
      /\ command' = command /\ failures' = failures /\ file' = file
  BY DEF RunPanics, End
<1>2. /\ command \in Commands /\ Started(command) /\ fixtures \in search_paths(command.files)
      /\ next \in 1..Len(fixtures) /\ Fixture = fixtures[next] /\ Fixture \in Found(command)
      /\ command.elf \in Elf /\ (IsRunTest(command) => command.source \in Elf)
  BY <1>1, AtFixture
<1>3. \E m, elf :
        /\ elf = command.elf \/ (IsRunTest(command) /\ elf = command.source)
        /\ MolluskKept(command, fixtures, m, elf, next - 1) /\ ~Ready(m, Fixture)
  <2>1. CASE pc = "ground"
    <3>1. IsRunTest(command) /\ MolluskKept(command, fixtures, ground, command.source, next - 1)
      BY <2>1 DEF RInv, RunPlaced, MollusksKept, Running, GroundRuns
    <3> QED BY <1>1, <1>2, <2>1, <3>1
  <2>2. CASE pc = "target"
    <3>1. MolluskKept(command, fixtures, target, command.elf, next - 1)
      BY <2>2 DEF RInv, MollusksKept, Running, TargetRuns
    <3> QED BY <1>1, <1>2, <2>2, <3>1
  <2> QED BY <1>1, <2>1, <2>2
<1>4. Undisturbed(Found(command), Fixture) => ~Runs(command, Fixture)
  BY <1>2, <1>3, NotReady DEF Started
<1>5. VerdictOfFixtures'
  <2> SUFFICES ASSUME \A f \in Found(command) : Undisturbed(Found(command), f)
               PROVE  status' \in {101} /\ Started(command) /\ ~\A f \in Found(command) : Runs(command, f)
    BY <1>1 DEF VerdictOfFixtures, Started
  <2> QED BY <1>1, <1>2, <1>4
<1> QED BY <1>1, <1>5, EndRInv DEF RInv, RunPlaced

(* For fixtures that none disturbs, Pass is what they are alone.           *)
LEMMA PassAlone ==
  ASSUME RInv, pc = "compare", Undisturbed(Found(command), Fixture)
  PROVE  (Pass <=> Passes(command, Fixture)) /\ Runs(command, Fixture)
<1>1. command \in Commands /\ Fixture = fixtures[next]
  BY AtFixture
<1>2. /\ Fixture \notin Corrupt /\ target_result # Missing
      /\ target_result = Alone(command, command.elf, Fixture)
      /\ IsRunTest(command) => /\ ground_result = Alone(command, command.source, Fixture)
                               /\ ground_result # Missing
  BY <1>1 DEF RInv, ResultsKept, ResultKept
<1>3. IsRunTest(command) => command.inputs_only
  BY <1>1, CommandFacts DEF IsRunTest
<1>4. Runs(command, Fixture)
  BY <1>2 DEF Runs
<1>5. CASE IsRunTest(command)
  BY <1>2, <1>3, <1>4, <1>5 DEF Pass, Passes
<1>6. CASE ~IsRunTest(command)
  BY <1>2, <1>4, <1>6 DEF Pass, Passes
<1> QED BY <1>5, <1>6

LEMMA EndFixtureRInv == RInv /\ EndFixture => RInv'
<1> SUFFICES ASSUME RInv, EndFixture PROVE RInv'
  OBVIOUS
<1>1. /\ pc = "compare" /\ failures' = Counted(Pass) /\ Proceed(next + 1)
      /\ UNCHANGED <<command, ground, target, fixtures, ground_result, target_result,
                     bench_results, status, file>>
  BY DEF EndFixture, mollusks, results
<1>2. /\ command \in Commands /\ Started(command) /\ fixtures \in search_paths(command.files)
      /\ next \in 1..Len(fixtures) /\ Fixture = fixtures[next] /\ Len(fixtures) \in Nat
      /\ Fixture \in Found(command)
  BY <1>1, AtFixture
<1>3. /\ next' = next + 1 /\ pc' \in {"ground", "target", "exit"}
      /\ pc' = "exit" <=> next + 1 = Len(fixtures) + 1
      /\ pc' = "ground" => IsRunTest(command)
      /\ pc' = "target" => ~IsRunTest(command)
  <2>1. next + 1 \in Nat /\ next + 1 \in 1..(Len(fixtures') + 1) /\ fixtures' = fixtures
    BY <1>1, <1>2
  <2> QED BY <1>1, <1>2, <2>1, ProceedFacts
<1>4. failures \in Nat /\ failures' \in Nat /\ (failures' > 0 <=> failures > 0 \/ ~Pass)
  BY <1>1 DEF RInv, RunPlaced, Counted
<1>5. RunPlaced'
  BY <1>1, <1>2, <1>3, <1>4 DEF RInv, RunPlaced, Running, IsRunTest
<1>6. TargetRuns = next /\ TargetRuns' = next /\ GroundRuns = next
      /\ (IsRunTest(command) => GroundRuns' = next) /\ next' - 1 = next
  BY <1>1, <1>2, <1>3 DEF TargetRuns, GroundRuns
<1>7. MollusksKept'
  BY <1>1, <1>6 DEF RInv, MollusksKept, Running, IsRunTest
<1>8. ResultsKept'
  BY <1>1, <1>3 DEF ResultsKept, IsRunTest
<1>9. BenchesKept'
  BY <1>1, <1>6 DEF RInv, BenchesKept, Running
<1>10. FailuresKept'
  <2> SUFFICES ASSUME \A f \in Found(command) : Undisturbed(Found(command), f)
               PROVE  FailuresOf(command, fixtures, next, failures')
    BY <1>1, <1>6 DEF FailuresKept
  <2>1. FailuresOf(command, fixtures, next - 1, failures)
    BY <1>1 DEF RInv, FailuresKept, Running
  <2>2. (Pass <=> Passes(command, fixtures[next])) /\ Runs(command, fixtures[next])
    BY <1>1, <1>2, PassAlone
  <2>3. \A i \in 1..next : i = next \/ i \in 1..(next - 1)
    BY <1>2
  <2>4. next \in 1..next /\ \A i \in 1..(next - 1) : i \in 1..next
    BY <1>2
  <2> QED BY <1>4, <2>1, <2>2, <2>3, <2>4 DEF FailuresOf
<1>11. VerdictOfFixtures'
  BY <1>3 DEF VerdictOfFixtures
<1> QED BY <1>5, <1>7, <1>8, <1>9, <1>10, <1>11 DEF RInv

(* At the end every fixture has run, and failures says whether all passed. *)
LEMMA AtExit ==
  ASSUME RInv, pc = "exit"
  PROVE  /\ command \in Commands /\ Started(command) /\ fixtures \in search_paths(command.files)
         /\ Len(fixtures) \in Nat /\ TargetRuns = Len(fixtures) /\ failures \in Nat
         /\ (\A f \in Found(command) : Undisturbed(Found(command), f)) =>
              /\ \A f \in Found(command) : Runs(command, f)
              /\ failures > 0 <=> ~\A f \in Found(command) : Passes(command, f)
<1>1. /\ command \in Commands /\ Started(command) /\ fixtures \in search_paths(command.files)
      /\ next = Len(fixtures) + 1 /\ failures \in Nat
  BY DEF RInv, RunPlaced, Running
<1>2. /\ Len(fixtures) \in Nat
      /\ \A i \in 1..Len(fixtures) : fixtures[i] \in Found(command)
      /\ \A f \in Found(command) : \E i \in 1..Len(fixtures) : fixtures[i] = f
  BY <1>1, ListFacts
<1>3. next - 1 = Len(fixtures) /\ TargetRuns = Len(fixtures)
  BY <1>1, <1>2 DEF TargetRuns
<1>4. ASSUME \A f \in Found(command) : Undisturbed(Found(command), f)
      PROVE  /\ \A f \in Found(command) : Runs(command, f)
             /\ failures > 0 <=> ~\A f \in Found(command) : Passes(command, f)
  <2>1. FailuresOf(command, fixtures, Len(fixtures), failures)
    BY <1>3, <1>4 DEF RInv, FailuresKept, Running
  <2> QED BY <1>2, <2>1 DEF FailuresOf
<1> QED BY <1>1, <1>2, <1>3, <1>4

LEMMA ExitFailedRInv == RInv /\ ExitFailed => RInv'
<1> SUFFICES ASSUME RInv, ExitFailed PROVE RInv'
  OBVIOUS
<1>1. /\ pc = "exit" /\ failures > 0 /\ pc' = "done" /\ status' = 1
      /\ command' = command /\ failures' = failures /\ file' = file
  BY DEF ExitFailed, End
<1>2. VerdictOfFixtures'
  <2> SUFFICES ASSUME \A f \in Found(command) : Undisturbed(Found(command), f)
               PROVE  /\ status' \in {1} /\ Started(command)
                      /\ \A f \in Found(command) : Runs(command, f)
                      /\ ~\A f \in Found(command) : Passes(command, f)
    BY <1>1 DEF VerdictOfFixtures, Started
  <2> QED BY <1>1, AtExit
<1> QED BY <1>1, <1>2, EndRInv DEF RInv, RunPlaced

LEMMA ReportRInv == RInv /\ Report => RInv'
<1> SUFFICES ASSUME RInv, Report PROVE RInv'
  OBVIOUS
<1>1. /\ pc = "exit" /\ failures = 0 /\ pc' = "done" /\ status' = 0
      /\ command' = command /\ failures' = failures
      /\ file' = IF command.cus_report THEN write_results(file, bench_results) ELSE file
  BY DEF Report, End
<1>2. file' \in Seq(Seq(Row))
  <2>1. file \in Seq(Seq(Row))
    BY DEF RInv, RunPlaced
  <2>2. CASE command.cus_report
    <3>1. bench_results \in Seq(BenchResult)
      BY <1>1, <2>2 DEF RInv, BenchesKept, RowsKept, Running
    <3> QED BY <1>1, <2>1, <2>2, <3>1, ReportTyped
  <2>3. CASE ~command.cus_report
    BY <1>1, <2>1, <2>3
  <2> QED BY <2>2, <2>3
<1>3. VerdictOfFixtures'
  <2> SUFFICES ASSUME \A f \in Found(command) : Undisturbed(Found(command), f)
               PROVE  /\ status' \in {0} /\ Started(command)
                      /\ \A f \in Found(command) : Runs(command, f)
                      /\ \A f \in Found(command) : Passes(command, f)
    BY <1>1 DEF VerdictOfFixtures, Started
  <2> QED BY <1>1, AtExit
<1> QED BY <1>1, <1>2, <1>3, EndRInv

LEMMA ReportPanicsRInv == RInv /\ ReportPanics => RInv'
<1> SUFFICES ASSUME RInv, ReportPanics PROVE RInv'
  OBVIOUS
<1>1. /\ pc = "exit" /\ failures = 0 /\ pc' = "done" /\ status' = 101
      /\ command.cus_report /\ Unreadable(file)
      /\ command' = command /\ failures' = failures /\ file' = file
  BY DEF ReportPanics, End
<1>2. VerdictOfFixtures'
  <2> SUFFICES ASSUME \A f \in Found(command) : Undisturbed(Found(command), f)
               PROVE  /\ status' \in {101} /\ Started(command)
                      /\ \A f \in Found(command) : Runs(command, f)
                      /\ \A f \in Found(command) : Passes(command, f)
    BY <1>1 DEF VerdictOfFixtures, Started
  <2> QED BY <1>1, AtExit
<1> QED BY <1>1, <1>2, EndRInv DEF RInv, RunPlaced

LEMMA StepRInv == RInv /\ [Next]_vars => RInv'
<1> SUFFICES ASSUME RInv, [Next]_vars PROVE RInv'
  OBVIOUS
<1>1. CASE \/ Setup \/ SetupFails \/ RunGround \/ RunTarget \/ RunPanics \/ EndFixture
           \/ ExitFailed \/ Report \/ ReportPanics
  BY <1>1, SetupRInv, SetupFailsRInv, RunGroundRInv, RunTargetRInv, RunPanicsRInv,
     EndFixtureRInv, ExitFailedRInv, ReportRInv, ReportPanicsRInv
<1>2. CASE \E c \in Commands : NewCommand(c)
  BY <1>2, NewCommandRInv
<1>3. CASE UNCHANGED vars
  BY <1>3, ZenonT(30) DEF vars, mollusks, results, RInv, RunPlaced, MollusksKept, ResultsKept, BenchesKept,
              FailuresKept, VerdictOfFixtures, Running, TargetRuns, GroundRuns
<1> QED BY <1>1, <1>2, <1>3 DEF Next

(* What every command relies on as it goes from fixture to fixture: its    *)
(* Mollusks have the programs of the command line and those deployed, its  *)
(* results and rows are those of the fixtures before.                      *)
THEOREM RunnerInvariance == Spec => []RInv
BY InitRInv, StepRInv, PTL DEF Spec

(* On one Mollusk, in any order of the files and after any commands, a     *)
(* fixture meets the programs of the command line, or what those before it *)
(* have put in their places.                                               *)
THEOREM Isolation == Spec => []FixturesIsolated
<1>1. RInv => FixturesIsolated
  BY DEF RInv, ResultsKept, ResultKept, FixturesIsolated, Fixture
<1> QED BY <1>1, RunnerInvariance, PTL

(* The status of the process is that of its fixtures, each taken alone.    *)
THEOREM Verdict == Spec => []VerdictOfFixtures
<1>1. RInv => VerdictOfFixtures
  BY DEF RInv
<1> QED BY <1>1, RunnerInvariance, PTL

LEMMA StepReportTrue == RInv /\ [Next]_vars => [ReportTrue]_vars
<1> SUFFICES ASSUME RInv, Next PROVE ReportTrue
  OBVIOUS
<1>1. Missing \notin Nat
  BY RunnerAssumption
<1>2. CASE Report
  <2>1. /\ pc = "exit" /\ status' = 0
        /\ file' = IF command.cus_report THEN write_results(file, bench_results) ELSE file
    BY <1>2 DEF Report, End
  <2>2. ASSUME command.cus_report, Plain(bench_results), file' # <<>> => Legible(Head(file')),
               NEW i \in Places
        PROVE  /\ file' # <<>>
               /\ Undisturbed(Found(command), fixtures[i]) =>
                    \E row \in DOMAIN Head(file') :
                      Result(Trimmed[Head(file')[row].name], Head(file')[row].cus_consumed)
                        = Result(NameOf[fixtures[i]],
                                 Alone(command, command.elf, fixtures[i]).compute_units)
    <3>1. /\ file \in Seq(Seq(Row)) /\ RowsKept(command, fixtures, bench_results, Len(fixtures))
      BY <2>1, <2>2, AtExit DEF RInv, RunPlaced, BenchesKept, Running
    <3>2. i \in 1..Len(bench_results) /\ bench_results \in Seq(BenchResult)
      BY <3>1 DEF RowsKept, Places
    <3>3. file' = write_results(file, bench_results)
      BY <2>1, <2>2
    <3>4. /\ file' # <<>>
          /\ \E row \in DOMAIN Head(file') :
               Result(Trimmed[Head(file')[row].name], Head(file')[row].cus_consumed)
                 = bench_results[i]
      BY <2>2, <3>1, <3>2, <3>3, ReportWritten
    <3>5. Undisturbed(Found(command), fixtures[i]) =>
            bench_results[i] = Result(NameOf[fixtures[i]],
                                      Alone(command, command.elf, fixtures[i]).compute_units)
      BY <3>1 DEF RowsKept, Places
    <3> QED BY <3>4, <3>5
  <2> QED BY <2>1, <2>2 DEF ReportTrue
<1>3. CASE ~Report
  <2>1. file' = file /\ (status' # 0 \/ status' = status)
    BY <1>1, <1>3 DEF Next, Setup, SetupFails, RunGround, RunTarget, RunPanics, EndFixture,
                      ExitFailed, ReportPanics, NewCommand, End
  <2> QED BY <1>1, <2>1 DEF ReportTrue
<1> QED BY <1>2, <1>3

(* The report changes only after a run in which all fixtures pass, and     *)
(* then has the units of each under the tested ELF.                        *)
THEOREM Reporting == Spec => ReportOfTarget
BY RunnerInvariance, StepReportTrue, PTL DEF Spec, ReportOfTarget
=============================================================================
