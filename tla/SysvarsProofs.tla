---------------------------- MODULE SysvarsProofs ----------------------------
(***************************************************************************)
(* Proofs about Sysvars, for every length of the list, every slot and      *)
(* every list a test assigns: SlotHashes keeps its order and its length,   *)
(* is the window below a slot as long as no test has assigned it, and a    *)
(* warp fills in what it skips and keeps what it does not.                 *)
(***************************************************************************)
EXTENDS Sysvars, SumProofs, FiniteSetTheorems

-----------------------------------------------------------------------------
(* The inductive invariant.                                                *)

(* What SlotHashes::add relies on: a sorted list, where only the zeros of  *)
(* the default list are not unique.                                        *)
Sound(list) ==
  /\ list \in Seq(Entry) /\ Descending(list) /\ Len(list) <= MaxEntries
  /\ \A i, j \in DOMAIN list :
       list[i].slot = list[j].slot => i = j \/ (list[i] = Default(0) /\ list[j] = Default(0))

ClockKept ==
  clock \in [slot : Nat, epoch : Int, leader_schedule_epoch : Int, unix_timestamp : Int]

SInv == ClockKept /\ Sound(slotHashes) /\ HashesAreAWindow

-----------------------------------------------------------------------------
(* Lemmas on the operators.                                                *)

(* A list that was added to at its newest end: either the newest entry had *)
(* the slot, or the list moves by one and may lose its oldest entry.       *)
Hit(list, s, new) ==
  /\ list # <<>> /\ list[1].slot = s
  /\ Len(new) = Len(list)
  /\ \A i \in 1..Len(list) :
       new[i] = list[i] \/ (new[i] = Default(s) /\ list[i].slot = s)

Miss(list, s, new) ==
  /\ \A i \in 1..Len(list) : list[i].slot < s
  /\ Len(new) = IF Len(list) + 1 > MaxEntries THEN MaxEntries ELSE Len(list) + 1
  /\ new[1] = Default(s)
  /\ \A i \in 2..Len(new) : new[i] = list[i - 1]

LEMMA SoundFacts ==
  ASSUME NEW list, Sound(list)
  PROVE  /\ Len(list) \in Nat /\ DOMAIN list = 1..Len(list)
         /\ Len(list) <= MaxEntries /\ (list = <<>> <=> Len(list) = 0)
         /\ \A i \in 1..Len(list) : list[i] \in Entry /\ list[i].slot \in Nat
         /\ \A i, j \in 1..Len(list) : i < j => list[i].slot >= list[j].slot
         /\ Newest(list) \in Nat
         /\ \A i \in 1..Len(list) : list[i].slot <= Newest(list)
<1>1. /\ Len(list) \in Nat /\ DOMAIN list = 1..Len(list)
      /\ (list = <<>> <=> Len(list) = 0)
      /\ \A i \in 1..Len(list) : list[i] \in Entry
  <2> DEFINE E == Entry
  <2>1. list \in Seq(E)
    BY DEF Sound
  <2> HIDE DEF E
  <2>2. /\ Len(list) \in Nat /\ DOMAIN list = 1..Len(list)
        /\ (list = <<>> <=> Len(list) = 0)
        /\ \A i \in 1..Len(list) : list[i] \in E
    BY <2>1
  <2> QED BY <2>2 DEF E
<1>2. \A i \in 1..Len(list) : list[i].slot \in Nat
  BY <1>1 DEF Entry
<1>3. \A i, j \in 1..Len(list) : i < j => list[i].slot >= list[j].slot
  BY <1>1 DEF Sound, Descending
<1>4. Newest(list) \in Nat
  BY <1>1, <1>2 DEF Newest
<1>5. ASSUME NEW i \in 1..Len(list) PROVE list[i].slot <= Newest(list)
  <2>1. Newest(list) = list[1].slot /\ 1 \in 1..Len(list)
    BY <1>1 DEF Newest
  <2>2. CASE i = 1
    BY <1>2, <2>1, <2>2
  <2>3. CASE i # 1
    BY <1>2, <1>3, <2>1, <2>3
  <2> QED BY <2>2, <2>3
<1> QED BY <1>1, <1>2, <1>3, <1>4, <1>5 DEF Sound

LEMMA AddedAtTheFront ==
  ASSUME NEW list, Sound(list), NEW s \in Nat, s >= Newest(list)
  PROVE  /\ Add(list, s) \in Seq(Entry)
         /\ Hit(list, s, Add(list, s)) \/ Miss(list, s, Add(list, s))
<1> DEFINE new == Add(list, s)
<1>1. /\ MaxEntries \in Nat /\ MaxEntries > 0
  BY SizeAssumption
<1>2. Default(s) \in Entry /\ Default(s).slot = s
  BY DEF Default, Entry
<1>3. /\ Len(list) \in Nat /\ DOMAIN list = 1..Len(list)
      /\ Len(list) <= MaxEntries /\ (list = <<>> <=> Len(list) = 0)
      /\ \A i \in 1..Len(list) : list[i] \in Entry /\ list[i].slot \in Nat
      /\ \A i, j \in 1..Len(list) : i < j => list[i].slot >= list[j].slot
      /\ \A i \in 1..Len(list) : list[i].slot <= Newest(list)
  BY SoundFacts
<1>4. list \in Seq(Entry)
  BY DEF Sound
<1>5. CASE \E i \in DOMAIN list : list[i].slot = s
  <2> DEFINE at == CHOOSE i \in DOMAIN list : list[i].slot = s
  <2>1. at \in 1..Len(list) /\ list[at].slot = s
    BY <1>3, <1>5
  <2>2. new = [list EXCEPT ![at] = Default(s)]
    BY <1>5 DEF Add
  <2> HIDE DEF at, new
  <2> DEFINE E == Entry
             d == Default(s)
  <2>3. list \in Seq(E) /\ d \in E /\ new = [list EXCEPT ![at] = d] /\ at \in 1..Len(list)
    BY <1>2, <1>4, <2>1, <2>2
  <2>4. d.slot = s
    BY <1>2
  <2> HIDE DEF E, d
  <2>5. /\ new \in Seq(E) /\ Len(new) = Len(list) /\ new[at] = d
        /\ \A i \in 1..Len(list) : i # at => new[i] = list[i]
    BY <2>3
  <2>6. list # <<>> /\ list[1].slot = s
    <3>1. 1 \in 1..Len(list) /\ list[1].slot <= s /\ list[1].slot >= list[at].slot
      <4>1. 1 \in 1..Len(list) /\ Newest(list) = list[1].slot
        BY <1>3, <2>1 DEF Newest
      <4>2. list[at].slot <= Newest(list)
        BY <1>3, <2>1
      <4> QED BY <4>1, <4>2, <2>1, <1>3
    <3> QED BY <3>1, <2>1, <1>3
  <2>7. Hit(list, s, new)
    BY <2>1, <2>5, <2>6 DEF Hit, d
  <2> QED BY <2>5, <2>7 DEF E, new
<1>6. CASE ~\E i \in DOMAIN list : list[i].slot = s
  <2> DEFINE above == {i \in DOMAIN list : list[i].slot > s}
             longer == Sequence!InsertAt(list, Cardinality(above) + 1, Default(s))
             size == IF Len(longer) > MaxEntries THEN MaxEntries ELSE Len(longer)
  <2>1. \A i \in 1..Len(list) : list[i].slot < s
    <3>1. Newest(list) \in Nat
      BY SoundFacts
    <3> QED BY <1>3, <1>6, <3>1
  <2>2. above = {}
    BY <1>3, <2>1
  <2>3. Cardinality(above) + 1 = 1
    BY <2>2, FS_EmptySet
  <2>4. longer = SubSeq(list, 1, 0) \o <<Default(s)>> \o SubSeq(list, 1, Len(list))
    <3>1. longer = Sequence!InsertAt(list, 1, Default(s))
      BY <2>3
    <3>2. Sequence!InsertAt(list, 1, Default(s))
            = SubSeq(list, 1, 1 - 1) \o <<Default(s)>> \o SubSeq(list, 1, Len(list))
      BY DEF Sequence!InsertAt
    <3>3. 1 - 1 = 0
      OBVIOUS
    <3> HIDE DEF longer
    <3> QED BY <3>1, <3>2, <3>3, Zenon
  <2>5. new = SubSeq(longer, 1, size)
    BY <1>6 DEF Add
  <2> HIDE DEF above, longer, new
  <2> DEFINE E == Entry
             d == Default(s)
  <2>6. list \in Seq(E) /\ d \in E /\ longer = SubSeq(list, 1, 0) \o <<d>> \o SubSeq(list, 1, Len(list))
    BY <1>2, <1>4, <2>4
  <2> HIDE DEF E, d
  <2>7. SubSeq(list, 1, 0) = <<>> /\ SubSeq(list, 1, Len(list)) = list
    BY <2>6
  <2>8. longer = <<d>> \o list
    BY <2>6, <2>7
  <2>9. /\ longer \in Seq(E) /\ Len(longer) = Len(list) + 1 /\ longer[1] = d
        /\ \A i \in 2..Len(longer) : longer[i] = list[i - 1]
    BY <2>6, <2>8
  <2>10. size \in 1..Len(longer)
    BY <1>1, <1>3, <2>9
  <2>11. /\ new \in Seq(E) /\ Len(new) = size
         /\ \A i \in 1..size : new[i] = longer[i]
    <3> HIDE DEF size
    <3> QED BY <2>5, <2>9, <2>10
  <2>12. Miss(list, s, new)
    BY <1>3, <2>1, <2>9, <2>10, <2>11 DEF Miss, d
  <2> QED BY <2>11, <2>12 DEF E, new
<1> QED BY <1>5, <1>6

(* What SlotHashes::add relies on it also keeps.                           *)
LEMMA AddKeepsSound ==
  ASSUME NEW list, Sound(list), NEW s \in Nat, s >= Newest(list)
  PROVE  /\ Sound(Add(list, s)) /\ Newest(Add(list, s)) = s
         /\ Len(Add(list, s)) > 0
<1> DEFINE new == Add(list, s)
<1>1. /\ MaxEntries \in Nat /\ MaxEntries > 0
  BY SizeAssumption
<1>2. /\ Len(list) \in Nat /\ DOMAIN list = 1..Len(list)
      /\ Len(list) <= MaxEntries /\ (list = <<>> <=> Len(list) = 0)
      /\ \A i \in 1..Len(list) : list[i] \in Entry /\ list[i].slot \in Nat
      /\ \A i, j \in 1..Len(list) : i < j => list[i].slot >= list[j].slot
  BY SoundFacts
<1>3. \A i, j \in 1..Len(list) :
        list[i].slot = list[j].slot => i = j \/ (list[i] = Default(0) /\ list[j] = Default(0))
  BY <1>2 DEF Sound
<1>4. Default(s).slot = s /\ Default(0).slot = 0
  BY DEF Default
<1>5. new \in Seq(Entry) /\ (Hit(list, s, new) \/ Miss(list, s, new))
  BY AddedAtTheFront
<1> HIDE DEF new
<1>6. Len(new) \in Nat /\ DOMAIN new = 1..Len(new) /\ (new = <<>> <=> Len(new) = 0)
  <2> DEFINE E == Entry
  <2>1. new \in Seq(E)
    BY <1>5
  <2> HIDE DEF E
  <2> QED BY <2>1
<1>7. CASE Hit(list, s, new)
  <2>1. /\ Len(list) > 0 /\ list[1].slot = s /\ Len(new) = Len(list)
        /\ \A i \in 1..Len(list) :
             new[i] = list[i] \/ (new[i] = Default(s) /\ list[i].slot = s)
    BY <1>2, <1>7 DEF Hit
  <2>2. \A i \in 1..Len(list) : new[i].slot = list[i].slot
    BY <1>4, <2>1
  <2>3. Descending(new)
    BY <1>2, <1>6, <2>1, <2>2 DEF Descending
  <2>4. ASSUME NEW i \in 1..Len(new), NEW j \in 1..Len(new), new[i].slot = new[j].slot, i # j
        PROVE  new[i] = Default(0) /\ new[j] = Default(0)
    <3>1. list[i] = Default(0) /\ list[j] = Default(0)
      BY <1>3, <2>1, <2>2, <2>4
    <3> QED BY <1>4, <2>1, <2>4, <3>1
  <2>5. Newest(new) = s /\ Len(new) > 0
    BY <1>2, <1>6, <2>1, <2>2 DEF Newest
  <2> QED BY <1>2, <1>5, <1>6, <2>1, <2>3, <2>4, <2>5 DEF Sound, new
<1>8. CASE Miss(list, s, new)
  <2>1. /\ \A i \in 1..Len(list) : list[i].slot < s
        /\ Len(new) = IF Len(list) + 1 > MaxEntries THEN MaxEntries ELSE Len(list) + 1
        /\ new[1] = Default(s)
        /\ \A i \in 2..Len(new) : new[i] = list[i - 1]
    BY <1>8 DEF Miss
  <2>2. \A i \in 2..Len(new) : i - 1 \in 1..Len(list)
    BY <1>1, <1>2, <2>1
  <2>3. ASSUME NEW i \in 1..Len(new), NEW j \in 1..Len(new), i < j
        PROVE  new[i].slot >= new[j].slot
    <3>1. j \in 2..Len(new) /\ new[j] = list[j - 1] /\ j - 1 \in 1..Len(list)
      BY <1>6, <2>1, <2>2, <2>3
    <3>2. CASE i = 1
      BY <1>2, <1>4, <2>1, <3>1, <3>2
    <3>3. CASE i # 1
      <4>1. new[i] = list[i - 1] /\ i - 1 \in 1..Len(list) /\ i - 1 < j - 1
        BY <1>6, <2>1, <2>2, <2>3, <3>3
      <4> QED BY <1>2, <3>1, <4>1
    <3> QED BY <3>2, <3>3
  <2>4. Descending(new)
    BY <1>6, <2>3 DEF Descending
  <2>5. ASSUME NEW i \in 1..Len(new), NEW j \in 1..Len(new), new[i].slot = new[j].slot, i < j
        PROVE  new[i] = Default(0) /\ new[j] = Default(0)
    <3>1. new[j] = list[j - 1] /\ j - 1 \in 1..Len(list)
      BY <1>6, <2>1, <2>2, <2>5
    <3>2. i # 1
      BY <1>2, <1>4, <2>1, <2>5, <3>1
    <3>3. new[i] = list[i - 1] /\ i - 1 \in 1..Len(list) /\ i - 1 # j - 1
      BY <1>6, <2>1, <2>2, <2>5, <3>2
    <3> QED BY <1>3, <2>5, <3>1, <3>3
  <2>6. \A i, j \in DOMAIN new :
          new[i].slot = new[j].slot => i = j \/ (new[i] = Default(0) /\ new[j] = Default(0))
    <3> SUFFICES ASSUME NEW i \in 1..Len(new), NEW j \in 1..Len(new),
                        new[i].slot = new[j].slot, i # j
                 PROVE  new[i] = Default(0) /\ new[j] = Default(0)
      BY <1>6
    <3>1. i < j \/ j < i
      BY <1>6
    <3> QED BY <2>5, <3>1
  <2>7. Newest(new) = s /\ Len(new) > 0 /\ Len(new) <= MaxEntries
    BY <1>1, <1>2, <1>4, <1>6, <2>1 DEF Newest
  <2> QED BY <1>5, <2>4, <2>6, <2>7 DEF Sound, new
<1> QED BY <1>5, <1>7, <1>8

(* The entries behind the newest are kept while there is room for them.    *)
TailKept(list, new) ==
  \A i \in 2..Len(list) :
    \/ \E j \in 1..Len(new) : new[j] = list[i]
    \/ Len(new) > 0 /\ new[Len(new)].slot > list[i].slot

LEMMA HitKeepsTail ==
  ASSUME NEW list, Sound(list), NEW s \in Nat, NEW new, Hit(list, s, new)
  PROVE  TailKept(list, new)
<1>1. /\ Len(list) \in Nat /\ DOMAIN list = 1..Len(list)
  BY SoundFacts
<1>2. \A i, j \in 1..Len(list) :
        list[i].slot = list[j].slot => i = j \/ (list[i] = Default(0) /\ list[j] = Default(0))
  BY <1>1 DEF Sound
<1>3. /\ list[1].slot = s /\ Len(new) = Len(list)
      /\ \A i \in 1..Len(list) :
           new[i] = list[i] \/ (new[i] = Default(s) /\ list[i].slot = s)
  BY DEF Hit
<1>4. Default(0).slot = 0
  BY DEF Default
<1>5. ASSUME NEW i \in 2..Len(list) PROVE new[i] = list[i]
  <2>1. i \in 1..Len(list) /\ 1 \in 1..Len(list) /\ i # 1
    BY <1>1
  <2> QED BY <1>2, <1>3, <1>4, <2>1
<1>6. \A i \in 2..Len(list) : i \in 1..Len(new)
  BY <1>1, <1>3
<1> QED BY <1>5, <1>6 DEF TailKept

LEMMA MissKeepsTail ==
  ASSUME NEW base, Sound(base), NEW list, Sound(list), NEW s \in Nat, NEW new,
         Miss(list, s, new), TailKept(base, list)
  PROVE  TailKept(base, new)
<1>1. /\ MaxEntries \in Nat /\ MaxEntries > 0
  BY SizeAssumption
<1>2. /\ Len(base) \in Nat /\ Len(base) <= MaxEntries
      /\ \A i \in 1..Len(base) : base[i].slot \in Nat
  BY SoundFacts
<1>3. /\ Len(list) \in Nat /\ DOMAIN list = 1..Len(list) /\ Len(list) <= MaxEntries
      /\ \A i \in 1..Len(list) : list[i].slot \in Nat
      /\ \A i, j \in 1..Len(list) : i < j => list[i].slot >= list[j].slot
  BY SoundFacts
<1>4. \A i, j \in 1..Len(list) :
        list[i].slot = list[j].slot => i = j \/ (list[i] = Default(0) /\ list[j] = Default(0))
  BY <1>3 DEF Sound
<1>5. /\ \A i \in 1..Len(list) : list[i].slot < s
      /\ Len(new) = IF Len(list) + 1 > MaxEntries THEN MaxEntries ELSE Len(list) + 1
      /\ new[1] = Default(s) /\ \A i \in 2..Len(new) : new[i] = list[i - 1]
  BY DEF Miss
<1>6. Default(s).slot = s
  BY DEF Default
<1> SUFFICES ASSUME NEW i \in 2..Len(base)
             PROVE  \/ \E j \in 1..Len(new) : new[j] = base[i]
                    \/ Len(new) > 0 /\ new[Len(new)].slot > base[i].slot
  BY DEF TailKept
<1>7. base[i].slot \in Nat /\ MaxEntries >= 2
  BY <1>1, <1>2
<1>8. CASE \E j \in 1..Len(list) : list[j] = base[i]
  <2>1. PICK j \in 1..Len(list) : list[j] = base[i]
    BY <1>8
  <2>2. CASE j + 1 <= Len(new)
    <3>1. j + 1 \in 2..Len(new) /\ j + 1 \in 1..Len(new) /\ (j + 1) - 1 = j
      BY <1>1, <1>3, <1>5, <2>2
    <3>2. new[j + 1] = base[i]
      BY <1>5, <2>1, <3>1
    <3> QED BY <3>1, <3>2
  <2>3. CASE j + 1 > Len(new)
    <3>1. Len(new) = MaxEntries /\ j = MaxEntries /\ Len(list) = MaxEntries
      <4>1. /\ Len(list) \in Nat /\ Len(list) <= MaxEntries /\ j \in 1..Len(list)
            /\ Len(new) = IF Len(list) + 1 > MaxEntries THEN MaxEntries ELSE Len(list) + 1
        BY <1>3, <1>5
      <4>2. Len(new) \in Nat
        BY <1>1, <4>1
      <4>3. Len(list) + 1 > MaxEntries
        BY <1>1, <2>3, <4>1, <4>2
      <4> QED BY <1>1, <2>3, <4>1, <4>3
    <3>2. /\ MaxEntries - 1 \in 1..Len(list) /\ MaxEntries \in 1..Len(list)
          /\ new[Len(new)] = list[MaxEntries - 1] /\ MaxEntries \in 1..Len(new)
          /\ list[MaxEntries - 1].slot >= list[MaxEntries].slot
          /\ list[MaxEntries] = base[i]
      BY <1>1, <1>3, <1>5, <1>7, <2>1, <3>1
    <3>3. CASE list[MaxEntries - 1].slot = list[MaxEntries].slot
      <4>1. list[MaxEntries - 1] = list[MaxEntries]
        BY <1>1, <1>4, <3>2, <3>3
      <4> QED BY <3>1, <3>2, <4>1
    <3>4. CASE list[MaxEntries - 1].slot # list[MaxEntries].slot
      BY <1>3, <3>2, <3>4, SMTT(30)
    <3> QED BY <3>3, <3>4
  <2> QED BY <1>1, <1>3, <1>5, <2>2, <2>3
<1>9. CASE list[Len(list)].slot > base[i].slot /\ Len(list) > 0
  <2>1. Len(list) \in 1..Len(list)
    BY <1>3, <1>9
  <2>2. new[Len(new)].slot >= list[Len(list)].slot
    <3>1. Len(new) \in 2..Len(new) /\ Len(new) - 1 \in 1..Len(list)
      BY <1>1, <1>3, <1>5, <1>7, <1>9
    <3>2. new[Len(new)] = list[Len(new) - 1]
      BY <1>5, <3>1
    <3>3. Len(new) - 1 = Len(list) \/ Len(new) - 1 < Len(list)
      BY <1>1, <1>3, <1>5
    <3> QED BY <1>3, <2>1, <3>1, <3>2, <3>3
  <2>3. new[Len(new)].slot \in Nat
    <3>1. Len(new) \in 2..Len(new) /\ Len(new) - 1 \in 1..Len(list)
      BY <1>1, <1>3, <1>5, <1>7, <1>9
    <3> QED BY <1>3, <1>5, <3>1
  <2>4. Len(new) > 0
    BY <1>1, <1>3, <1>5
  <2> QED BY <1>3, <1>7, <1>9, <2>1, <2>2, <2>3, <2>4
<1> QED BY <1>8, <1>9 DEF TailKept

(* The window below a slot is sound, and adding its own newest slot or the *)
(* next one gives a window again.                                          *)
LEMMA WindowFacts ==
  ASSUME NEW m \in Nat, m > 0
  PROVE  /\ Len(Window(m)) = MaxEntries /\ Newest(Window(m)) = m - 1
         /\ Window(m) # <<>>
         /\ \A n \in 1..MaxEntries : Window(m)[n] = Default(SaturatingSub(m, n))
         /\ Sound(Window(m))
<1> DEFINE w == Window(m)
<1>1. MaxEntries \in Nat /\ MaxEntries > 0
  BY SizeAssumption
<1>2. \A n \in 1..MaxEntries : SaturatingSub(m, n) \in Nat
  BY <1>1 DEF SaturatingSub
<1>3. /\ DOMAIN w = 1..MaxEntries /\ w \in [1..MaxEntries -> Entry]
      /\ \A n \in 1..MaxEntries :
           w[n] = Default(SaturatingSub(m, n)) /\ w[n].slot = SaturatingSub(m, n)
  BY <1>1, <1>2 DEF Window, Default, Entry
<1> HIDE DEF w
<1>4. w \in Seq(Entry) /\ Len(w) = MaxEntries
  <2> DEFINE E == Entry
  <2>1. w \in [1..MaxEntries -> E]
    BY <1>3
  <2> HIDE DEF E
  <2>2. w \in Seq(E) /\ Len(w) = MaxEntries
    BY <1>1, <2>1
  <2> QED BY <2>2 DEF E
<1>5. w # <<>> /\ Newest(w) = m - 1
  <2>1. w # <<>>
    BY <1>1, <1>4
  <2> QED BY <1>1, <1>3, <2>1 DEF Newest, SaturatingSub
<1>6. Descending(w)
  BY <1>1, <1>3 DEF Descending, SaturatingSub
<1>7. \A i, j \in DOMAIN w :
        w[i].slot = w[j].slot => i = j \/ (w[i] = Default(0) /\ w[j] = Default(0))
  <2> SUFFICES ASSUME NEW i \in 1..MaxEntries, NEW j \in 1..MaxEntries,
                      w[i].slot = w[j].slot, i # j
               PROVE  w[i] = Default(0) /\ w[j] = Default(0)
    BY <1>3
  <2>1. SaturatingSub(m, i) = SaturatingSub(m, j)
    BY <1>3
  <2>2. SaturatingSub(m, i) = 0
    BY <1>1, <2>1 DEF SaturatingSub
  <2> QED BY <1>3, <2>1, <2>2
<1> QED BY <1>1, <1>3, <1>4, <1>5, <1>6, <1>7 DEF Sound, w

LEMMA WindowAgain ==
  ASSUME NEW m \in Nat, m > 0
  PROVE  Add(Window(m), m - 1) = Window(m)
<1> DEFINE w == Window(m)
           new == Add(w, m - 1)
<1>1. MaxEntries \in Nat /\ MaxEntries > 0
  BY SizeAssumption
<1>2. /\ Len(w) = MaxEntries /\ Newest(w) = m - 1 /\ w # <<>>
      /\ \A n \in 1..MaxEntries : w[n] = Default(SaturatingSub(m, n))
      /\ Sound(w)
  BY WindowFacts
<1> HIDE DEF w
<1>3. new \in Seq(Entry) /\ (Hit(w, m - 1, new) \/ Miss(w, m - 1, new))
  BY <1>2, AddedAtTheFront
<1> HIDE DEF new
<1>4. w[1].slot = m - 1 /\ 1 \in 1..Len(w)
  BY <1>1, <1>2 DEF Newest
<1>5. /\ Len(new) = MaxEntries
      /\ \A i \in 1..MaxEntries :
           new[i] = w[i] \/ (new[i] = Default(m - 1) /\ w[i].slot = m - 1)
  BY <1>2, <1>3, <1>4 DEF Hit, Miss
<1>6. \A i \in 1..MaxEntries : new[i] = Default(SaturatingSub(m, i))
  BY <1>2, <1>5 DEF Default
<1>7. new = [i \in 1..MaxEntries |-> new[i]]
  <2> DEFINE E == Entry
  <2>1. new \in Seq(E)
    BY <1>3
  <2> HIDE DEF E
  <2> QED BY <1>1, <1>5, <2>1
<1>8. new = [i \in 1..MaxEntries |-> Default(SaturatingSub(m, i))]
  BY <1>6, <1>7
<1> QED BY <1>8 DEF Window, w, new

LEMMA WindowOneOn ==
  ASSUME NEW m \in Nat, m > 0
  PROVE  Add(Window(m), m) = Window(m + 1)
<1> DEFINE w == Window(m)
           new == Add(w, m)
<1>1. MaxEntries \in Nat /\ MaxEntries > 0
  BY SizeAssumption
<1>2. /\ Len(w) = MaxEntries /\ Newest(w) = m - 1 /\ w # <<>>
      /\ \A n \in 1..MaxEntries : w[n] = Default(SaturatingSub(m, n))
      /\ Sound(w)
  BY WindowFacts
<1> HIDE DEF w
<1>3. new \in Seq(Entry) /\ (Hit(w, m, new) \/ Miss(w, m, new))
  BY <1>2, AddedAtTheFront
<1> HIDE DEF new
<1>4. w[1].slot = m - 1
  BY <1>1, <1>2 DEF Newest
<1>5. /\ Len(new) = MaxEntries /\ new[1] = Default(m)
      /\ \A i \in 2..MaxEntries : new[i] = w[i - 1]
  BY <1>1, <1>2, <1>3, <1>4 DEF Hit, Miss
<1>6. ASSUME NEW i \in 1..MaxEntries PROVE new[i] = Default(SaturatingSub(m + 1, i))
  <2>1. CASE i = 1
    BY <1>5, <2>1 DEF SaturatingSub
  <2>2. CASE i # 1
    <3>1. i \in 2..MaxEntries /\ i - 1 \in 1..MaxEntries
      BY <1>1, <2>2
    <3>2. SaturatingSub(m, i - 1) = SaturatingSub(m + 1, i)
      BY <3>1 DEF SaturatingSub
    <3> QED BY <1>2, <1>5, <3>1, <3>2
  <2> QED BY <2>1, <2>2
<1>7. new = [i \in 1..MaxEntries |-> new[i]]
  <2> DEFINE E == Entry
  <2>1. new \in Seq(E)
    BY <1>3
  <2> HIDE DEF E
  <2> QED BY <1>1, <1>5, <2>1
<1>8. new = [i \in 1..MaxEntries |-> Default(SaturatingSub(m + 1, i))]
  BY <1>6, <1>7
<1> QED BY <1>8 DEF Window, w, new

(* The recursive definition of the loop defines a function.                *)
LEMMA FillingsDefined ==
  ASSUME NEW list, NEW s \in Nat, Newest(list) \in Nat
  PROVE  /\ SaturatingSub(s, Newest(list)) \in Nat
         /\ Fillings(list, s) =
              [n \in 0..SaturatingSub(s, Newest(list)) |->
                 IF n = 0 THEN list ELSE Add(Fillings(list, s)[n - 1], Newest(list) + n - 1)]
<1> DEFINE i == Newest(list)
           After(f, n) == IF n = 0 THEN list ELSE Add(f[n - 1], i + n - 1)
           Rec(f, m) == f = [n \in 0..m |-> After(f, n)]
           Defined(m) == \E f : Rec(f, m)
           S == {m \in Nat : Defined(m)}
<1>1. SaturatingSub(s, i) \in Nat
  BY DEF SaturatingSub
<1>2. 0 \in S
  <2> DEFINE f == [n \in 0..0 |-> list]
  <2>1. Rec(f, 0)
    OBVIOUS
  <2> QED BY <2>1
<1>3. ASSUME NEW m \in S PROVE m + 1 \in S
  <2>1. PICK f : Rec(f, m)
    OBVIOUS
  <2> DEFINE g == [n \in 0..(m + 1) |-> IF n = m + 1 THEN Add(f[m], i + m) ELSE f[n]]
  <2>2. DOMAIN f = 0..m /\ \A n \in 0..m : f[n] = After(f, n)
    BY <2>1
  <2>3. ASSUME NEW n \in 0..(m + 1) PROVE g[n] = After(g, n)
    <3>1. CASE n = 0
      BY <2>2, <3>1
    <3>2. CASE n \in 1..m
      <4>1. g[n] = f[n] /\ g[n - 1] = f[n - 1] /\ n # 0 /\ n \in 0..m
        BY <3>2
      <4> HIDE DEF g
      <4> QED BY <2>2, <4>1
    <3>3. CASE n = m + 1
      <4>1. g[n] = Add(f[m], i + m) /\ g[n - 1] = f[m] /\ i + n - 1 = i + m /\ n # 0
        BY <3>3
      <4> HIDE DEF g
      <4> QED BY <4>1
    <3> QED BY <3>1, <3>2, <3>3
  <2>4. Rec(g, m + 1)
    BY <2>3
  <2> HIDE DEF g
  <2>5. Defined(m + 1)
    BY <2>4
  <2> HIDE DEF Defined
  <2> QED BY <2>5
<1>4. S = Nat
  <2> HIDE DEF S
  <2> QED BY <1>2, <1>3, InductiveSet DEF S
<1>5. \E f : Rec(f, SaturatingSub(s, i))
  BY <1>1, <1>4
<1> QED BY <1>1, <1>5 DEF Fillings

(* What the loop has reached after n of its slots.                         *)
Reached(list, n, new) ==
  /\ Sound(new) /\ TailKept(list, new)
  /\ n = 0 => new = list
  /\ n > 0 => Len(new) > 0 /\ Newest(new) = Newest(list) + n - 1
  /\ \A k \in 1..n : k <= MaxEntries =>
       k <= Len(new) /\ new[k].slot = Newest(list) + n - k
  /\ list = Window(Newest(list) + 1) /\ n > 0 => new = Window(Newest(list) + n)

LEMMA OneMoreReached ==
  ASSUME NEW list, Sound(list), NEW n \in Nat, NEW before, Reached(list, n, before)
  PROVE  Reached(list, n + 1, Add(before, Newest(list) + n))
<1> DEFINE i == Newest(list)
           new == Add(before, i + n)
<1>1. MaxEntries \in Nat /\ MaxEntries > 0
  BY SizeAssumption
<1>2. i \in Nat
  BY SoundFacts
<1>3. /\ Sound(before) /\ TailKept(list, before)
      /\ n = 0 => before = list
      /\ n > 0 => Len(before) > 0 /\ Newest(before) = i + n - 1
      /\ \A k \in 1..n : k <= MaxEntries =>
           k <= Len(before) /\ before[k].slot = i + n - k
      /\ list = Window(i + 1) /\ n > 0 => before = Window(i + n)
  BY DEF Reached
<1> HIDE DEF i
<1>4. i + n \in Nat /\ i + n >= Newest(before)
  BY <1>2, <1>3 DEF i
<1>5. /\ Sound(new) /\ Newest(new) = i + n /\ Len(new) > 0
  BY <1>3, <1>4, AddKeepsSound
<1>6. Hit(before, i + n, new) \/ Miss(before, i + n, new)
  BY <1>3, <1>4, AddedAtTheFront
<1>7. /\ Len(before) \in Nat /\ Len(new) \in Nat
      /\ (before = <<>> <=> Len(before) = 0) /\ (new = <<>> <=> Len(new) = 0)
      /\ Len(new) <= MaxEntries
  BY <1>3, <1>5, SoundFacts
<1>8. list = Window(i + 1) => new = Window(i + n + 1)
  <2> SUFFICES ASSUME list = Window(i + 1) PROVE new = Window(i + n + 1)
    OBVIOUS
  <2>1. CASE n = 0
    <3>1. before = Window(i + 1) /\ new = Add(Window(i + 1), (i + 1) - 1)
      BY <1>2, <1>3, <2>1
    <3>2. Add(Window(i + 1), (i + 1) - 1) = Window(i + 1)
      BY <1>2, WindowAgain
    <3>3. i + n + 1 = i + 1
      BY <1>2, <2>1
    <3> QED BY <3>1, <3>2, <3>3
  <2>2. CASE n > 0
    <3>1. before = Window(i + n)
      BY <1>3, <2>2
    <3>2. Add(Window(i + n), i + n) = Window(i + n + 1)
      BY <1>2, <2>2, WindowOneOn
    <3> QED BY <3>1, <3>2
  <2> QED BY <2>1, <2>2
<1> HIDE DEF new
<1>9. Hit(before, i + n, new) => n = 0 /\ before = list
  <2> SUFFICES ASSUME Hit(before, i + n, new), n > 0 PROVE FALSE
    BY <1>3
  <2>1. Newest(before) = i + n
    BY DEF Hit, Newest
  <2> QED BY <1>2, <1>3, <2>1
<1>10. TailKept(list, new)
  <2>1. CASE Hit(before, i + n, new)
    BY <1>4, <1>9, <2>1, HitKeepsTail
  <2>2. CASE Miss(before, i + n, new)
    BY <1>3, <1>4, <2>2, MissKeepsTail
  <2> QED BY <1>6, <2>1, <2>2
<1>11. new[1].slot = i + n
  BY <1>5, <1>7 DEF Newest
<1>12. ASSUME NEW k \in 1..(n + 1), k <= MaxEntries
       PROVE  k <= Len(new) /\ new[k].slot = i + (n + 1) - k
  <2>1. CASE k = 1
    BY <1>2, <1>5, <1>7, <1>11, <2>1
  <2>2. CASE k # 1
    <3>1. k - 1 \in 1..n /\ k - 1 <= MaxEntries /\ n > 0
      BY <1>1, <1>12, <2>2
    <3>2. k - 1 <= Len(before) /\ before[k - 1].slot = i + n - (k - 1)
      BY <1>3, <3>1
    <3>3. /\ Len(new) = IF Len(before) + 1 > MaxEntries THEN MaxEntries ELSE Len(before) + 1
          /\ \A j \in 2..Len(new) : new[j] = before[j - 1]
      BY <1>6, <1>9, <3>1 DEF Miss
    <3>4. k <= Len(new) /\ k \in 2..Len(new)
      BY <1>1, <1>7, <1>12, <2>2, <3>2, <3>3
    <3>5. i + n - (k - 1) = i + (n + 1) - k
      BY <1>2
    <3> QED BY <3>2, <3>3, <3>4, <3>5
  <2> QED BY <2>1, <2>2
<1>13. n + 1 # 0 /\ i + (n + 1) - 1 = i + n /\ i + (n + 1) = i + n + 1
  BY <1>2
<1> QED BY <1>5, <1>8, <1>10, <1>12, <1>13 DEF Reached, i, new

LEMMA FilledReached ==
  ASSUME NEW list, Sound(list), NEW s \in Nat
  PROVE  /\ SaturatingSub(s, Newest(list)) \in Nat
         /\ Reached(list, SaturatingSub(s, Newest(list)), Filled(list, s))
<1> DEFINE i == Newest(list)
           N == SaturatingSub(s, i)
           fill == Fillings(list, s)
           S == {n \in 0..N : Reached(list, n, fill[n])}
<1>1. /\ i \in Nat /\ Len(list) \in Nat
  BY SoundFacts
<1>2. /\ N \in Nat
      /\ fill = [n \in 0..N |-> IF n = 0 THEN list ELSE Add(fill[n - 1], i + n - 1)]
  BY <1>1, FillingsDefined
<1>3. Filled(list, s) = fill[N]
  BY DEF Filled
<1> HIDE DEF N, fill
<1>4. 0 \in S
  <2>1. fill[0] = list
    BY <1>2
  <2>2. \A k \in 2..Len(list) : k \in 1..Len(list)
    BY <1>1
  <2>3. TailKept(list, list)
    BY <2>2 DEF TailKept
  <2>4. Reached(list, 0, list)
    BY <2>3 DEF Reached
  <2> QED BY <1>2, <2>1, <2>4
<1>5. ASSUME NEW n \in 0..(N - 1), n \in S PROVE n + 1 \in S
  <2>1. n \in Nat /\ n + 1 \in 0..N /\ Reached(list, n, fill[n])
    BY <1>2, <1>5
  <2>2. fill[n + 1] = Add(fill[n], i + n)
    <3>1. n + 1 # 0 /\ (n + 1) - 1 = n /\ i + (n + 1) - 1 = i + n
      BY <1>1, <2>1
    <3> HIDE DEF i
    <3> QED BY <1>2, <2>1, <3>1
  <2>3. Reached(list, n + 1, fill[n + 1])
    BY <2>1, <2>2, OneMoreReached
  <2> QED BY <2>1, <2>3
<1>6. S = 0..N
  <2> HIDE DEF S
  <2>1. S \in SUBSET (0..N)
    BY DEF S
  <2> QED BY <1>2, <1>4, <1>5, <2>1, InductiveUpTo
<1>7. N \in S
  <2>1. N \in 0..N
    BY <1>2
  <2> HIDE DEF S
  <2> QED BY <1>6, <2>1
<1> QED BY <1>2, <1>3, <1>7 DEF N

(* A list that is rebuilt is the window below the target.                  *)
LEMMA RebuiltWindow ==
  ASSUME NEW s \in Nat, s > MaxEntries
  PROVE  Rebuilt(s) = Window(s)
<1>1. MaxEntries \in Nat
  BY SizeAssumption
<1>2. \A n \in 1..MaxEntries : s - n = SaturatingSub(s, n)
  BY <1>1 DEF SaturatingSub
<1> QED BY <1>2 DEF Rebuilt, Window

-----------------------------------------------------------------------------
(* The steps.                                                              *)

LEMMA InitSInv == Init => SInv
<1> SUFFICES ASSUME Init PROVE SInv
  OBVIOUS
<1>1. MaxEntries \in Nat /\ MaxEntries > 0
  BY SizeAssumption
<1>2. ClockKept
  BY DEF Init, ClockKept
<1>3. slotHashes = Window(1)
  <2>1. \A n \in 1..MaxEntries : SaturatingSub(1, n) = 0
    BY <1>1 DEF SaturatingSub
  <2> QED BY <2>1 DEF Init, Window
<1>4. Sound(slotHashes) /\ Newest(slotHashes) = 0
  BY <1>3, WindowFacts
<1>5. HashesAreAWindow
  <2>1. Newest(slotHashes) + 1 = 1 /\ clock.slot = 0
    BY <1>4 DEF Init
  <2> QED BY <1>3, <2>1 DEF HashesAreAWindow
<1> QED BY <1>2, <1>4, <1>5 DEF SInv

(* A warp leaves a sound list, and a window of a window.                   *)
LEMMA WarpSInv ==
  ASSUME SInv, NEW s \in Targets, warp_to_slot(s)
  PROVE  SInv'
<1>1. MaxEntries \in Nat /\ MaxEntries > 0 /\ s \in Nat /\ SlotsPerEpoch \in Nat /\ SlotsPerEpoch > 0
  BY SizeAssumption, TargetsAssumption
<1>2. clock.slot \in Nat /\ Sound(slotHashes) /\ Newest(slotHashes) \in Nat
  <2>1. Sound(slotHashes)
    BY DEF SInv
  <2> QED BY <2>1, SoundFacts DEF SInv, ClockKept
<1>3. clock' = ClockAt(s) /\ slotHashes' = Warped(s) /\ assigned' = assigned
  BY DEF warp_to_slot
<1>4. ClockKept' /\ clock'.slot = s
  <2>1. EpochOf(s) \in Int /\ LeaderScheduleEpochOf(s) \in Int
    BY <1>1 DEF EpochOf, LeaderScheduleEpochOf
  <2> QED BY <1>1, <1>3, <2>1 DEF ClockKept, ClockAt
<1>5. CASE SaturatingSub(s, clock.slot) > MaxEntries
  <2>1. s > MaxEntries
    BY <1>1, <1>2, <1>5 DEF SaturatingSub
  <2>2. slotHashes' = Window(s)
    BY <1>1, <1>3, <1>5, <2>1, RebuiltWindow DEF Warped
  <2>3. Sound(slotHashes') /\ Newest(slotHashes') = s - 1
    BY <1>1, <2>1, <2>2, WindowFacts
  <2>4. Newest(slotHashes') + 1 = s
    BY <1>1, <2>3
  <2>5. HashesAreAWindow'
    BY <1>1, <1>4, <2>2, <2>4 DEF HashesAreAWindow
  <2> QED BY <1>4, <2>3, <2>5 DEF SInv
<1>6. CASE ~(SaturatingSub(s, clock.slot) > MaxEntries)
  <2> DEFINE i == Newest(slotHashes)
             N == SaturatingSub(s, i)
             new == Filled(slotHashes, s)
  <2>1. slotHashes' = new
    BY <1>3, <1>6 DEF Warped
  <2>2. N \in Nat /\ Reached(slotHashes, N, new)
    BY <1>1, <1>2, FilledReached
  <2>3. /\ N = 0 => s <= i
        /\ N > 0 => s = i + N
    BY <1>1, <1>2 DEF SaturatingSub
  <2> HIDE DEF N, new
  <2>4. Sound(slotHashes')
    BY <2>1, <2>2 DEF Reached
  <2>5. ASSUME ~assigned
        PROVE  /\ slotHashes' = Window(Newest(slotHashes') + 1)
               /\ clock'.slot > 0 => Newest(slotHashes') + 1 >= clock'.slot
    <3>1. slotHashes = Window(i + 1)
      BY <2>5 DEF SInv, HashesAreAWindow
    <3>2. CASE N = 0
      <4>1. slotHashes' = slotHashes
        BY <2>1, <2>2, <3>2 DEF Reached
      <4> QED BY <1>1, <1>2, <1>4, <2>3, <3>1, <3>2, <4>1
    <3>3. CASE N > 0
      <4>1. new = Window(i + N) /\ Newest(new) = i + N - 1
        BY <2>2, <3>1, <3>3 DEF Reached
      <4>2. Newest(slotHashes') + 1 = s
        BY <1>1, <1>2, <2>1, <2>2, <2>3, <3>3, <4>1
      <4> QED BY <1>1, <1>4, <2>1, <2>3, <3>3, <4>1, <4>2
    <3> QED BY <2>2, <3>2, <3>3
  <2>6. HashesAreAWindow'
    BY <1>3, <2>5 DEF HashesAreAWindow
  <2> QED BY <1>4, <2>4, <2>6 DEF SInv
<1> QED BY <1>5, <1>6

LEMMA StepSInv == SInv /\ [Next]_vars => SInv'
<1> SUFFICES ASSUME SInv, [Next]_vars PROVE SInv'
  OBVIOUS
<1>1. ASSUME NEW s \in Targets, warp_to_slot(s) PROVE SInv'
  BY <1>1, WarpSInv
<1>2. CASE SetTimestamp(1)
  <2>1. ClockKept' /\ clock'.slot = clock.slot
    BY <1>2 DEF SetTimestamp, ClockKept, SInv
  <2> QED BY <1>2, <2>1 DEF SetTimestamp, SInv, HashesAreAWindow
<1>3. ASSUME NEW list \in UserLists, SetSlotHashes(list) PROVE SInv'
  <2>1. Sound(list)
    BY UserListsAssumption DEF Sound
  <2> QED BY <1>3, <2>1 DEF SetSlotHashes, SInv, ClockKept, HashesAreAWindow
<1>4. CASE UNCHANGED vars
  BY <1>4 DEF vars, SInv, ClockKept, HashesAreAWindow
<1> QED BY <1>1, <1>2, <1>3, <1>4 DEF Next

(* A warp past the newest entry lists what it skipped.                     *)
LEMMA StepFills == SInv /\ [Next]_vars => [SlotsFilled]_sysvars
<1> SUFFICES ASSUME SInv, [Next]_vars, clock'.slot > clock.slot, clock'.slot > Newest(slotHashes)
             PROVE  /\ slotHashes'[1].slot = clock'.slot - 1
                    /\ \A t \in Newest(slotHashes)..(clock'.slot - 1) :
                         t >= clock'.slot - MaxEntries =>
                           \E i \in DOMAIN slotHashes' : slotHashes'[i].slot = t
  BY DEF SlotsFilled
<1>1. MaxEntries \in Nat /\ MaxEntries > 0
  BY SizeAssumption
<1>2. clock.slot \in Nat /\ Sound(slotHashes) /\ Newest(slotHashes) \in Nat
  <2>1. Sound(slotHashes)
    BY DEF SInv
  <2> QED BY <2>1, SoundFacts DEF SInv, ClockKept
<1>3. PICK s \in Targets : warp_to_slot(s)
  <2>1. clock'.slot # clock.slot
    BY <1>2
  <2>2. SetTimestamp(1) => clock'.slot = clock.slot
    BY DEF SetTimestamp, SInv, ClockKept
  <2> QED BY <2>1, <2>2 DEF Next, SetSlotHashes, vars
<1>4. s \in Nat /\ clock'.slot = s /\ slotHashes' = Warped(s)
  BY <1>3, TargetsAssumption DEF warp_to_slot, ClockAt
<1>5. s > 0 /\ s > Newest(slotHashes) /\ s > clock.slot
  BY <1>2, <1>4
<1>6. CASE SaturatingSub(s, clock.slot) > MaxEntries
  <2>1. s > MaxEntries
    BY <1>1, <1>2, <1>4, <1>6 DEF SaturatingSub
  <2>2. DOMAIN slotHashes' = 1..MaxEntries /\ \A n \in 1..MaxEntries : slotHashes'[n].slot = s - n
    BY <1>4, <1>6 DEF Warped, Rebuilt, Default
  <2>3. ASSUME NEW t \in Newest(slotHashes)..(s - 1), t >= s - MaxEntries
        PROVE  \E i \in DOMAIN slotHashes' : slotHashes'[i].slot = t
    <3>1. s - t \in 1..MaxEntries /\ s - (s - t) = t
      BY <1>1, <1>2, <1>4, <2>3
    <3> QED BY <2>2, <3>1
  <2> QED BY <1>1, <1>4, <2>2, <2>3
<1>7. CASE ~(SaturatingSub(s, clock.slot) > MaxEntries)
  <2> DEFINE i == Newest(slotHashes)
             N == SaturatingSub(s, i)
             new == Filled(slotHashes, s)
  <2>1. slotHashes' = new
    BY <1>4, <1>7 DEF Warped
  <2>2. N \in Nat /\ Reached(slotHashes, N, new)
    BY <1>2, <1>4, FilledReached
  <2>3. N > 0 /\ s = i + N
    BY <1>2, <1>4, <1>5 DEF SaturatingSub
  <2> HIDE DEF N, new, i
  <2>4. Sound(new) /\ \A k \in 1..N : k <= MaxEntries =>
             k <= Len(new) /\ new[k].slot = i + N - k
    BY <2>2 DEF Reached, i
  <2>5. Len(new) \in Nat /\ DOMAIN new = 1..Len(new)
    BY <2>4, SoundFacts
  <2>6. new[1].slot = s - 1
    <3>1. 1 \in 1..N /\ 1 <= MaxEntries /\ i + N - 1 = s - 1
      BY <1>1, <1>2, <2>2, <2>3 DEF i
    <3> QED BY <2>4, <3>1
  <2>7. ASSUME NEW t \in i..(s - 1), t >= s - MaxEntries
        PROVE  \E k \in DOMAIN new : new[k].slot = t
    <3>1. s - t \in 1..N /\ s - t <= MaxEntries /\ i + N - (s - t) = t
      BY <1>1, <1>2, <1>4, <2>2, <2>3, <2>7 DEF i
    <3>2. s - t <= Len(new) /\ new[s - t].slot = t
      BY <2>4, <3>1
    <3> QED BY <2>5, <3>1, <3>2
  <2> QED BY <1>4, <2>1, <2>6, <2>7 DEF i
<1> QED BY <1>6, <1>7

(* A short warp keeps a test's hashes.                                     *)
LEMMA StepKeepsHashes == SInv /\ [Next]_vars => [HashesKept]_sysvars
<1> SUFFICES ASSUME SInv, [Next]_vars, clock'.slot # clock.slot,
                    clock'.slot <= clock.slot + MaxEntries, NEW i \in DOMAIN slotHashes \ {1}
             PROVE  \/ \E j \in DOMAIN slotHashes' : slotHashes'[j] = slotHashes[i]
                    \/ slotHashes'[Len(slotHashes')].slot > slotHashes[i].slot
  BY DEF HashesKept
<1>1. MaxEntries \in Nat
  BY SizeAssumption
<1>2. Sound(slotHashes) /\ clock.slot \in Nat
  BY DEF SInv, ClockKept
<1>3. PICK s \in Targets : warp_to_slot(s)
  <2>1. SetTimestamp(1) => clock'.slot = clock.slot
    BY DEF SetTimestamp, SInv, ClockKept
  <2> QED BY <2>1 DEF Next, SetSlotHashes, vars
<1>4. s \in Nat /\ clock'.slot = s /\ slotHashes' = Warped(s)
  BY <1>3, TargetsAssumption DEF warp_to_slot, ClockAt
<1>5. ~(SaturatingSub(s, clock.slot) > MaxEntries)
  BY <1>1, <1>2, <1>4 DEF SaturatingSub
<1> DEFINE new == Filled(slotHashes, s)
<1>6. slotHashes' = new
  BY <1>4, <1>5 DEF Warped
<1>7. Reached(slotHashes, SaturatingSub(s, Newest(slotHashes)), new)
  BY <1>2, <1>4, FilledReached
<1> HIDE DEF new
<1>8. Sound(new) /\ TailKept(slotHashes, new)
  BY <1>7 DEF Reached
<1>9. DOMAIN new = 1..Len(new) /\ i \in 2..Len(slotHashes)
  <2>1. DOMAIN new = 1..Len(new)
    BY <1>8, SoundFacts
  <2>2. Len(slotHashes) \in Nat /\ DOMAIN slotHashes = 1..Len(slotHashes)
    BY <1>2, SoundFacts
  <2> QED BY <2>1, <2>2
<1> QED BY <1>6, <1>8, <1>9 DEF TailKept

-----------------------------------------------------------------------------
(* The results.                                                            *)

(* The list is sound and, unless a test has assigned it, a window.         *)
THEOREM SysvarsInvariance == Spec => []SInv
<1>1. Init => SInv
  BY InitSInv
<1>2. SInv /\ [Next]_vars => SInv'
  BY StepSInv
<1> QED BY <1>1, <1>2, PTL DEF Spec

(* However warp_to_slot leads to a slot, by one jump or by many, SlotHashes *)
(* is the window below the highest slot that it stands for.                *)
THEOREM PathIndependence == Spec => []HashesAreAWindow
<1>1. SInv => HashesAreAWindow
  BY DEF SInv
<1> QED BY <1>1, SysvarsInvariance, PTL

(* SlotHashes keeps the order that its binary search needs, and its length. *)
THEOREM SearchableHashes == Spec => []HashesSorted
<1>1. SInv => HashesSorted
  BY DEF SInv, Sound, HashesSorted, Default
<1> QED BY <1>1, SysvarsInvariance, PTL

(* warp_to_slot leaves no gap between the entry it starts from and the     *)
(* slot it ends at.                                                        *)
THEOREM NoGap == Spec => ForwardWarpFills
<1>1. SInv /\ [Next]_vars => [SlotsFilled]_sysvars
  BY StepFills
<1> QED BY <1>1, SysvarsInvariance, PTL DEF Spec, ForwardWarpFills

(* warp_to_slot within the length of the list keeps a test's own hashes    *)
(* behind the newest, until the list has no room for them.                 *)
THEOREM HashesPersist == Spec => ShortWarpKeepsHashes
<1>1. SInv /\ [Next]_vars => [HashesKept]_sysvars
  BY StepKeepsHashes
<1> QED BY <1>1, SysvarsInvariance, PTL DEF Spec, ShortWarpKeepsHashes
=============================================================================
