------------------------------ MODULE Sysvars ------------------------------
(***************************************************************************)
(* Mollusk's sysvars (harness/src/sysvar.rs) as warp_to_slot keeps them:   *)
(* the clock and the SlotHashes list, which a test may also overwrite.     *)
(* The other sysvars change only by a test's assignment to their field.    *)
(*                                                                         *)
(* External: SlotHashes (a list in descending order of slots, at most      *)
(* MAX_ENTRIES long) and EpochSchedule without warmup.                     *)
(***************************************************************************)
EXTENDS Integers, Sequences, FiniteSets

CONSTANTS
  MaxEntries,     \* SLOT_HASHES_MAX_ENTRIES
  SlotsPerEpoch,  \* of the epoch schedule
  DefaultHash,    \* Hash::default()
  UserHash,       \* a hash of the test's own
  UserLists,      \* SlotHashes that a test assigns
  Targets         \* bound: slots that a test warps to

Sequence == INSTANCE SequencesExt

Entry == [slot : Nat, hash : {DefaultHash, UserHash}]

Descending(list) == \A i, j \in DOMAIN list : i < j => list[i].slot >= list[j].slot

ASSUME SizeAssumption == {MaxEntries, SlotsPerEpoch} \subseteq Nat \ {0}
ASSUME TargetsAssumption == Targets \subseteq Nat
ASSUME UserListsAssumption ==
  \A list \in UserLists :
    /\ list \in Seq(Entry) /\ Descending(list) /\ Len(list) <= MaxEntries
    /\ \A i, j \in DOMAIN list : list[i].slot = list[j].slot => i = j

VARIABLES
  clock,       \* Sysvars::clock
  slotHashes,  \* Sysvars::slot_hashes
  assigned     \* history: a test has assigned slotHashes

sysvars == <<clock, slotHashes>>
vars == <<clock, slotHashes, assigned>>

-----------------------------------------------------------------------------
Default(s) == [slot |-> s, hash |-> DefaultHash]

\* Mutant: a slot that is in the list is added again.
AddTwice(list, s) ==
  SubSeq(<<Default(s)>> \o list, 1,
         IF Len(list) + 1 > MaxEntries THEN MaxEntries ELSE Len(list) + 1)

(* External: SlotHashes::add replaces the entry of the slot or inserts one *)
(* in its place, and truncates.                                            *)
Add(list, s) ==
  IF \E i \in DOMAIN list : list[i].slot = s
  THEN LET at == CHOOSE i \in DOMAIN list : list[i].slot = s
       IN  [list EXCEPT ![at] = Default(s)]
  ELSE LET place == Cardinality({i \in DOMAIN list : list[i].slot > s}) + 1
           longer == Sequence!InsertAt(list, place, Default(s))
       IN  SubSeq(longer, 1, IF Len(longer) > MaxEntries THEN MaxEntries ELSE Len(longer))

(* External: EpochSchedule::get_epoch and get_leader_schedule_epoch.       *)
EpochOf(s) == s \div SlotsPerEpoch
LeaderScheduleEpochOf(s) == (s + SlotsPerEpoch) \div SlotsPerEpoch

ClockAt(s) ==
  [slot |-> s, epoch |-> EpochOf(s),
   leader_schedule_epoch |-> LeaderScheduleEpochOf(s), unix_timestamp |-> 0]

Newest(list) == IF list = <<>> THEN 0 ELSE list[1].slot

\* Mutant: the slots the harness was in are left out, only the last is added.
FilledLast(list, s) == IF s = 0 THEN list ELSE Add(list, s - 1)

SaturatingSub(m, n) == IF m > n THEN m - n ELSE 0

(* The loop over i..slot: from the newest entry up to the target, which is *)
(* left out; nothing for a target at or below the newest entry.            *)
Fillings(list, s) ==
  LET i == Newest(list)
      after[n \in 0..SaturatingSub(s, i)] ==
        IF n = 0 THEN list ELSE Add(after[n - 1], i + n - 1)
  IN  after

Filled(list, s) == Fillings(list, s)[SaturatingSub(s, Newest(list))]

\* Mutant: off by one at the oldest slot of a rebuilt list.
RebuiltShort(s) == [n \in 1..(MaxEntries - 1) |-> Default(s - n)]

(* (final_hash_slot..slot).rev()                                           *)
Rebuilt(s) == [n \in 1..MaxEntries |-> Default(s - n)]

\* Mutant: every warp rebuilds the list.
WarpedByRebuild(s) == IF s >= MaxEntries THEN Rebuilt(s) ELSE Filled(slotHashes, s)

Warped(s) ==
  IF SaturatingSub(s, clock.slot) > MaxEntries THEN Rebuilt(s)
  ELSE Filled(slotHashes, s)

Init ==
  /\ clock = [slot |-> 0, epoch |-> 0, leader_schedule_epoch |-> 0,
              unix_timestamp |-> 0]
  /\ slotHashes = [n \in 1..MaxEntries |-> Default(0)]
  /\ assigned = FALSE

warp_to_slot(s) ==
  /\ clock' = ClockAt(s)
  /\ slotHashes' = Warped(s)
  /\ UNCHANGED assigned

(* A test assigns to the public fields.                                    *)
SetTimestamp(t) ==
  /\ clock' = [clock EXCEPT !.unix_timestamp = t]
  /\ UNCHANGED <<slotHashes, assigned>>

SetSlotHashes(list) ==
  /\ slotHashes' = list /\ assigned' = TRUE
  /\ UNCHANGED clock

Next ==
  \/ \E s \in Targets : warp_to_slot(s)
  \/ SetTimestamp(1)
  \/ \E list \in UserLists : SetSlotHashes(list)

Spec == Init /\ [][Next]_vars

-----------------------------------------------------------------------------
(* What one warp from genesis to slot s would give: s - 1 and the slots    *)
(* before it, as far as there are any, padded with zeros.                  *)
Window(s) == [n \in 1..MaxEntries |-> Default(SaturatingSub(s, n))]

(* However a test gets to a slot without a list of its own, by one jump or by many, short or longer  *)
(* than the list, forward or back and forward again, SlotHashes is the     *)
(* window below the highest slot the list stands for, and that is at least *)
(* the current slot.                                                       *)
HashesAreAWindow ==
  ~assigned =>
    /\ slotHashes = Window(Newest(slotHashes) + 1)
    /\ clock.slot > 0 => Newest(slotHashes) + 1 >= clock.slot

(* After a warp forward past the newest entry every slot since that entry  *)
(* is listed, as far as the list reaches, up to but without the current    *)
(* slot, whatever list the test had assigned.                              *)
SlotsFilled ==
  clock'.slot > clock.slot /\ clock'.slot > Newest(slotHashes) =>
    /\ slotHashes'[1].slot = clock'.slot - 1
    /\ \A s \in Newest(slotHashes)..(clock'.slot - 1) :
         s >= clock'.slot - MaxEntries =>
           \E i \in DOMAIN slotHashes' : slotHashes'[i].slot = s

ForwardWarpFills == [][SlotsFilled]_sysvars

(* The list never leaves the descending order its binary search needs nor  *)
(* outgrows its length, and no slot but the zero of the default list is in *)
(* it twice.                                                               *)
HashesSorted ==
  /\ Descending(slotHashes) /\ Len(slotHashes) <= MaxEntries
  /\ \A i, j \in DOMAIN slotHashes :
       slotHashes[i].slot = slotHashes[j].slot => i = j \/ slotHashes[i].slot = 0

(* A warp within the length of the list keeps the hashes a test has put in *)
(* it, except that of the newest entry, while there is room for them.      *)
HashesKept ==
  clock'.slot # clock.slot /\ clock'.slot <= clock.slot + MaxEntries =>
    \A i \in DOMAIN slotHashes \ {1} :
      \/ \E j \in DOMAIN slotHashes' : slotHashes'[j] = slotHashes[i]
      \/ slotHashes'[Len(slotHashes')].slot > slotHashes[i].slot

ShortWarpKeepsHashes == [][HashesKept]_sysvars
=============================================================================
