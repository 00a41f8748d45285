-------------------------- MODULE AtomicProcessing --------------------------
(***************************************************************************)
(* What a caller of the harness may rely on, whatever the messages hold    *)
(* (doc comments of process_instruction_chain and of                       *)
(* process_transaction_instructions): the call works through a plan of     *)
(* units.  A unit takes effect on the caller's account list as a whole or  *)
(* not at all, it only changes what its instructions may write, the list   *)
(* keeps its keys and their order, and the first unit that fails is the    *)
(* last one.  A transaction is one unit, a chain one unit per instruction. *)
(***************************************************************************)
EXTENDS Integers, Sequences

CONSTANT Key

VARIABLES
  status,  \* "idle", "open", "ok", "failed" or "panicked"
  plan,    \* the keys each unit may write
  done,    \* units that took effect
  ledger   \* the account list: sequence of [key, account]

avars == <<status, plan, done, ledger>>

(* The entry a lookup of the key finds: the first one.                     *)
First(list, i) ==
  \A j \in DOMAIN list : list[j].key = list[i].key => i <= j

(* Only the first entry of a key takes part in a unit; entries it shadows  *)
(* stay as they are or follow it.                                          *)
WritesOnly(keys) ==
  /\ DOMAIN ledger' = DOMAIN ledger
  /\ \A i \in DOMAIN ledger :
       /\ ledger'[i].key = ledger[i].key
       /\ First(ledger, i) =>
            \/ ledger'[i] = ledger[i]
            \/ ledger[i].key \in keys
       /\ ~First(ledger, i) =>
            \/ ledger'[i] = ledger[i]
            \/ \E j \in DOMAIN ledger :
                 First(ledger, j) /\ ledger'[i] = ledger'[j]

Init == status = "idle" /\ plan = <<>> /\ done = 0 /\ ledger = <<>>

Open ==
  /\ status = "idle"
  /\ plan' \in Seq(SUBSET Key) /\ done' = 0
  /\ status' = IF plan' = <<>> THEN "ok" ELSE "open"

Commit ==
  /\ status = "open"
  /\ done' = done + 1
  /\ status' = IF done' = Len(plan) THEN "ok" ELSE "open"
  /\ WritesOnly(plan[done'])
  /\ UNCHANGED plan

Fail ==
  /\ status = "open"
  /\ status' = "failed"
  /\ UNCHANGED <<plan, done, ledger>>

Panic ==
  /\ status \in {"idle", "open"}
  /\ status' = "panicked"
  /\ UNCHANGED <<plan, done, ledger>>

Close ==
  /\ status \in {"ok", "failed", "panicked"}
  /\ status' = "idle"
  /\ plan' = <<>> /\ done' = 0 /\ ledger' = <<>>

Next == Open \/ Commit \/ Fail \/ Panic \/ Close

Spec == Init /\ [][Next]_avars
=============================================================================
