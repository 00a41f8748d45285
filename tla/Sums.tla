-------------------------------- MODULE Sums --------------------------------
(***************************************************************************)
(* The sum of a sequence of numbers, from its first element to its last.   *)
(***************************************************************************)
EXTENDS Integers, Sequences

(* The sums of the prefixes of a sequence, by their lengths.               *)
PrefixSums(seq) ==
  LET upTo[i \in 0..Len(seq)] == IF i = 0 THEN 0 ELSE upTo[i - 1] + seq[i]
  IN  upTo

SumOf(seq) == PrefixSums(seq)[Len(seq)]
=============================================================================
