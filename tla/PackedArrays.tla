---------------------------- MODULE PackedArrays ----------------------------
(***************************************************************************)
(* What the generated libraries (gen/rust) share: the low bits of a value, *)
(* as the masks of the packed words keep them, and a scan over a fixed     *)
(* array that answers the first index with a property, or a value that is  *)
(* no index.                                                               *)
(***************************************************************************)
EXTENDS Integers, FiniteSets

Low7(n) == n % 128
Low8(n) == n % 256
Low14(n) == n % 16384
Low16(n) == n % 65536

FirstIndex(S, none) == IF S = {} THEN none ELSE CHOOSE i \in S : \A j \in S : i <= j
=============================================================================
