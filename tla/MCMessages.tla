----------------------------- MODULE MCMessages -----------------------------
(* Messages on three devices, each with an account of its own at first.     *)
EXTENDS Messages, TLC
CONSTANTS a, b, c, A, B, C, na, nb

MCOwner == (a :> A) @@ (b :> B) @@ (c :> C)
MCNamed == (na :> A) @@ (nb :> B)

(* The two accounts that have a name can change places. *)
MCSwap == {(a :> b) @@ (b :> a) @@ (A :> B) @@ (B :> A) @@ (na :> nb) @@ (nb :> na)}
=============================================================================
