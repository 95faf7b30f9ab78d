------------------------------ MODULE MCCalls ------------------------------
(* TLC instance of Calls: one account with two devices and one with one.   *)
(*                                                                         *)
EXTENDS Calls, TLC

CONSTANTS a1, b1, b2, A, B

MCDevice == {a1, b1, b2}
MCUser == {A, B}
MCOwner == a1 :> A @@ b1 :> B @@ b2 :> B
MCSymmetry == {p @@ q @@ r : p \in Permutations(CallId),
                             q \in Permutations({b1, b2}),
                             r \in Permutations(ClientId)}
=============================================================================
