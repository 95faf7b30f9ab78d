--------------------------- MODULE MCRequestAuth ---------------------------
(* TLC instance of RequestAuth: devices and nonces are interchangeable.    *)
EXTENDS RequestAuth, TLC

MCSymmetry == {p @@ q : p \in Permutations(Device), q \in Permutations(Nonce)}
=============================================================================
