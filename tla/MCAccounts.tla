----------------------------- MODULE MCAccounts -----------------------------
(* TLC instance of Accounts: two names one letter apart and one far away.  *)
EXTENDS Accounts, TLC

MCNickname == {<<1, 2>>, <<1, 2, 3>>, <<3, 1, 1>>}
MCSymmetry == {p @@ q : p \in Permutations(Device), q \in Permutations(User)}
=============================================================================
