------------------------------ MODULE MCOutbox ------------------------------
(* ApnsOutbox for TLC: neither the worker tasks nor the push tokens differ *)
(* from one another.                                                       *)
EXTENDS ApnsOutbox, TLC

MCSymmetry == Permutations(Worker) \cup Permutations(Token)
=============================================================================
