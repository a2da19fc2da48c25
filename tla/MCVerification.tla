---------------------------- MODULE MCVerification ----------------------------
(* Small instances of Verification: all senders are of one host, so that     *)
(* their messages share its pin.                                             *)
EXTENDS Verification, TLC

CONSTANT host

OneHost == {host}
AllOfOneHost == [s \in Senders |-> host]

\* Senders, keys and slots are only compared for equality.
Symmetric == Permutations(Senders) \cup Permutations(Keys) \cup Permutations(Slots)
=============================================================================
