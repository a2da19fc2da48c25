---------------------------- MODULE MCSubscription ----------------------------
(* Small instances of Subscription. *)
EXTENDS Subscription, TLC

\* Addresses and tokens are only compared for equality.
Symmetric == Permutations(Addresses) \cup Permutations(Tokens)
=============================================================================
