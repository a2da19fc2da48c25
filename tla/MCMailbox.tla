------------------------------ MODULE MCMailbox -------------------------------
(* A small instance of Mailbox. *)
EXTENDS Mailbox, TLC

\* Messages, commands on messages, on the block list and on the list's
\* identity, crashes and stopped commands.
Work(m, c, b, i, k) ==
    [messages |-> m, mail |-> c, block |-> b, identity |-> i, crashes |-> k]

MCWorkloads == {Work(2, 3, 0, 0, 0), Work(2, 1, 0, 1, 1), Work(1, 0, 2, 2, 1)}

\* Two commands on the block list, and no crash.
BlockWork == {Work(0, 0, 2, 0, 0)}

\* Senders and shells are only compared for equality.
Symmetric == Permutations(Shells) \cup Permutations(Addresses)
===============================================================================
