----------------------------- MODULE MCGmapMailbox -----------------------------
(* Small instances of GmapMailbox. *)
EXTENDS GmapMailbox, TLC

\* Message IDs are only compared for equality.
Symmetric == Permutations(Msgs)
=============================================================================
