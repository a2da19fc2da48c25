----------------------------- MODULE MCClientSend -----------------------------
(* Small instances of ClientSend: two hosts that can redirect to each other. *)
EXTENDS ClientSend
=============================================================================
