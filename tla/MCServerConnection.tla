-------------------------- MODULE MCServerConnection --------------------------
(* Small instances of ServerConnection: headers announce up to 2 body bytes, *)
(* which can come together or apart, and one or two bytes may follow.        *)
EXTENDS ServerConnection
=============================================================================
