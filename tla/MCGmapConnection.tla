--------------------------- MODULE MCGmapConnection ---------------------------
(* Small instances of GmapConnection: up to three bytes behind the request,  *)
(* which can come with it, together or one by one.                           *)
EXTENDS GmapConnection
=============================================================================
