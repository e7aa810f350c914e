--------------------------- MODULE MCClientAccess ---------------------------
(***************************************************************************)
(* Small instances of ClientAccess: one document, and two admins who can   *)
(* be editing a client at the same time.                           *)
(***************************************************************************)
EXTENDS ClientAccess

CONSTANTS w1, w2

AllEditors == {w1, w2}
=============================================================================
