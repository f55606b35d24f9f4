--------------------------- MODULE MCXErrorHandler ---------------------------
(* Three sibling bundles over a handler of the host's, up to two editors each. *)
EXTENDS XErrorHandler

CONSTANTS b1, b2, b3
MCBundle == {b1, b2, b3}
=============================================================================
