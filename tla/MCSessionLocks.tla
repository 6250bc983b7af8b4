--------------------------- MODULE MCSessionLocks ---------------------------
(* Callers of one session's locks, as model values.                        *)
EXTENDS SessionLocks
=============================================================================
