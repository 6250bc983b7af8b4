-------------------------- MODULE MCExternalHandoff --------------------------
(* The small instance of ExternalHandoff: one transfer of one scope.          *)
EXTENDS ExternalHandoff
=============================================================================
