------------------------------ MODULE Service -------------------------------
(***************************************************************************)
(* What the modules of the services share: the absence of a value, those   *)
(* who ask, and the component a behaviour is one of.                       *)
(***************************************************************************)
CONSTANTS None, Clients

VARIABLE part
=============================================================================
