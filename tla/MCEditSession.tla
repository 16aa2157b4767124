---------------------------- MODULE MCEditSession ----------------------------
(***************************************************************************)
(* An instance of EditSession: the values before, and another one.          *)
(***************************************************************************)
EXTENDS EditSession

CONSTANTS v0, v1
=============================================================================
