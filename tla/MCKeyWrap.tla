----------------------------- MODULE MCKeyWrap -----------------------------
(***************************************************************************)
(* Instances of KeyWrap for TLC: age keys are named by the decryption      *)
(* order and pgp keys are not, so that age keys are tried first.           *)
(***************************************************************************)
EXTENDS KeyWrap

CONSTANTS age, pgp, d1, d2

MCDecryptionOrder == <<age>>
=============================================================================
