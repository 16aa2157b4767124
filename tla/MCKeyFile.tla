----------------------------- MODULE MCKeyFile -----------------------------
(***************************************************************************)
(* Small instances of KeyFile: two data keys, so that rotate has another   *)
(* one to make, and master keys of one type or of two.                     *)
(***************************************************************************)
EXTENDS KeyFile

CONSTANTS age, pgp, d1, d2

MCDecryptionOrder == <<age>>
MCStoredOrder == IF pgp \in KeyType THEN <<pgp, age>> ELSE <<age>>
=============================================================================
