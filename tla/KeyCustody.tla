---------------------------- MODULE KeyCustody ----------------------------
(***************************************************************************)
(* What the master keys of a file promise, without key groups, shares or   *)
(* key services: they keep one data key, or nothing usable.  KeyWrap, the  *)
(* code's way of keeping it, implements this module.                       *)
(*                                                                         *)
(* Sealing takes several steps and may fail; meanwhile the custody may     *)
(* lose the old key, or hold the new one early.  It is reported as a       *)
(* success only when the new key is held.  Opening a custody that holds a  *)
(* data key gives that key or an error, never other bytes.                 *)
(***************************************************************************)
CONSTANTS DataKey, NoKey, Garbage

VARIABLES
  sealed,   \* the data key in custody, NoKey when there is none whole
  sealing,  \* the data key a running call is putting into custody
  cached,   \* the data key remembered in memory
  answer    \* the answer to the last request

vars == <<sealed, sealing, cached, answer>>

None == [call |-> "none", ok |-> FALSE, key |-> NoKey]

Answer(call, ok, key) == answer' = [call |-> call, ok |-> ok, key |-> key]

Init == sealed = NoKey /\ sealing = NoKey /\ cached = NoKey /\ answer = None

\* The owner adds or removes keys and key groups, or reads the file again.
Rearrange ==
  /\ sealing = NoKey
  /\ sealed' \in DataKey \cup {NoKey}
  /\ cached' \in {cached, NoKey}
  /\ answer' = None
  /\ UNCHANGED sealing

Reject(key) ==
  /\ sealing = NoKey
  /\ Answer("update", FALSE, key)
  /\ UNCHANGED <<sealed, sealing, cached>>

BeginSeal(key) ==
  /\ sealing = NoKey
  /\ sealing' = key
  /\ answer' = None
  /\ sealed' \in {sealed, NoKey}
  /\ UNCHANGED cached

SealSome ==
  /\ sealing # NoKey
  /\ sealed' \in {sealed, sealing, NoKey}
  /\ UNCHANGED <<sealing, cached, answer>>

EndSeal ==
  /\ sealing # NoKey
  /\ sealed = sealing
  /\ Answer("update", TRUE, sealing)
  /\ cached' = sealing
  /\ sealing' = NoKey
  /\ UNCHANGED sealed

FailSeal ==
  /\ sealing # NoKey
  /\ Answer("update", FALSE, sealing)
  /\ cached' \in {cached, sealing}
  /\ sealing' = NoKey
  /\ UNCHANGED sealed

Request ==
  /\ sealing = NoKey
  /\ answer' = None
  /\ UNCHANGED <<sealed, sealing, cached>>

OpenFromMemory ==
  /\ sealing = NoKey
  /\ cached # NoKey
  /\ Answer("get", TRUE, cached)
  /\ UNCHANGED <<sealed, sealing, cached>>

Open ==
  /\ sealing = NoKey
  /\ cached' \in IF sealed = NoKey THEN DataKey \cup {Garbage} ELSE {sealed}
  /\ Answer("get", TRUE, cached')
  /\ UNCHANGED <<sealed, sealing>>

FailOpen ==
  /\ sealing = NoKey
  /\ Answer("get", FALSE, NoKey)
  /\ UNCHANGED <<sealed, sealing, cached>>

Next ==
  \/ Rearrange
  \/ \E key \in DataKey : Reject(key) \/ BeginSeal(key)
  \/ SealSome \/ EndSeal \/ FailSeal
  \/ Request \/ OpenFromMemory \/ Open \/ FailOpen

Spec == Init /\ [][Next]_vars
=============================================================================
