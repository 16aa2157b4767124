---------------------------- MODULE KeyServerProofs ----------------------------
(***************************************************************************)
(* Theorems about KeyServer, for any number of clients, whatever their     *)
(* keys and the environment of the server are.                             *)
(***************************************************************************)
EXTENDS KeyServer, SequenceTheorems, FiniteSetTheorems, TLAPS

\* The variables that belong to clients have a value for each of them.
OfClients ==
  /\ at = [p \in Clients |-> at[p]] /\ call = [p \in Clients |-> call[p]]
  /\ enc = [p \in Clients |-> enc[p]] /\ got = [p \in Clients |-> got[p]]
  /\ cipher = [p \in Clients |-> cipher[p]]

Own(p, c) == c = Nothing \/ c.holds = p

\* A ciphertext in the key object or in the hands of a client holds the data key of that client; a
\* result is such a ciphertext, or the data key itself.
OwnOf(p) ==
  /\ at[p] # "idle" => call[p] \in {"encrypt", "decrypt"}
  /\ Own(p, enc[p]) /\ Own(p, cipher[p]) /\ (got[p] = p \/ Own(p, got[p]))
  /\ call[p] = "decrypt" => cipher[p].holds = p
  /\ call[p] = "decrypt" /\ at[p] # "idle" => enc[p].holds = p
  /\ call[p] = "encrypt" /\ at[p] # "idle" => Own(p, got[p])
  /\ call[p] # "encrypt" /\ at[p] # "idle" => got[p] \in {p, Nothing}

ServerInv == OfClients /\ \A p \in Clients : OwnOf(p)

\* A step of one client does not touch what belongs to another.
Apart(p) ==
  \A q \in Clients \ {p} :
    /\ at'[q] = at[q] /\ call'[q] = call[q] /\ enc'[q] = enc[q]
    /\ got'[q] = got[q] /\ cipher'[q] = cipher[q]

\* A request that is under way, of a client that waits for it.
Busy(p) == OfClients /\ OwnOf(p) /\ at[p] # "idle" /\ UNCHANGED clientVars

\* What a sealed data key holds.
LEMMA SealedHolds == \A k, version, p : Sealed(k, version, p).holds = p
  BY DEF Sealed

\* A request that goes on keeps what it has.
LEMMA MovingKeeps ==
  ASSUME NEW p \in Clients, NEW next, Busy(p), OnlyMoves(p, next)
  PROVE  OfClients' /\ Apart(p) /\ OwnOf(p)'
  BY DEF Busy, OnlyMoves, To, OfClients, OwnOf, Own, Apart, clientVars

\* A request that fails has no result.
LEMMA FailingKeeps ==
  ASSUME NEW p \in Clients, NEW outside, Busy(p), RequestFails(p, outside)
  PROVE  OfClients' /\ Apart(p) /\ OwnOf(p)'
  BY DEF Busy, RequestFails, To, OfClients, OwnOf, Own, Apart, clientVars

\* A provider that answers seals the client's data key, or opens what holds it.
LEMMA AnsweringKeeps ==
  ASSUME NEW p \in Clients, Busy(p), Answers(p)
  PROVE  OfClients' /\ Apart(p) /\ OwnOf(p)'
<1>1. CASE Outcome(p) = Nothing
  BY <1>1, FailingKeeps DEF Answers
<1>2. CASE Outcome(p) # Nothing /\ Encrypting(p)
  <2>1. Outcome(p).holds = p
    BY <1>2, SealedHolds DEF Outcome
  <2> QED
    BY <1>2, <2>1 DEF Answers, Object, Encrypting, Busy, To, OfClients, OwnOf, Own, Apart, clientVars
<1>3. CASE Outcome(p) # Nothing /\ ~Encrypting(p)
  <2>1. Outcome(p) = enc[p].holds /\ enc[p].holds = p
    BY <1>3 DEF Outcome, Object, Encrypting, Busy, OwnOf
  <2> QED
    BY <1>3, <2>1 DEF Answers, Object, Encrypting, Busy, To, OfClients, OwnOf, Own, Apart, clientVars
<1> QED
  BY <1>1, <1>2, <1>3

\* A step of the server in a request that is under way.
LEMMA RequestIsBusy ==
  ASSUME ServerInv, NEW p \in Clients, NEW place, RequestStep(p, place), place # "idle"
  PROVE  Busy(p)
  BY DEF ServerInv, RequestStep, Busy

\* Each step of a client or of its request, whoever takes it.
LEMMA ClientStep ==
  ASSUME ServerInv, NEW p \in Clients, Request(p) \/ World(p)
  PROVE  OfClients' /\ Apart(p) /\ OwnOf(p)'
<1>1. CASE CreateKey(p)
  BY <1>1 DEF CreateKey, OfClients, OwnOf, Own, Apart, ServerInv, clientVars, requestVars,
     Encrypting, Object
<1>2. CASE Cancel(p)
  BY <1>2 DEF Cancel, OfClients, OwnOf, Own, Apart, ServerInv, clientVars, requestVars,
     Encrypting, Object
<1>3. CASE Reply(p)
  <2>1. OfClients' /\ Apart(p)
    BY <1>3 DEF Reply, ServerInv, OfClients, Apart
  <2>2. CASE Encrypting(p) /\ got[p] # Nothing /\ ~cancelled[p]
    <3>1. got[p].holds = p
      BY <1>3, <2>2 DEF Reply, ServerInv, OwnOf, Own, Encrypting
    <3> QED
      BY <1>3, <2>1, <2>2, <3>1 DEF Reply, ServerInv, OfClients, OwnOf, Own
  <2>3. CASE ~(Encrypting(p) /\ got[p] # Nothing /\ ~cancelled[p])
    BY <1>3, <2>1, <2>3 DEF Reply, ServerInv, OfClients, OwnOf, Own
  <2> QED
    BY <2>2, <2>3
<1>4. CASE ServeEncrypt(p)
  <2>1. /\ call[p] = "encrypt" /\ UNCHANGED clientVars
        /\ enc' = [enc EXCEPT ![p] = Nothing] /\ got' = [got EXCEPT ![p] = Nothing] /\ Route(p)
    BY <1>4 DEF ServeEncrypt, Accepts, RequestStep, Object
  <2>2. PICK place : at' = [at EXCEPT ![p] = place]
    BY <2>1 DEF Route, To
  <2> QED
    BY <2>1, <2>2 DEF ServerInv, OfClients, Apart, OwnOf, Own, clientVars
<1>5. CASE ServeDecrypt(p)
  <2>1. /\ call[p] = "decrypt" /\ UNCHANGED clientVars
        /\ enc' = [enc EXCEPT ![p] = cipher[p]] /\ got' = [got EXCEPT ![p] = Nothing] /\ Route(p)
    BY <1>5 DEF ServeDecrypt, Accepts, RequestStep, Object
  <2>2. PICK place : at' = [at EXCEPT ![p] = place]
    BY <2>1 DEF Route, To
  <2> QED
    BY <2>1, <2>2 DEF ServerInv, OfClients, Apart, OwnOf, Own, clientVars
<1>6. CASE AgeLocal(p)
  BY <1>6, RequestIsBusy, AnsweringKeeps, FailingKeeps DEF AgeLocal
<1>7. CASE encryptWithOpenPGP(p)
  BY <1>7, RequestIsBusy, AnsweringKeeps, MovingKeeps DEF encryptWithOpenPGP
<1>8. CASE decryptWithOpenPGP(p)
  BY <1>8, RequestIsBusy, AnsweringKeeps, MovingKeeps DEF decryptWithOpenPGP
<1>9. CASE passphrasePrompt(p)
  <2>1. Busy(p)
    BY <1>9, RequestIsBusy DEF passphrasePrompt
  <2>2. CASE tries' = [tries EXCEPT ![p] = @ + 1] /\ UNCHANGED <<at, enc, got, sdk, fault>>
    BY <2>1, <2>2 DEF Busy, OfClients, OwnOf, Own, Apart, clientVars
  <2>3. CASE Answers(p) \/ OnlyMoves(p, "gnupg")
    BY <2>1, <2>3, AnsweringKeeps, MovingKeeps
  <2> QED
    BY <1>9, <2>2, <2>3 DEF passphrasePrompt
<1>10. CASE encryptWithGnuPG(p)
  BY <1>10, RequestIsBusy, AnsweringKeeps, FailingKeeps DEF encryptWithGnuPG, gpgExec
<1>11. CASE decryptWithGnuPG(p)
  BY <1>11, RequestIsBusy, AnsweringKeeps, FailingKeeps DEF decryptWithGnuPG, gpgExec
<1>12. CASE vaultClient(p)
  BY <1>12, RequestIsBusy, MovingKeeps, FailingKeeps DEF vaultClient, CredentialsStep
<1>13. CASE newKMSClient(p)
  BY <1>13, RequestIsBusy, MovingKeeps, FailingKeeps DEF newKMSClient, CredentialsStep
<1>14. CASE createKMSConfig(p)
  BY <1>14, RequestIsBusy, MovingKeeps, FailingKeeps DEF createKMSConfig, CredentialsStep
<1>15. CASE createSTSConfig(p)
  BY <1>15, RequestIsBusy, MovingKeeps, FailingKeeps DEF createSTSConfig
<1>16. CASE getTokenCredential(p)
  BY <1>16, RequestIsBusy, MovingKeeps, FailingKeeps DEF getTokenCredential, CredentialsStep
<1>17. CASE CallKMS(p)
  BY <1>17, RequestIsBusy, AnsweringKeeps, FailingKeeps DEF CallKMS, CallStep
<1>18. CASE CallGoogle(p)
  BY <1>18, RequestIsBusy, AnsweringKeeps, FailingKeeps DEF CallGoogle, CallStep
<1>19. CASE CallAzure(p)
  BY <1>19, RequestIsBusy, AnsweringKeeps, FailingKeeps DEF CallAzure, CallStep
<1>20. CASE CallVault(p)
  BY <1>20, RequestIsBusy, AnsweringKeeps, FailingKeeps DEF CallVault, CallStep
<1>21. CASE CallCancelled(p)
  BY <1>21, RequestIsBusy, FailingKeeps DEF CallCancelled
<1>22. CASE encryptUnaware(p)
  BY <1>22, SealedHolds DEF encryptUnaware, SdkStep, SdkFails, OfClients, OwnOf, Own, Apart,
     ServerInv, clientVars, requestVars, Encrypting, Object
<1>23. CASE decryptUnaware(p)
  BY <1>23, SealedHolds DEF decryptUnaware, SdkStep, SdkFails, OfClients, OwnOf, Own, Apart,
     ServerInv, clientVars, requestVars, Encrypting, Object
<1>24. CASE AwaitSdk(p)
  BY <1>24, RequestIsBusy, AnsweringKeeps, MovingKeeps, FailingKeeps DEF AwaitSdk
<1>25. CASE TakeResult(p)
  <2>1. /\ at[p] = "result" /\ UNCHANGED <<enc, clientVars>>
        /\ got' = [got EXCEPT ![p] = IF call[p] = "encrypt" THEN enc[p] ELSE @]
    BY <1>25 DEF TakeResult, RequestStep, Encrypting, Object
  <2>2. PICK place : at' = [at EXCEPT ![p] = place]
    BY <1>25 DEF TakeResult, To
  <2> QED
    BY <2>1, <2>2 DEF ServerInv, OfClients, Apart, OwnOf, Own, clientVars
<1>26. CASE prompt(p)
  <2>1. at[p] = "asking" /\ UNCHANGED <<enc, clientVars>>
    BY <1>26 DEF prompt, Scanln
  <2>2. \/ UNCHANGED <<at, got>>
        \/ /\ at' = [at EXCEPT ![p] = "reply"]
           /\ got' = [got EXCEPT ![p] = @] \/ got' = [got EXCEPT ![p] = Nothing]
    BY <1>26 DEF prompt, Scanln, To
  <2> QED
    BY <2>1, <2>2 DEF ServerInv, OfClients, Apart, OwnOf, Own, clientVars
<1> QED
  BY <1>1, <1>2, <1>3, <1>4, <1>5, <1>6, <1>7, <1>8, <1>9, <1>10, <1>11, <1>12, <1>13, <1>14,
     <1>15, <1>16, <1>17, <1>18, <1>19, <1>20, <1>21, <1>22, <1>23, <1>24, <1>25, <1>26
     DEF Request, World

\* The inductive invariant.
THEOREM ServerInvariant == ServerSpec => []ServerInv
<1>1. ServerInit => ServerInv
  <2> SUFFICES ASSUME ServerInit PROVE ServerInv
    OBVIOUS
  <2>1. /\ call = [p \in Clients |-> "create"] /\ at = [p \in Clients |-> "idle"]
        /\ enc = [p \in Clients |-> Nothing] /\ got = [p \in Clients |-> Nothing]
        /\ cipher = [p \in Clients |-> Nothing]
    BY DEF ServerInit
  <2>2. OfClients
    BY <2>1 DEF OfClients
  <2>3. ASSUME NEW p \in Clients PROVE OwnOf(p)
    <3>1. at[p] = "idle" /\ call[p] = "create" /\ enc[p] = Nothing
        /\ got[p] = Nothing /\ cipher[p] = Nothing
      BY <2>1
    <3> QED
      BY <3>1 DEF OwnOf, Own
  <2> QED
    BY <2>2, <2>3 DEF ServerInv
<1>2. ServerInv /\ [ServerNext]_serverVars => ServerInv'
  <2> SUFFICES ASSUME ServerInv, [ServerNext]_serverVars PROVE ServerInv'
    OBVIOUS
  <2>1. ASSUME NEW p \in Clients, Request(p) \/ World(p) PROVE ServerInv'
    <3>1. OfClients' /\ Apart(p) /\ OwnOf(p)'
      BY <2>1, ClientStep
    <3>2. ASSUME NEW q \in Clients \ {p} PROVE OwnOf(q)'
      BY <3>1, <3>2 DEF Apart, OwnOf, Own, ServerInv
    <3> QED
      BY <3>1, <3>2 DEF ServerInv
  <2>2. CASE RenewKeys \/ UserTypes \/ Terminate \/ UNCHANGED serverVars
    <3>1. UNCHANGED <<at, call, enc, got, cipher>>
      BY <2>2 DEF RenewKeys, UserTypes, Terminate, serverVars, clientVars, requestVars
    <3> QED
      BY <3>1 DEF ServerInv, OfClients, OwnOf, Own
  <2> QED
    BY <2>1, <2>2 DEF ServerNext
<1> QED
  BY <1>1, <1>2, PTL DEF ServerSpec

\* A reply is about the request it answers, for any number of clients that use the same keys at the
\* same time, with calls that were given up and write their results later.
THEOREM RepliesAreAlwaysOwn == ServerSpec => []RepliesAreOwn
<1>1. ServerInv => RepliesAreOwn
  BY DEF ServerInv, OwnOf, Own, RepliesAreOwn, Encrypting
<1> QED
  BY <1>1, ServerInvariant, PTL

-----------------------------------------------------------------------------
(***************************************************************************)
(* Types                                                                   *)
(***************************************************************************)
Places == {"idle", "local", "openpgp", "passphrase", "gnupg", "credentials", "assume",
           "call", "waiting", "result", "asking", "reply"}
Bytes == {"y", "n", "newline"}

\* The variables in the sets they belong to; what Kept says is a consequence of ServerInv.
Tables ==
  /\ at \in [Clients -> Places] /\ call \in [Clients -> {"create", "encrypt", "decrypt", "end"}]
  /\ tries \in [Clients -> 0..3]
  /\ sdk \in [Clients -> {"none", "encrypt", "decrypt", "ok", "error"}]
  /\ cancelled \in [Clients -> BOOLEAN] /\ fault \in [Clients -> BOOLEAN]
  /\ token \in [Clients -> {"", "y", "n", "other"}]
Counters ==
  /\ current \in 1..MaxVersion /\ serving \in BOOLEAN /\ released \in Nat
  /\ typed \in Seq(Bytes) /\ Len(typed) <= MaxTyped /\ read \in 0..Len(typed)

\* What a step of a request leaves alone.
Counting == UNCHANGED <<host, current, clientVars, promptVars, released, serving>>

\* A request that goes on, fails or is answered keeps its types.
LEMMA MovingKeepsTables ==
  ASSUME Tables, Counting, NEW p \in Clients, NEW next \in Places, OnlyMoves(p, next)
  PROVE  Tables'
  BY DEF Tables, Counting, OnlyMoves, To, clientVars, promptVars

LEMMA FailingKeepsTables ==
  ASSUME Tables, Counting, NEW p \in Clients, NEW outside \in BOOLEAN, RequestFails(p, outside)
  PROVE  Tables'
<1>1. "reply" \in Places
  BY DEF Places
<1>2. (fault[p] \/ outside) \in BOOLEAN
  OBVIOUS
<1> QED
  BY <1>1, <1>2 DEF Tables, Counting, RequestFails, To, clientVars, promptVars

LEMMA AnsweringKeepsTables ==
  ASSUME Tables, Counting, NEW p \in Clients, Answers(p)
  PROVE  Tables'
<1>1. CASE Outcome(p) = Nothing
  BY <1>1, FailingKeepsTables DEF Answers
<1>2. CASE Outcome(p) # Nothing
  BY <1>2 DEF Answers, Tables, Counting, To, clientVars, promptVars, Places
<1> QED
  BY <1>1, <1>2

\* The steps of the server leave what is counted alone.
LEMMA StepsCount ==
  ASSUME NEW p \in Clients, NEW place, RequestStep(p, place)
  PROVE  Counting
  BY DEF RequestStep, Counting

\* The byte that a Scanln reads was typed.
LEMMA ByteRead == Counters /\ read < Len(typed) => read + 1 \in 1..Len(typed) /\ typed[read + 1] \in Bytes
<1> SUFFICES ASSUME Counters, read < Len(typed)
             PROVE  read + 1 \in 1..Len(typed) /\ typed[read + 1] \in Bytes
  OBVIOUS
<1>1. read \in Nat /\ Len(typed) \in Nat /\ typed \in Seq(Bytes)
  BY DEF Counters
<1>2. read + 1 \in 1..Len(typed)
  BY <1>1
<1> QED
  BY <1>1, <1>2, ElementOfSeq

\* A step of a client that is neither its reply nor an answer of the user counts nothing.
LEMMA OthersCount ==
  ASSUME NEW p \in Clients, Request(p) \/ World(p), ~Reply(p), ~prompt(p)
  PROVE  UNCHANGED <<host, current, promptVars, released, serving>>
<1>1. CASE CreateKey(p) \/ Cancel(p)
  BY <1>1 DEF CreateKey, Cancel
<1>2. CASE ServeEncrypt(p) \/ ServeDecrypt(p)
  BY <1>2, StepsCount DEF ServeEncrypt, ServeDecrypt, Accepts, Counting
<1>3. CASE AgeLocal(p) \/ encryptWithOpenPGP(p) \/ decryptWithOpenPGP(p) \/ passphrasePrompt(p)
             \/ encryptWithGnuPG(p) \/ decryptWithGnuPG(p)
  BY <1>3, StepsCount DEF AgeLocal, encryptWithOpenPGP, decryptWithOpenPGP, passphrasePrompt,
     encryptWithGnuPG, decryptWithGnuPG, Counting
<1>4. CASE vaultClient(p) \/ newKMSClient(p) \/ createKMSConfig(p) \/ createSTSConfig(p)
             \/ getTokenCredential(p)
  BY <1>4, StepsCount DEF vaultClient, newKMSClient, createKMSConfig, createSTSConfig,
     getTokenCredential, CredentialsStep, Counting
<1>5. CASE CallKMS(p) \/ CallGoogle(p) \/ CallAzure(p) \/ CallVault(p) \/ CallCancelled(p)
  BY <1>5, StepsCount DEF CallKMS, CallGoogle, CallAzure, CallVault, CallStep, CallCancelled, Counting
<1>6. CASE encryptUnaware(p) \/ decryptUnaware(p)
  BY <1>6 DEF encryptUnaware, decryptUnaware, SdkStep
<1>7. CASE AwaitSdk(p) \/ TakeResult(p)
  BY <1>7, StepsCount DEF AwaitSdk, TakeResult, Counting
<1> QED
  BY <1>1, <1>2, <1>3, <1>4, <1>5, <1>6, <1>7 DEF Request, World

\* The requests of any client keep the types.
LEMMA RequestKeepsTables ==
  ASSUME Tables, Counters, NEW p \in Clients, Request(p) \/ World(p)
  PROVE  Tables'
<1> USE DEF Places
<1>1. CASE CreateKey(p) \/ Cancel(p)
  BY <1>1 DEF CreateKey, Cancel, Tables, requestVars, promptVars
<1>2. CASE Reply(p)
  BY <1>2 DEF Reply, Tables, promptVars
<1>3. CASE ServeEncrypt(p) \/ ServeDecrypt(p)
  <2>1. /\ Counting /\ Route(p) /\ tries' = [tries EXCEPT ![p] = 0]
        /\ call[p] \in {"encrypt", "decrypt"}
    BY <1>3, StepsCount DEF ServeEncrypt, ServeDecrypt, Accepts
  <2>2. /\ \E next \in Places : at' = [at EXCEPT ![p] = next]
        /\ sdk' = [sdk EXCEPT ![p] = call[p]] \/ sdk' = sdk
        /\ fault' = fault
    BY <2>1 DEF Route, To
  <2>3. at' \in [Clients -> Places]
    BY <2>2 DEF Tables
  <2>4. sdk' \in [Clients -> {"none", "encrypt", "decrypt", "ok", "error"}]
    BY <2>1, <2>2 DEF Tables
  <2>5. tries' \in [Clients -> 0..3]
    <3>1. 0 \in 0..3
      OBVIOUS
    <3>2. tries \in [Clients -> 0..3]
      BY DEF Tables
    <3> QED
      BY <2>1, <3>1, <3>2
  <2> QED
    BY <2>1, <2>2, <2>3, <2>4, <2>5 DEF Tables, Counting, clientVars, promptVars
<1>4. CASE AgeLocal(p)
  BY <1>4, StepsCount, AnsweringKeepsTables, FailingKeepsTables DEF AgeLocal
<1>5. CASE encryptWithOpenPGP(p) \/ decryptWithOpenPGP(p)
  BY <1>5, StepsCount, AnsweringKeepsTables, MovingKeepsTables
     DEF encryptWithOpenPGP, decryptWithOpenPGP
<1>6. CASE passphrasePrompt(p)
  <2>1. Counting
    BY <1>6, StepsCount DEF passphrasePrompt
  <2>2. CASE /\ tries[p] < 3 /\ tries' = [tries EXCEPT ![p] = @ + 1]
             /\ UNCHANGED <<at, enc, got, sdk, fault>>
    <3>1. tries \in [Clients -> 0..3] /\ tries[p] \in 0..3
      BY DEF Tables
    <3>2. tries[p] + 1 \in 0..3
      BY <2>2, <3>1
    <3>3. tries' \in [Clients -> 0..3]
      BY <2>2, <3>1, <3>2
    <3> QED
      BY <2>1, <2>2, <3>3 DEF Tables, Counting, clientVars, promptVars
  <2>3. CASE Answers(p) \/ OnlyMoves(p, "gnupg")
    BY <2>1, <2>3, AnsweringKeepsTables, MovingKeepsTables
  <2> QED
    BY <1>6, <2>2, <2>3 DEF passphrasePrompt
<1>7. CASE encryptWithGnuPG(p) \/ decryptWithGnuPG(p)
  <2>1. Counting /\ (Answers(p) \/ RequestFails(p, TRUE) \/ RequestFails(p, FALSE))
    BY <1>7, StepsCount DEF encryptWithGnuPG, decryptWithGnuPG, gpgExec, RequestFails
  <2> QED
    BY <2>1, AnsweringKeepsTables, FailingKeepsTables
<1>8. CASE vaultClient(p) \/ newKMSClient(p)
  BY <1>8, StepsCount, MovingKeepsTables, FailingKeepsTables
     DEF vaultClient, newKMSClient, CredentialsStep
<1>9. CASE createKMSConfig(p) \/ createSTSConfig(p) \/ getTokenCredential(p)
  BY <1>9, StepsCount, MovingKeepsTables, FailingKeepsTables
     DEF createKMSConfig, createSTSConfig, getTokenCredential, CredentialsStep
<1>10. CASE CallKMS(p) \/ CallGoogle(p) \/ CallAzure(p) \/ CallVault(p)
  BY <1>10, StepsCount, AnsweringKeepsTables, FailingKeepsTables
     DEF CallKMS, CallGoogle, CallAzure, CallVault, CallStep
<1>11. CASE CallCancelled(p)
  BY <1>11, StepsCount, FailingKeepsTables DEF CallCancelled
<1>12. CASE encryptUnaware(p) \/ decryptUnaware(p)
  BY <1>12 DEF encryptUnaware, decryptUnaware, SdkStep, SdkFails, Tables, clientVars, promptVars
<1>13. CASE AwaitSdk(p)
  BY <1>13, StepsCount, AnsweringKeepsTables, MovingKeepsTables, FailingKeepsTables DEF AwaitSdk
<1>14. CASE TakeResult(p)
  <2>1. /\ Counting /\ UNCHANGED <<tries, sdk, fault>>
        /\ at' = [at EXCEPT ![p] = IF host.prompt THEN "asking" ELSE "reply"]
    BY <1>14, StepsCount DEF TakeResult, To
  <2> QED
    BY <2>1 DEF Tables, Counting, clientVars, promptVars
<1>15. CASE prompt(p)
  <2>1. /\ UNCHANGED <<clientVars, tries, sdk, fault>>
        /\ \/ UNCHANGED at
           \/ at' = [at EXCEPT ![p] = "reply"]
    BY <1>15 DEF prompt, Scanln, To
  <2>2. \E t \in {"", "y", "n", "other"} : token' = [token EXCEPT ![p] = t]
    <3>1. \/ token' = [token EXCEPT ![p] = IF @ = "" THEN typed[read + 1] ELSE "other"]
            /\ typed[read + 1] # "newline"
          \/ token' = [token EXCEPT ![p] = ""]
      BY <1>15 DEF prompt, Scanln
    <3>2. typed[read + 1] \in Bytes
      BY <1>15, ByteRead DEF prompt, Scanln
    <3>3. CASE token' = [token EXCEPT ![p] = ""]
      BY <3>3
    <3>4. CASE token' = [token EXCEPT ![p] = "other"]
      BY <3>4
    <3>5. CASE token' = [token EXCEPT ![p] = typed[read + 1]] /\ typed[read + 1] # "newline"
      BY <3>2, <3>5 DEF Bytes
    <3> QED
      BY <3>1, <3>3, <3>4, <3>5
  <2> QED
    BY <2>1, <2>2 DEF Tables, clientVars
<1> QED
  BY <1>1, <1>2, <1>3, <1>4, <1>5, <1>6, <1>7, <1>8, <1>9, <1>10, <1>11, <1>12, <1>13, <1>14,
     <1>15 DEF Request, World

\* So do they keep what is counted in its bounds.
LEMMA RequestKeepsCounters ==
  ASSUME Counters, NEW p \in Clients, Request(p) \/ World(p)
  PROVE  Counters'
<1>1. CASE Reply(p)
  BY <1>1 DEF Reply, Counters, promptVars
<1>2. CASE prompt(p)
  <2>1. read' = read + 1 /\ read < Len(typed) /\ UNCHANGED <<current, typed, released, serving>>
    BY <1>2 DEF prompt, Scanln
  <2> QED
    BY <2>1, ByteRead DEF Counters
<1>3. CASE ~Reply(p) /\ ~prompt(p)
  BY <1>3, OthersCount DEF Counters, promptVars
<1> QED
  BY <1>1, <1>2, <1>3

THEOREM ServerTypes == ServerSpec => [](Tables /\ Counters)
<1>1. ServerInit => Tables /\ Counters
  <2> SUFFICES ASSUME ServerInit PROVE Tables /\ Counters
    OBVIOUS
  <2>1. Tables
    <3>1. tries = [p \in Clients |-> 0]
      BY DEF ServerInit
    <3>2. 0 \in 0..3
      OBVIOUS
    <3>3. tries \in [Clients -> 0..3]
      BY <3>1, <3>2
    <3> QED
      BY <3>3 DEF ServerInit, Tables, Places
  <2>2. current = 1 /\ serving = TRUE /\ released = 0 /\ typed = <<>> /\ read = 0
    BY DEF ServerInit
  <2>3. typed \in Seq(Bytes) /\ Len(typed) = 0
    BY <2>2
  <2> QED
    BY <2>1, <2>2, <2>3, ServerAssumption DEF Counters
<1>2. Tables /\ Counters /\ [ServerNext]_serverVars => (Tables /\ Counters)'
  <2> SUFFICES ASSUME Tables, Counters, [ServerNext]_serverVars PROVE Tables' /\ Counters'
    OBVIOUS
  <2>1. ASSUME NEW p \in Clients, Request(p) \/ World(p) PROVE Tables' /\ Counters'
    BY <2>1, RequestKeepsTables, RequestKeepsCounters
  <2>2. CASE RenewKeys
    <3>1. current' \in 1..MaxVersion
      BY <2>2, ServerAssumption DEF RenewKeys, Counters
    <3>2. UNCHANGED <<clientVars, requestVars, promptVars, released, serving>>
      BY <2>2 DEF RenewKeys
    <3> QED
      BY <3>1, <3>2 DEF Tables, Counters, clientVars, requestVars, promptVars
  <2>3. CASE UserTypes
    <3>1. PICK c \in Bytes : typed' = Append(typed, c) /\ Len(typed) < MaxTyped
      BY <2>3 DEF UserTypes, Bytes
    <3>2. typed' \in Seq(Bytes) /\ Len(typed') = Len(typed) + 1
      BY <3>1 DEF Counters
    <3>3. UNCHANGED <<current, clientVars, requestVars, read, token, released, serving>>
      BY <2>3 DEF UserTypes
    <3>4. Tables'
      BY <3>3 DEF Tables, clientVars, requestVars
    <3>5. /\ current' \in 1..MaxVersion /\ serving' \in BOOLEAN /\ released' \in Nat
          /\ read' = read /\ Len(typed) \in Nat /\ read \in 0..Len(typed)
      BY <3>3 DEF Counters
    <3>6. Len(typed') <= MaxTyped
      BY <3>1, <3>2, <3>5, ServerAssumption
    <3>7. read' \in 0..Len(typed')
      BY <3>2, <3>5
    <3> QED
      BY <3>2, <3>4, <3>5, <3>6, <3>7 DEF Counters
  <2>4. CASE Terminate \/ UNCHANGED serverVars
    BY <2>4 DEF Terminate, serverVars, Tables, Counters, clientVars, requestVars, promptVars
  <2> QED
    BY <2>1, <2>2, <2>3, <2>4 DEF ServerNext
<1> QED
  BY <1>1, <1>2, PTL DEF ServerSpec

\* The type invariant: every value that a request leaves behind is of a kind the program knows.
THEOREM ServerTypeCorrect == ServerSpec => []ServerTypeOK
<1>1. ServerInv /\ Tables /\ Counters => ServerTypeOK
  <2> SUFFICES ASSUME ServerInv, Tables, Counters PROVE ServerTypeOK
    OBVIOUS
  <2>1. ASSUME NEW p \in Clients PROVE Kept(enc[p]) /\ Kept(got[p]) /\ Kept(cipher[p])
    BY <2>1 DEF ServerInv, OwnOf, Own, Kept
  <2> QED
    BY <2>1 DEF ServerTypeOK, Tables, Counters, Places
<1> QED
  BY <1>1, ServerInvariant, ServerTypes, PTL

-----------------------------------------------------------------------------
(***************************************************************************)
(* Answers of the user                                                     *)
(***************************************************************************)
\* The bytes y among the first n, and the requests that such a byte lets go, or may let go when the
\* line ends: none of them can be answered by the same byte as another.
Yes(n) == {i \in 1..n : typed[i] = "y"}
LetGo == {p \in Clients : token[p] = "y" \/ (at[p] = "reply" /\ got[p] # Nothing)}

\* Only who asks has read a part of a line, and every y is spent at most once.
AnswersInv ==
  /\ \A p \in Clients : token[p] # "" => at[p] = "asking"
  /\ host.prompt => IsFiniteSet(LetGo) /\ released + Cardinality(LetGo) <= Cardinality(Yes(read))

\* No result reaches the reply but from the question.
Quiet(p) ==
  \/ UNCHANGED <<at, got>>
  \/ /\ at[p] # "asking" /\ (at'[p] # "reply" \/ got'[p] = Nothing)
     /\ \A q \in Clients \ {p} : at'[q] = at[q] /\ got'[q] = got[q]

LEMMA MovingIsQuiet ==
  ASSUME ServerInv, NEW p \in Clients, NEW place, RequestStep(p, place), place # "asking",
         NEW next, next # "reply", OnlyMoves(p, next)
  PROVE  Quiet(p)
  BY DEF ServerInv, OfClients, RequestStep, OnlyMoves, To, Quiet

LEMMA FailingIsQuiet ==
  ASSUME ServerInv, NEW p \in Clients, NEW place, RequestStep(p, place), place # "asking",
         NEW outside, RequestFails(p, outside)
  PROVE  Quiet(p)
  BY DEF ServerInv, OfClients, RequestStep, RequestFails, To, Quiet

LEMMA AnsweringIsQuiet ==
  ASSUME ServerInv, NEW p \in Clients, NEW place, RequestStep(p, place), place # "asking", Answers(p)
  PROVE  Quiet(p)
<1>1. CASE Outcome(p) = Nothing
  BY <1>1, FailingIsQuiet DEF Answers
<1>2. CASE Outcome(p) # Nothing
  <2>1. at' = [at EXCEPT ![p] = "result"] /\ (got' = got \/ got' = [got EXCEPT ![p] = Outcome(p)])
    BY <1>2 DEF Answers, To
  <2> QED
    BY <2>1 DEF ServerInv, OfClients, RequestStep, Quiet
<1> QED
  BY <1>1, <1>2

\* A server that prompts takes every result to the question.
LEMMA OthersAreQuiet ==
  ASSUME ServerInv, host.prompt, NEW p \in Clients, Request(p) \/ World(p), ~Reply(p), ~prompt(p)
  PROVE  Quiet(p)
<1>1. CASE CreateKey(p) \/ Cancel(p)
  BY <1>1 DEF CreateKey, Cancel, requestVars, Quiet
<1>2. CASE ServeEncrypt(p) \/ ServeDecrypt(p)
  <2>1. /\ at[p] = "idle" /\ got' = [got EXCEPT ![p] = Nothing]
        /\ \E next \in Places : at' = [at EXCEPT ![p] = next]
    BY <1>2 DEF ServeEncrypt, ServeDecrypt, Accepts, RequestStep, Route, To, Places
  <2> QED
    BY <2>1 DEF Quiet, ServerInv, OfClients
<1>3. CASE AgeLocal(p)
  BY <1>3, AnsweringIsQuiet, FailingIsQuiet DEF AgeLocal
<1>4. CASE encryptWithOpenPGP(p) \/ decryptWithOpenPGP(p)
  BY <1>4, AnsweringIsQuiet, MovingIsQuiet DEF encryptWithOpenPGP, decryptWithOpenPGP
<1>5. CASE passphrasePrompt(p)
  BY <1>5, AnsweringIsQuiet, MovingIsQuiet DEF passphrasePrompt, Quiet
<1>6. CASE encryptWithGnuPG(p) \/ decryptWithGnuPG(p)
  BY <1>6, AnsweringIsQuiet, FailingIsQuiet DEF encryptWithGnuPG, decryptWithGnuPG, gpgExec
<1>7. CASE vaultClient(p) \/ newKMSClient(p)
  BY <1>7, MovingIsQuiet, FailingIsQuiet DEF vaultClient, newKMSClient, CredentialsStep
<1>8. CASE createKMSConfig(p) \/ createSTSConfig(p) \/ getTokenCredential(p)
  BY <1>8, MovingIsQuiet, FailingIsQuiet
     DEF createKMSConfig, createSTSConfig, getTokenCredential, CredentialsStep
<1>9. CASE CallKMS(p) \/ CallGoogle(p) \/ CallAzure(p) \/ CallVault(p)
  BY <1>9, AnsweringIsQuiet, FailingIsQuiet DEF CallKMS, CallGoogle, CallAzure, CallVault, CallStep
<1>10. CASE CallCancelled(p)
  BY <1>10, FailingIsQuiet DEF CallCancelled
<1>11. CASE encryptUnaware(p) \/ decryptUnaware(p)
  BY <1>11 DEF encryptUnaware, decryptUnaware, SdkStep, Quiet
<1>12. CASE AwaitSdk(p)
  BY <1>12, AnsweringIsQuiet, MovingIsQuiet, FailingIsQuiet DEF AwaitSdk
<1>13. CASE TakeResult(p)
  <2>1. /\ at[p] = "result" /\ at' = [at EXCEPT ![p] = "asking"]
        /\ \E x : got' = [got EXCEPT ![p] = x]
    BY <1>13 DEF TakeResult, RequestStep, To
  <2> QED
    BY <2>1 DEF Quiet, ServerInv, OfClients
<1> QED
  BY <1>1, <1>2, <1>3, <1>4, <1>5, <1>6, <1>7, <1>8, <1>9, <1>10, <1>11, <1>12, <1>13
     DEF Request, World

\* A step is taken from its place.
LEMMA StepsFromPlace ==
  ASSUME NEW p \in Clients, NEW place, RequestStep(p, place)
  PROVE  at[p] = place
  BY DEF RequestStep

\* Who asks does so until a line is read.
LEMMA AskingWaits ==
  ASSUME ServerInv, NEW p \in Clients, Request(p) \/ World(p), ~Reply(p), ~prompt(p), at[p] = "asking"
  PROVE  at'[p] = "asking"
<1>1. ~ServeEncrypt(p) /\ ~ServeDecrypt(p) /\ ~AgeLocal(p) /\ ~encryptWithOpenPGP(p)
      /\ ~decryptWithOpenPGP(p) /\ ~passphrasePrompt(p)
  BY StepsFromPlace DEF ServeEncrypt, ServeDecrypt, Accepts, AgeLocal, encryptWithOpenPGP,
     decryptWithOpenPGP, passphrasePrompt
<1>2. ~encryptWithGnuPG(p) /\ ~decryptWithGnuPG(p) /\ ~vaultClient(p) /\ ~newKMSClient(p)
      /\ ~createKMSConfig(p) /\ ~createSTSConfig(p) /\ ~getTokenCredential(p)
  BY StepsFromPlace DEF encryptWithGnuPG, decryptWithGnuPG, vaultClient,
     newKMSClient, createKMSConfig, createSTSConfig, getTokenCredential, CredentialsStep
<1>3. ~CallKMS(p) /\ ~CallGoogle(p) /\ ~CallAzure(p) /\ ~CallVault(p) /\ ~CallCancelled(p)
      /\ ~AwaitSdk(p) /\ ~TakeResult(p)
  BY StepsFromPlace DEF CallKMS, CallGoogle, CallAzure, CallVault, CallStep, CallCancelled, AwaitSdk,
     TakeResult
<1>4. CreateKey(p) \/ Cancel(p) \/ encryptUnaware(p) \/ decryptUnaware(p)
  BY <1>1, <1>2, <1>3 DEF Request, World
<1> QED
  BY <1>4 DEF CreateKey, Cancel, encryptUnaware, decryptUnaware, SdkStep, requestVars

\* The bytes y are counted: there are finitely many, and one more when one is read.
LEMMA YesCount ==
  ASSUME Counters
  PROVE  /\ \A n \in Nat : IsFiniteSet(Yes(n)) /\ Cardinality(Yes(n)) \in Nat
         /\ typed[read + 1] = "y" => Cardinality(Yes(read + 1)) = Cardinality(Yes(read)) + 1
         /\ typed[read + 1] # "y" => Yes(read + 1) = Yes(read)
<1>1. read \in Nat
  BY DEF Counters
<1>2. ASSUME NEW n \in Nat PROVE IsFiniteSet(Yes(n)) /\ Cardinality(Yes(n)) \in Nat
  <2>1. IsFiniteSet(1..n) /\ Yes(n) \subseteq 1..n
    BY FS_Interval DEF Yes
  <2> QED
    BY <2>1, FS_Subset, FS_CardinalityType
<1>3. ASSUME typed[read + 1] = "y"
      PROVE  Cardinality(Yes(read + 1)) = Cardinality(Yes(read)) + 1
  <2>1. Yes(read + 1) = Yes(read) \cup {read + 1}
    BY <1>1, <1>3 DEF Yes
  <2>2. read + 1 \notin Yes(read)
    BY <1>1 DEF Yes
  <2> QED
    BY <1>1, <1>2, <2>1, <2>2, FS_AddElement
<1>4. ASSUME typed[read + 1] # "y" PROVE Yes(read + 1) = Yes(read)
  BY <1>1, <1>4 DEF Yes
<1> QED
  BY <1>2, <1>3, <1>4

\* A smaller set of requests is let go.
LEMMA FewerLetGo ==
  ASSUME NEW S, IsFiniteSet(S), NEW T, T \subseteq S
  PROVE  IsFiniteSet(T) /\ Cardinality(T) \in Nat /\ Cardinality(S) \in Nat /\ Cardinality(T) <= Cardinality(S)
  BY FS_Subset, FS_CardinalityType

\* A step of the server that reads no answer and sends no reply lets go no more than before.
LEMMA OthersSpendNothing ==
  ASSUME ServerInv, Tables, Counters, AnswersInv, NEW p \in Clients, Request(p) \/ World(p),
         ~Reply(p), ~prompt(p)
  PROVE  AnswersInv'
<1>1. UNCHANGED <<host, token, typed, read, released>>
  BY OthersCount DEF promptVars
<1>2. ASSUME NEW q \in Clients, token[q] # "" PROVE at'[q] = "asking"
  <2>1. at[q] = "asking"
    BY <1>2 DEF AnswersInv
  <2>2. q # p => at'[q] = at[q]
    BY ClientStep DEF Apart
  <2>3. at[p] = "asking" => at'[p] = "asking"
    BY AskingWaits
  <2> QED
    BY <2>1, <2>2, <2>3
<1>3. ASSUME host.prompt
      PROVE  IsFiniteSet(LetGo') /\ released' + Cardinality(LetGo') <= Cardinality(Yes(read)')
  <2>1. Quiet(p)
    BY <1>3, OthersAreQuiet
  <2>2. LetGo' \subseteq LetGo
    BY <1>1, <2>1 DEF LetGo, Quiet
  <2>3. IsFiniteSet(LetGo) /\ released + Cardinality(LetGo) <= Cardinality(Yes(read))
    BY <1>3 DEF AnswersInv
  <2>4. /\ IsFiniteSet(LetGo') /\ Cardinality(LetGo') \in Nat /\ Cardinality(LetGo) \in Nat
        /\ Cardinality(LetGo') <= Cardinality(LetGo)
    BY <2>2, <2>3, FewerLetGo
  <2>5. Yes(read)' = Yes(read)
    BY <1>1 DEF Yes
  <2>6. released \in Nat /\ read \in Nat
    BY DEF Counters
  <2>7. Cardinality(Yes(read)) \in Nat
    BY <2>6, YesCount
  <2> QED
    BY <1>1, <2>3, <2>4, <2>5, <2>6, <2>7
<1> QED
  BY <1>1, <1>2, <1>3 DEF AnswersInv

\* A reply with a result spends what it was let go for.
LEMMA ReplySpendsOne ==
  ASSUME ServerInv, Tables, Counters, AnswersInv, NEW p \in Clients, Reply(p)
  PROVE  AnswersInv'
<1>1. /\ UNCHANGED <<host, token, typed, read, got>> /\ at[p] = "reply"
      /\ at' = [at EXCEPT ![p] = "idle"]
      /\ released' = IF got[p] # Nothing THEN released + 1 ELSE released
  BY DEF Reply, promptVars
<1>2. token[p] = "" /\ ~(token[p] # "")
  BY <1>1 DEF AnswersInv
<1>3. \A q \in Clients : at'[q] = IF q = p THEN "idle" ELSE at[q]
  BY <1>1 DEF ServerInv, OfClients
<1>4. ASSUME NEW q \in Clients, token[q] # "" PROVE at'[q] = "asking"
  BY <1>2, <1>3, <1>4 DEF AnswersInv
<1>5. ASSUME host.prompt
      PROVE  IsFiniteSet(LetGo') /\ released' + Cardinality(LetGo') <= Cardinality(Yes(read)')
  <2>1. IsFiniteSet(LetGo) /\ released + Cardinality(LetGo) <= Cardinality(Yes(read))
    BY <1>5 DEF AnswersInv
  <2>2. LetGo' = LetGo \ {p}
    <3>1. \A q \in Clients : q # p => (q \in LetGo' <=> q \in LetGo)
      BY <1>1, <1>3 DEF LetGo
    <3>2. p \notin LetGo'
      <4>1. token'[p] = "" /\ at'[p] = "idle"
        BY <1>1, <1>2, <1>3
      <4> QED
        BY <4>1 DEF LetGo
    <3>3. LetGo \subseteq Clients /\ LetGo' \subseteq Clients
      BY DEF LetGo
    <3> QED
      BY <3>1, <3>2, <3>3
  <2>3. p \in LetGo <=> got[p] # Nothing
    BY <1>1, <1>2 DEF LetGo
  <2>4. IsFiniteSet(LetGo') /\ Cardinality(LetGo) \in Nat
        /\ Cardinality(LetGo') = IF p \in LetGo THEN Cardinality(LetGo) - 1 ELSE Cardinality(LetGo)
    BY <2>1, <2>2, FS_RemoveElement, FS_CardinalityType
  <2>5. Yes(read)' = Yes(read)
    BY <1>1 DEF Yes
  <2>6. released \in Nat /\ read \in Nat
    BY DEF Counters
  <2>7. Cardinality(Yes(read)) \in Nat
    BY <2>6, YesCount
  <2> QED
    BY <1>1, <2>1, <2>3, <2>4, <2>5, <2>6, <2>7
<1> QED
  BY <1>1, <1>4, <1>5 DEF AnswersInv

\* A byte that the user typed lets one request go, if it is a y.
LEMMA ByteLetsOneGo ==
  ASSUME ServerInv, Tables, Counters, AnswersInv, NEW p \in Clients, prompt(p)
  PROVE  AnswersInv'
<1> DEFINE c == typed[read + 1]
<1>1. /\ at[p] = "asking" /\ UNCHANGED <<host, typed, released>> /\ read' = read + 1
      /\ \/ /\ c # "newline" /\ UNCHANGED <<at, got>>
            /\ token' = [token EXCEPT ![p] = IF @ = "" THEN c ELSE "other"]
         \/ /\ token' = [token EXCEPT ![p] = ""]
            /\ \/ UNCHANGED <<at, got>>
               \/ /\ at' = [at EXCEPT ![p] = "reply"]
                  /\ got' = [got EXCEPT ![p] = IF token[p] = "y" THEN @ ELSE Nothing]
  BY DEF prompt, Scanln, To
<1>2. ASSUME NEW q \in Clients, token'[q] # "" PROVE at'[q] = "asking"
  <2>1. token[q] # "" => at[q] = "asking"
    BY DEF AnswersInv
  <2>2. CASE q = p
    BY <1>1, <1>2, <2>2 DEF Tables
  <2>3. CASE q # p
    <3>1. token'[q] = token[q] /\ at'[q] = at[q]
      BY <1>1, <2>3 DEF Tables
    <3> QED
      BY <1>2, <2>1, <3>1
  <2> QED
    BY <2>2, <2>3
<1>3. LetGo' \subseteq LetGo \/ (c = "y" /\ LetGo' \subseteq LetGo \cup {p})
  <2>1. \A q \in Clients \ {p} : q \in LetGo' => q \in LetGo
    BY <1>1 DEF LetGo, Tables, ServerInv, OfClients
  <2>2. CASE token' = [token EXCEPT ![p] = ""] /\ UNCHANGED <<at, got>>
    BY <1>1, <2>1, <2>2 DEF LetGo, Tables
  <2>3. CASE /\ token' = [token EXCEPT ![p] = ""] /\ at' = [at EXCEPT ![p] = "reply"]
             /\ got' = [got EXCEPT ![p] = IF token[p] = "y" THEN @ ELSE Nothing]
    BY <2>1, <2>3 DEF LetGo, Tables, ServerInv, OfClients
  <2>4. CASE /\ c # "newline" /\ UNCHANGED <<at, got>>
             /\ token' = [token EXCEPT ![p] = IF @ = "" THEN c ELSE "other"]
    <3>1. p \in LetGo' => token'[p] = "y"
      BY <1>1, <2>4 DEF LetGo
    <3>2. token'[p] = "y" => c = "y"
      BY <2>4 DEF Tables
    <3> QED
      BY <2>1, <3>1, <3>2 DEF LetGo
  <2> QED
    BY <1>1, <2>2, <2>3, <2>4
<1>4. ASSUME host.prompt
      PROVE  IsFiniteSet(LetGo') /\ released' + Cardinality(LetGo') <= Cardinality(Yes(read)')
  <2>1. IsFiniteSet(LetGo) /\ released + Cardinality(LetGo) <= Cardinality(Yes(read))
    BY <1>4 DEF AnswersInv
  <2>2. released \in Nat /\ read \in Nat
    BY DEF Counters
  <2>6. released' = released /\ Yes(read)' = Yes(read + 1)
    BY <1>1 DEF Yes
  <2>3. Cardinality(Yes(read)) \in Nat /\ Cardinality(Yes(read + 1)) \in Nat /\ Cardinality(LetGo) \in Nat
    <3>1. read + 1 \in Nat
      BY <2>2
    <3> QED
      BY <2>1, <2>2, <3>1, YesCount, FS_CardinalityType
  <2>4. CASE LetGo' \subseteq LetGo
    <3>1. /\ IsFiniteSet(LetGo') /\ Cardinality(LetGo') \in Nat
          /\ Cardinality(LetGo') <= Cardinality(LetGo)
      BY <2>1, <2>4, FewerLetGo
    <3>2. Cardinality(Yes(read)) <= Cardinality(Yes(read + 1))
      BY <2>3, YesCount
    <3> QED
      BY <2>1, <2>2, <2>3, <2>6, <3>1, <3>2
  <2>5. CASE c = "y" /\ LetGo' \subseteq LetGo \cup {p}
    <3>1. IsFiniteSet(LetGo \cup {p}) /\ Cardinality(LetGo \cup {p}) <= Cardinality(LetGo) + 1
      BY <2>1, <2>3, FS_AddElement
    <3>2. /\ IsFiniteSet(LetGo') /\ Cardinality(LetGo') \in Nat
          /\ Cardinality(LetGo \cup {p}) \in Nat
          /\ Cardinality(LetGo') <= Cardinality(LetGo \cup {p})
      BY <2>5, <3>1, FewerLetGo
    <3>3. Cardinality(Yes(read + 1)) = Cardinality(Yes(read)) + 1
      BY <2>5, YesCount
    <3> QED
      BY <2>1, <2>2, <2>3, <2>6, <3>1, <3>2, <3>3
  <2> QED
    BY <1>3, <2>4, <2>5
<1> QED
  BY <1>1, <1>2, <1>4 DEF AnswersInv

\* The inductive invariant of the prompt.
THEOREM AnswersInvariant == ServerSpec => []AnswersInv
<1>1. ServerInit => AnswersInv
  <2> SUFFICES ASSUME ServerInit PROVE AnswersInv
    OBVIOUS
  <2>1. /\ token = [p \in Clients |-> ""] /\ at = [p \in Clients |-> "idle"]
        /\ released = 0 /\ read = 0
    BY DEF ServerInit
  <2>2. LetGo = {}
    BY <2>1 DEF LetGo
  <2>3. Yes(read) = {}
    <3>1. 1..0 = {}
      OBVIOUS
    <3> QED
      BY <2>1, <3>1 DEF Yes
  <2>4. IsFiniteSet(LetGo) /\ Cardinality(LetGo) = 0 /\ Cardinality(Yes(read)) = 0
    BY <2>2, <2>3, FS_EmptySet
  <2>5. \A p \in Clients : token[p] = ""
    BY <2>1
  <2>6. released + Cardinality(LetGo) <= Cardinality(Yes(read))
    <3>1. released = 0
      BY <2>1
    <3>2. 0 + 0 <= 0
      OBVIOUS
    <3> QED
      BY <2>4, <3>1, <3>2
  <2> QED
    BY <2>4, <2>5, <2>6 DEF AnswersInv
<1>2. ServerInv /\ Tables /\ Counters /\ AnswersInv /\ [ServerNext]_serverVars => AnswersInv'
  <2> SUFFICES ASSUME ServerInv, Tables, Counters, AnswersInv, [ServerNext]_serverVars
               PROVE  AnswersInv'
    OBVIOUS
  <2>1. ASSUME NEW p \in Clients, Request(p) \/ World(p) PROVE AnswersInv'
    BY <2>1, OthersSpendNothing, ReplySpendsOne, ByteLetsOneGo
  <2>2. CASE UserTypes
    <3>1. PICK c \in Bytes : typed' = Append(typed, c)
      BY <2>2 DEF UserTypes, Bytes
    <3>2. UNCHANGED <<host, at, got, token, read, released>>
      BY <2>2 DEF UserTypes, requestVars
    <3>3. typed \in Seq(Bytes) /\ read \in 0..Len(typed)
      BY DEF Counters
    <3>4. \A i \in 1..read : typed'[i] = typed[i]
      BY <3>1, <3>3
    <3>5. Yes(read)' = Yes(read) /\ LetGo' = LetGo
      BY <3>2, <3>4 DEF Yes, LetGo
    <3> QED
      BY <3>2, <3>5 DEF AnswersInv
  <2>3. CASE RenewKeys \/ Terminate \/ UNCHANGED serverVars
    <3>1. UNCHANGED <<host, at, got, token, typed, read, released>>
      BY <2>3 DEF RenewKeys, Terminate, serverVars, requestVars, promptVars
    <3>2. Yes(read)' = Yes(read) /\ LetGo' = LetGo
      BY <3>1 DEF Yes, LetGo
    <3> QED
      BY <3>1, <3>2 DEF AnswersInv
  <2> QED
    BY <2>1, <2>2, <2>3 DEF ServerNext
<1> QED
  BY <1>1, <1>2, ServerInvariant, ServerTypes, PTL DEF ServerSpec

\* A prompting server sends no more results than the user typed y, for any number of clients whose
\* questions read the same terminal.
THEOREM EveryReplyHasItsYes == ServerSpec => []OneYesOneReply
<1>1. Counters /\ AnswersInv => OneYesOneReply
  <2> SUFFICES ASSUME Counters, AnswersInv, host.prompt
               PROVE  released <= Cardinality({i \in DOMAIN typed : typed[i] = "y"})
    BY DEF OneYesOneReply
  <2>1. typed \in Seq(Bytes) /\ read \in 0..Len(typed) /\ released \in Nat
    BY DEF Counters
  <2>2. {i \in DOMAIN typed : typed[i] = "y"} = Yes(Len(typed)) /\ Len(typed) \in Nat
    BY <2>1 DEF Yes
  <2>3. Yes(read) \subseteq Yes(Len(typed))
    BY <2>1 DEF Yes
  <2>4. /\ Cardinality(Yes(read)) <= Cardinality(Yes(Len(typed)))
        /\ Cardinality(Yes(read)) \in Nat /\ Cardinality(Yes(Len(typed))) \in Nat
    BY <2>2, <2>3, YesCount, FewerLetGo
  <2>5. released + Cardinality(LetGo) <= Cardinality(Yes(read)) /\ Cardinality(LetGo) \in Nat
    BY FS_CardinalityType DEF AnswersInv
  <2>6. released <= Cardinality(Yes(Len(typed)))
    BY <2>1, <2>4, <2>5
  <2> QED
    BY <2>2, <2>6
<1> QED
  BY <1>1, AnswersInvariant, ServerTypes, PTL

-----------------------------------------------------------------------------
(***************************************************************************)
(* Reasons to fail                                                         *)
(***************************************************************************)
\* The key of a client is one that Setups allow; its ciphertext, as every provider makes it.
KeyOf(p) ==
  /\ {"type", "id", "with", "version"} \subseteq DOMAIN key[p] /\ key[p].version \in 0..MaxVersion
  /\ \A version \in 0..MaxVersion : Sealed(key[p], version, p) # Nothing
Good(p) == Sealed(key[p], key[p].version, p)

\* When a key is used it names its version, so that what was encrypted with it is what it opens,
\* though it is renewed; what the goroutine of a given up call writes is the same ciphertext.
OpensOf(p) ==
  /\ call[p] = "create" => at[p] = "idle" /\ enc[p] = Nothing /\ sdk[p] = "none"
  /\ call[p] \in {"encrypt", "decrypt"} => ~(key[p].type = "azure" /\ key[p].version = 0)
  /\ enc[p] \in {Nothing, Good(p)}
  /\ call[p] = "decrypt" => cipher[p] = Good(p) /\ (at[p] # "idle" => enc[p] = Good(p))
  /\ call[p] = "encrypt" /\ at[p] # "idle" => got[p] \in {Nothing, Good(p)}
  /\ call[p] = "encrypt" /\ at[p] = "result" => enc[p] = Good(p)
  /\ call[p] # "encrypt" /\ at[p] = "result" => got[p] = p
  /\ sdk[p] # "none" => key[p].type = "hckms"
  /\ sdk[p] = "error" => fault[p]
  /\ call[p] = "encrypt" /\ at[p] = "waiting" => sdk[p] # "decrypt" /\ (sdk[p] = "ok" => enc[p] = Good(p))

\* gpg is the last resort; and what FailsForAReason says of this client.
ReasonsOf(p) ==
  /\ at[p] \in {"openpgp", "passphrase", "gnupg"} => key[p].type = "pgp"
  /\ at[p] = "passphrase" => call[p] # "encrypt" /\ host.secring # "key"
  /\ at[p] = "gnupg" => IF call[p] = "encrypt" THEN ~host.pubring ELSE host.secring # "key"
  /\ at[p] = "asking" => host.prompt
  /\ at[p] = "reply" /\ got[p] = Nothing /\ ~fault[p] /\ ~cancelled[p] /\ ~host.prompt => ~CanServe(p)

SourceOf(p) == KeyOf(p) /\ OpensOf(p) /\ ReasonsOf(p)
SourceInv == DOMAIN key = Clients /\ \A p \in Clients : SourceOf(p)

\* A step of one client does not touch what the others rest on.
Aside(p) ==
  /\ host' = host
  /\ \A q \in Clients \ {p} :
       /\ at'[q] = at[q] /\ call'[q] = call[q] /\ enc'[q] = enc[q] /\ got'[q] = got[q]
       /\ cipher'[q] = cipher[q] /\ key'[q] = key[q] /\ sdk'[q] = sdk[q] /\ fault'[q] = fault[q]
       /\ cancelled'[q] = cancelled[q]

\* The request of a client is under way, of which the step is one.
Under(p) == ServerInv /\ Tables /\ Counters /\ SourceInv /\ at[p] # "idle" /\ Counting

\* What can be served depends on what no request changes.
LEMMA SameServing ==
  ASSUME NEW p \in Clients, host' = host, key'[p] = key[p], call'[p] = call[p]
  PROVE  /\ CanServe(p)' <=> CanServe(p)
         /\ KeyOf(p) => KeyOf(p)'
         /\ Good(p)' = Good(p)
<1>1. CanServe(p)' <=> CanServe(p)
  BY DEF CanServe, Encrypting
<1>2. KeyOf(p) => KeyOf(p)'
  BY DEF KeyOf, Sealed
<1>3. Good(p)' = Good(p)
  BY DEF Good, Sealed
<1> QED
  BY <1>1, <1>2, <1>3

\* Nobody else is concerned, and the key remains what it is.
LEMMA UnderIsAside ==
  ASSUME NEW p \in Clients, Under(p),
         \A q \in Clients \ {p} : at'[q] = at[q] /\ enc'[q] = enc[q] /\ got'[q] = got[q]
                                   /\ sdk'[q] = sdk[q] /\ fault'[q] = fault[q]
  PROVE  Aside(p) /\ KeyOf(p)' /\ Good(p)' = Good(p) /\ (CanServe(p)' <=> CanServe(p))
<1>1. host' = host /\ UNCHANGED <<key, call, cipher, cancelled>>
  BY DEF Under, Counting, clientVars
<1> QED
  BY <1>1, SameServing DEF Aside, Under, SourceInv, SourceOf

\* The ciphertext is something.
LEMMA GoodIsSomething == \A p \in Clients : KeyOf(p) => Good(p) # Nothing
  BY DEF KeyOf, Good

\* A provider that answers gives the ciphertext, or the data key.
LEMMA OutcomeIsGood ==
  ASSUME NEW p \in Clients, ServerInv, SourceInv, at[p] # "idle"
  PROVE  Outcome(p) = (IF Encrypting(p) THEN Good(p) ELSE p) /\ Outcome(p) # Nothing
<1>1. OpensOf(p) /\ OwnOf(p) /\ KeyOf(p) /\ call[p] \in {"encrypt", "decrypt"}
  BY DEF ServerInv, SourceInv, SourceOf, OwnOf
<1>2. Requested(p) = key[p] /\ VersionOf(key[p]) = key[p].version
  BY <1>1 DEF Requested, kmsKeyToMasterKey, KeyFromMasterKey, VersionOf, OpensOf
<1>3. CASE Encrypting(p)
  BY <1>1, <1>2, <1>3, GoodIsSomething DEF Outcome, Good
<1>4. CASE ~Encrypting(p)
  <2>1. enc[p] = Good(p) /\ enc[p].holds = p
    BY <1>1, <1>4, SealedHolds DEF OpensOf, Encrypting, Good
  <2>2. Outcome(p) = p
    BY <1>2, <1>4, <2>1 DEF Outcome, Object, Good
  <2> QED
    BY <1>4, <2>2, ServerAssumption
<1> QED
  BY <1>3, <1>4

\* A request goes on, for a reason.
LEMMA MovingReasons ==
  ASSUME NEW p \in Clients, Under(p), NEW next, OnlyMoves(p, next),
         \/ next \in {"call", "assume"}
         \/ /\ next = "gnupg" /\ key[p].type = "pgp"
            /\ IF Encrypting(p) THEN ~host.pubring ELSE host.secring # "key"
         \/ next = "passphrase" /\ key[p].type = "pgp" /\ ~Encrypting(p) /\ host.secring # "key"
  PROVE  Aside(p) /\ SourceOf(p)'
<1>1. at' = [at EXCEPT ![p] = next] /\ UNCHANGED <<enc, got, tries, sdk, fault>>
  BY DEF OnlyMoves, To
<1>2. Aside(p) /\ KeyOf(p)' /\ Good(p)' = Good(p) /\ host' = host /\ UNCHANGED <<key, call, cipher, cancelled>>
  BY <1>1, UnderIsAside DEF Under, ServerInv, OfClients, Counting, clientVars
<1>3. OpensOf(p) /\ at'[p] = next /\ at[p] # "idle"
  BY <1>1 DEF Under, SourceInv, SourceOf, ServerInv, OfClients
<1>4. OpensOf(p)'
  BY <1>1, <1>2, <1>3 DEF OpensOf
<1>5. ReasonsOf(p)'
  BY <1>1, <1>2, <1>3 DEF ReasonsOf, Encrypting
<1> QED
  BY <1>2, <1>4, <1>5 DEF SourceOf

\* A request fails for a reason.
LEMMA FailingReasons ==
  ASSUME NEW p \in Clients, Under(p), NEW outside \in BOOLEAN, RequestFails(p, outside),
         outside \/ fault[p] \/ cancelled[p] \/ ~CanServe(p)
  PROVE  Aside(p) /\ SourceOf(p)'
<1>1. /\ at' = [at EXCEPT ![p] = "reply"] /\ got' = [got EXCEPT ![p] = Nothing]
      /\ fault' = [fault EXCEPT ![p] = @ \/ outside] /\ UNCHANGED <<enc, tries, sdk>>
  BY DEF RequestFails, To
<1>2. /\ Aside(p) /\ KeyOf(p)' /\ Good(p)' = Good(p) /\ (CanServe(p)' <=> CanServe(p))
      /\ host' = host /\ UNCHANGED <<key, call, cipher, cancelled>>
  BY <1>1, UnderIsAside DEF Under, ServerInv, OfClients, Counting, clientVars, Tables
<1>3. /\ OpensOf(p) /\ at'[p] = "reply" /\ at[p] # "idle" /\ got'[p] = Nothing
      /\ fault'[p] <=> (fault[p] \/ outside)
  BY <1>1 DEF Under, SourceInv, SourceOf, ServerInv, OfClients, Tables
<1>4. OpensOf(p)'
  BY <1>1, <1>2, <1>3 DEF OpensOf
<1>5. ReasonsOf(p)'
  BY <1>2, <1>3 DEF ReasonsOf
<1> QED
  BY <1>2, <1>4, <1>5 DEF SourceOf

\* A request is answered: it never fails for want of the right ciphertext.
LEMMA AnsweringReasons ==
  ASSUME NEW p \in Clients, Under(p), Answers(p)
  PROVE  Aside(p) /\ SourceOf(p)'
<1>1. Outcome(p) = (IF Encrypting(p) THEN Good(p) ELSE p) /\ Outcome(p) # Nothing
  BY OutcomeIsGood DEF Under
<1>2. /\ at' = [at EXCEPT ![p] = "result"] /\ UNCHANGED <<tries, sdk, fault>>
      /\ \/ Encrypting(p) /\ enc' = [enc EXCEPT ![p] = Good(p)] /\ UNCHANGED got
         \/ ~Encrypting(p) /\ got' = [got EXCEPT ![p] = p] /\ UNCHANGED enc
  BY <1>1 DEF Answers, To, Object
<1>3. Aside(p) /\ KeyOf(p)' /\ Good(p)' = Good(p) /\ host' = host /\ UNCHANGED <<key, call, cipher, cancelled>>
  BY <1>2, UnderIsAside DEF Under, ServerInv, OfClients, Counting, clientVars
<1>4. OpensOf(p) /\ at'[p] = "result" /\ at[p] # "idle"
  BY <1>2 DEF Under, SourceInv, SourceOf, ServerInv, OfClients
<1>5. OpensOf(p)'
  <2>1. CASE Encrypting(p)
    <3>1. enc'[p] = Good(p) /\ UNCHANGED <<sdk, fault, got>>
      BY <1>2, <2>1 DEF Under, ServerInv, OfClients
    <3> QED
      BY <1>3, <1>4, <2>1, <3>1 DEF OpensOf, Encrypting
  <2>2. CASE ~Encrypting(p)
    <3>1. got'[p] = p /\ UNCHANGED <<sdk, fault, enc>>
      BY <1>2, <2>2 DEF Under, ServerInv, OfClients
    <3> QED
      BY <1>3, <1>4, <2>2, <3>1 DEF OpensOf, Encrypting
  <2> QED
    BY <2>1, <2>2
<1>6. ReasonsOf(p)'
  BY <1>4 DEF ReasonsOf
<1> QED
  BY <1>3, <1>5, <1>6 DEF SourceOf

\* A step of the server in a request that is under way.
LEMMA RequestIsUnder ==
  ASSUME ServerInv, Tables, Counters, SourceInv, NEW p \in Clients, NEW place, RequestStep(p, place),
         place # "idle"
  PROVE  Under(p) /\ at[p] = place /\ ReasonsOf(p) /\ OpensOf(p)
  BY StepsCount DEF Under, RequestStep, SourceInv, SourceOf

\* The credentials of a cloud service, which may be in the server's hands.
LEMMA CredentialsReasons ==
  ASSUME ServerInv, Tables, Counters, SourceInv, NEW p \in Clients,
         \/ vaultClient(p) \/ newKMSClient(p) \/ createKMSConfig(p) \/ createSTSConfig(p)
         \/ getTokenCredential(p)
  PROVE  Aside(p) /\ SourceOf(p)'
<1>1. CASE vaultClient(p)
  <2>1. Under(p) /\ key[p].type = "vault"
    BY <1>1, RequestIsUnder DEF vaultClient, CredentialsStep
  <2>2. OnlyMoves(p, "call") \/ (RequestFails(p, FALSE) /\ ~CanServe(p))
    BY <1>1, <2>1 DEF vaultClient, CanServe
  <2> QED
    BY <2>1, <2>2, MovingReasons, FailingReasons
<1>2. CASE newKMSClient(p)
  <2>1. Under(p) /\ key[p].type = "gcp"
    BY <1>2, RequestIsUnder DEF newKMSClient, CredentialsStep
  <2>2. OnlyMoves(p, "call") \/ (RequestFails(p, FALSE) /\ ~CanServe(p))
    BY <1>2, <2>1 DEF newKMSClient, CanServe
  <2> QED
    BY <2>1, <2>2, MovingReasons, FailingReasons
<1>3. CASE createKMSConfig(p)
  <2>1. Under(p) /\ key[p].type = "kms"
    BY <1>3, RequestIsUnder DEF createKMSConfig, CredentialsStep
  <2>2. \/ OnlyMoves(p, "call") \/ OnlyMoves(p, "assume") \/ RequestFails(p, TRUE)
        \/ RequestFails(p, FALSE) /\ ~CanServe(p)
    BY <1>3, <2>1 DEF createKMSConfig, CanServe
  <2> QED
    BY <2>1, <2>2, MovingReasons, FailingReasons
<1>4. CASE createSTSConfig(p) \/ getTokenCredential(p)
  <2>1. Under(p) /\ (OnlyMoves(p, "call") \/ RequestFails(p, TRUE))
    BY <1>4, RequestIsUnder DEF createSTSConfig, getTokenCredential, CredentialsStep
  <2> QED
    BY <2>1, MovingReasons, FailingReasons
<1> QED
  BY <1>1, <1>2, <1>3, <1>4

\* PGP comes to gpg only where the keyrings do not help.
LEMMA PgpReasons ==
  ASSUME ServerInv, Tables, Counters, SourceInv, NEW p \in Clients,
         \/ encryptWithOpenPGP(p) \/ decryptWithOpenPGP(p) \/ passphrasePrompt(p)
         \/ encryptWithGnuPG(p) \/ decryptWithGnuPG(p)
  PROVE  Aside(p) /\ SourceOf(p)'
<1>1. CASE encryptWithOpenPGP(p)
  <2>1. Under(p) /\ key[p].type = "pgp"
    BY <1>1, RequestIsUnder DEF encryptWithOpenPGP, ReasonsOf
  <2>2. Answers(p) \/ (OnlyMoves(p, "gnupg") /\ Encrypting(p) /\ ~host.pubring)
    BY <1>1 DEF encryptWithOpenPGP
  <2> QED
    BY <2>1, <2>2, AnsweringReasons, MovingReasons
<1>2. CASE decryptWithOpenPGP(p)
  <2>1. Under(p) /\ key[p].type = "pgp"
    BY <1>2, RequestIsUnder DEF decryptWithOpenPGP, ReasonsOf
  <2>2. \/ Answers(p)
        \/ OnlyMoves(p, "gnupg") /\ ~Encrypting(p) /\ host.secring # "key"
        \/ OnlyMoves(p, "passphrase") /\ ~Encrypting(p) /\ host.secring # "key"
    BY <1>2 DEF decryptWithOpenPGP
  <2> QED
    BY <2>1, <2>2, AnsweringReasons, MovingReasons
<1>3. CASE passphrasePrompt(p)
  <2>1. Under(p) /\ key[p].type = "pgp" /\ ~Encrypting(p) /\ host.secring # "key"
    BY <1>3, RequestIsUnder DEF passphrasePrompt, ReasonsOf, Encrypting
  <2>2. CASE Answers(p) \/ OnlyMoves(p, "gnupg")
    BY <2>1, <2>2, AnsweringReasons, MovingReasons
  <2>3. CASE UNCHANGED <<at, enc, got, sdk, fault>>
    <3>1. /\ Aside(p) /\ KeyOf(p)' /\ Good(p)' = Good(p) /\ (CanServe(p)' <=> CanServe(p))
          /\ UNCHANGED <<host, key, call, cipher, cancelled>>
      BY <2>1, <2>3, UnderIsAside DEF Under, Counting, clientVars
    <3>2. OpensOf(p) /\ ReasonsOf(p)
      BY <2>1 DEF Under, SourceInv, SourceOf
    <3> QED
      BY <2>3, <3>1, <3>2 DEF SourceOf, OpensOf, ReasonsOf
  <2> QED
    BY <1>3, <2>2, <2>3 DEF passphrasePrompt
<1>4. CASE encryptWithGnuPG(p) \/ decryptWithGnuPG(p)
  <2>1. /\ Under(p) /\ key[p].type = "pgp"
        /\ IF Encrypting(p) THEN ~host.pubring ELSE host.secring # "key"
    BY <1>4, RequestIsUnder DEF encryptWithGnuPG, decryptWithGnuPG, ReasonsOf, Encrypting
  <2>2. ~host.gpg => ~CanServe(p)
    BY <2>1 DEF CanServe
  <2>3. Answers(p) \/ RequestFails(p, TRUE) \/ (RequestFails(p, FALSE) /\ ~host.gpg)
    BY <1>4 DEF encryptWithGnuPG, decryptWithGnuPG, gpgExec, RequestFails
  <2> QED
    BY <2>1, <2>2, <2>3, AnsweringReasons, FailingReasons
<1> QED
  BY <1>1, <1>2, <1>3, <1>4

\* HuaweiCloud: what the goroutine writes is the ciphertext, whoever still waits for it.
LEMMA SdkReasons ==
  ASSUME ServerInv, Tables, Counters, SourceInv, NEW p \in Clients,
         encryptUnaware(p) \/ decryptUnaware(p)
  PROVE  Aside(p) /\ SourceOf(p)'
<1>1. /\ UNCHANGED <<host, key, call, cipher, cancelled, at, got>> /\ KeyOf(p) /\ OpensOf(p) /\ ReasonsOf(p)
      /\ sdk[p] # "none"
  BY DEF encryptUnaware, decryptUnaware, SdkStep, clientVars, SourceInv, SourceOf
<1>2. Sealed(Requested(p), VersionOf(Requested(p)), p) = Good(p)
  BY <1>1 DEF Requested, kmsKeyToMasterKey, KeyFromMasterKey, VersionOf, OpensOf, Good
<1>3. \/ /\ sdk[p] = "encrypt" /\ enc' = [enc EXCEPT ![p] = Good(p)]
         /\ sdk' = [sdk EXCEPT ![p] = "ok"] /\ UNCHANGED fault
      \/ sdk[p] = "decrypt" /\ sdk' = [sdk EXCEPT ![p] = "ok"] /\ UNCHANGED <<enc, fault>>
      \/ /\ sdk' = [sdk EXCEPT ![p] = "error"] /\ fault' = [fault EXCEPT ![p] = TRUE]
         /\ UNCHANGED enc
  BY <1>2 DEF encryptUnaware, decryptUnaware, SdkFails, Object
<1>4. KeyOf(p)' /\ Good(p)' = Good(p) /\ (CanServe(p)' <=> CanServe(p)) /\ Aside(p)
  BY <1>1, <1>3, SameServing DEF Aside, ServerInv, OfClients, Tables
<1>5. OpensOf(p)'
  <2>1. CASE /\ sdk[p] = "encrypt" /\ enc' = [enc EXCEPT ![p] = Good(p)]
             /\ sdk' = [sdk EXCEPT ![p] = "ok"] /\ UNCHANGED fault
    <3>1. enc'[p] = Good(p) /\ sdk'[p] = "ok"
      BY <2>1 DEF ServerInv, OfClients, Tables
    <3> QED
      BY <1>1, <1>4, <2>1, <3>1 DEF OpensOf
  <2>2. CASE sdk[p] = "decrypt" /\ sdk' = [sdk EXCEPT ![p] = "ok"] /\ UNCHANGED <<enc, fault>>
    <3>1. sdk'[p] = "ok"
      BY <2>2 DEF Tables
    <3> QED
      BY <1>1, <1>4, <2>2, <3>1 DEF OpensOf
  <2>3. CASE /\ sdk' = [sdk EXCEPT ![p] = "error"] /\ fault' = [fault EXCEPT ![p] = TRUE]
             /\ UNCHANGED enc
    <3>1. sdk'[p] = "error" /\ fault'[p] = TRUE
      BY <2>3 DEF Tables
    <3> QED
      BY <1>1, <1>4, <2>3, <3>1 DEF OpensOf
  <2> QED
    BY <1>3, <2>1, <2>2, <2>3
<1>6. fault[p] => fault'[p]
  BY <1>3 DEF Tables
<1>7. ReasonsOf(p)'
  BY <1>1, <1>4, <1>6 DEF ReasonsOf
<1> QED
  BY <1>4, <1>5, <1>7 DEF SourceOf

\* What waits for it.
LEMMA AwaitReasons ==
  ASSUME ServerInv, Tables, Counters, SourceInv, NEW p \in Clients, AwaitSdk(p)
  PROVE  Aside(p) /\ SourceOf(p)'
<1>1. Under(p) /\ at[p] = "waiting" /\ OpensOf(p)
  BY RequestIsUnder DEF AwaitSdk
<1>2. CASE sdk[p] = "ok" /\ Encrypting(p) /\ OnlyMoves(p, "result")
  <2>1. at' = [at EXCEPT ![p] = "result"] /\ UNCHANGED <<enc, got, tries, sdk, fault>>
    BY <1>2 DEF OnlyMoves, To
  <2>2. Aside(p) /\ KeyOf(p)' /\ Good(p)' = Good(p) /\ UNCHANGED <<key, call, cipher, cancelled>>
    BY <1>1, <2>1, UnderIsAside DEF Under, ServerInv, OfClients, Counting, clientVars
  <2>3. at'[p] = "result" /\ call[p] = "encrypt" /\ enc[p] = Good(p)
    BY <1>1, <1>2, <2>1 DEF ServerInv, OfClients, OpensOf, Encrypting
  <2>4. OpensOf(p)'
    BY <1>1, <2>1, <2>2, <2>3 DEF OpensOf
  <2>5. ReasonsOf(p)'
    BY <2>3 DEF ReasonsOf
  <2> QED
    BY <2>2, <2>4, <2>5 DEF SourceOf
<1>3. CASE Answers(p)
  BY <1>1, <1>3, AnsweringReasons
<1>4. CASE (sdk[p] = "error" \/ cancelled[p]) /\ RequestFails(p, FALSE)
  <2>1. fault[p] \/ cancelled[p]
    BY <1>1, <1>4 DEF OpensOf
  <2> QED
    BY <1>1, <1>4, <2>1, FailingReasons
<1> QED
  BY <1>2, <1>3, <1>4 DEF AwaitSdk

\* The result, and the question of a server that asks.
LEMMA ResultReasons ==
  ASSUME ServerInv, Tables, Counters, SourceInv, NEW p \in Clients, TakeResult(p) \/ prompt(p)
  PROVE  Aside(p) /\ SourceOf(p)'
<1>1. /\ UNCHANGED <<host, key, call, cipher, cancelled, enc, sdk, fault>>
      /\ KeyOf(p) /\ OpensOf(p) /\ ReasonsOf(p)
  BY DEF TakeResult, RequestStep, prompt, Scanln, clientVars, SourceInv, SourceOf
<1>2. KeyOf(p)' /\ Good(p)' = Good(p) /\ (CanServe(p)' <=> CanServe(p))
  BY <1>1, SameServing
<1>3. CASE TakeResult(p)
  <2>1. /\ at[p] = "result" /\ at' = [at EXCEPT ![p] = IF host.prompt THEN "asking" ELSE "reply"]
        /\ got' = [got EXCEPT ![p] = IF call[p] = "encrypt" THEN enc[p] ELSE @]
    BY <1>3 DEF TakeResult, RequestStep, To, Encrypting, Object
  <2>2. Aside(p) /\ at'[p] \in {"asking", "reply"} /\ got'[p] = (IF call[p] = "encrypt" THEN enc[p] ELSE got[p])
    BY <1>1, <2>1 DEF Aside, ServerInv, OfClients
  <2>3. got'[p] = IF call[p] = "encrypt" THEN Good(p) ELSE p
    BY <1>1, <2>1, <2>2 DEF OpensOf
  <2>4. got'[p] # Nothing
    BY <1>1, <2>3, GoodIsSomething, ServerAssumption
  <2> QED
    BY <1>1, <1>2, <2>1, <2>2, <2>3, <2>4 DEF SourceOf, OpensOf, ReasonsOf
<1>4. CASE prompt(p)
  <2>1. /\ at[p] = "asking"
        /\ \/ UNCHANGED <<at, got>>
           \/ /\ at' = [at EXCEPT ![p] = "reply"]
              /\ got' = [got EXCEPT ![p] = @] \/ got' = [got EXCEPT ![p] = Nothing]
    BY <1>4 DEF prompt, Scanln, To
  <2>2. /\ Aside(p) /\ at'[p] \in {"asking", "reply"} /\ got'[p] \in {got[p], Nothing}
    BY <1>1, <2>1 DEF Aside, ServerInv, OfClients
  <2>3. OpensOf(p)'
    BY <1>1, <1>2, <2>1, <2>2 DEF OpensOf
  <2> QED
    BY <1>1, <1>2, <2>1, <2>2, <2>3 DEF SourceOf, ReasonsOf
<1> QED
  BY <1>3, <1>4

\* A key that is created names its version when it is used.
LEMMA CreatingReasons ==
  ASSUME ServerInv, Tables, Counters, SourceInv, NEW p \in Clients, CreateKey(p)
  PROVE  DOMAIN key' = Clients /\ Aside(p) /\ SourceOf(p)'
<1>1. /\ call[p] = "create" /\ UNCHANGED <<host, at, enc, got, cipher, cancelled, sdk, fault>>
      /\ KeyOf(p) /\ at[p] = "idle" /\ enc[p] = Nothing /\ sdk[p] = "none"
  BY DEF CreateKey, requestVars, SourceInv, SourceOf, OpensOf
<1>2. CASE /\ key[p].type = "azure" /\ key[p].version = 0
           /\ key' = [key EXCEPT ![p].version = current] /\ call' = [call EXCEPT ![p] = "encrypt"]
  <2>1. current \in 1..MaxVersion /\ MaxVersion \in Nat
    BY ServerAssumption DEF Counters
  <2>2. current \in 0..MaxVersion /\ current # 0
    BY <2>1
  <2>3. /\ DOMAIN key' = Clients /\ key'[p] = [key[p] EXCEPT !.version = current] /\ call'[p] = "encrypt"
        /\ \A q \in Clients \ {p} : key'[q] = key[q] /\ call'[q] = call[q]
    BY <1>2 DEF SourceInv, ServerInv, OfClients
  <2>4. /\ DOMAIN key'[p] = DOMAIN key[p] /\ key'[p].version = current
        /\ key'[p].type = key[p].type /\ key'[p].id = key[p].id /\ key'[p].with = key[p].with
    BY <1>1, <2>3 DEF KeyOf
  <2>5. KeyOf(p)'
    BY <1>1, <2>2, <2>4 DEF KeyOf, Sealed
  <2>6. OpensOf(p)'
    BY <1>1, <2>2, <2>3, <2>4 DEF OpensOf
  <2>7. ReasonsOf(p)'
    BY <1>1 DEF ReasonsOf
  <2> QED
    BY <1>1, <2>3, <2>5, <2>6, <2>7 DEF Aside, SourceOf
<1>3. CASE /\ UNCHANGED key
           /\ \/ call' = [call EXCEPT ![p] = "end"]
              \/ /\ ~(key[p].type = "azure" /\ key[p].version = 0)
                 /\ call' = [call EXCEPT ![p] = "encrypt"]
  <2>1. /\ call'[p] = "end" \/ (call'[p] = "encrypt" /\ ~(key[p].type = "azure" /\ key[p].version = 0))
        /\ \A q \in Clients \ {p} : call'[q] = call[q]
    BY <1>3 DEF ServerInv, OfClients
  <2>2. KeyOf(p)'
    BY <1>1, <1>3 DEF KeyOf, Sealed
  <2>3. OpensOf(p)'
    BY <1>1, <1>3, <2>1 DEF OpensOf
  <2>4. ReasonsOf(p)'
    BY <1>1 DEF ReasonsOf
  <2> QED
    BY <1>1, <1>3, <2>1, <2>2, <2>3, <2>4 DEF Aside, SourceOf, SourceInv
<1> QED
  BY <1>2, <1>3 DEF CreateKey

\* A client that gives up, or takes its reply.
LEMMA ClientReasons ==
  ASSUME ServerInv, Tables, Counters, SourceInv, NEW p \in Clients, Cancel(p) \/ Reply(p)
  PROVE  Aside(p) /\ SourceOf(p)' /\ key' = key
<1>1. KeyOf(p) /\ OpensOf(p) /\ ReasonsOf(p)
  BY DEF SourceInv, SourceOf
<1>2. CASE Cancel(p)
  <2>1. /\ UNCHANGED <<host, key, call, cipher, at, enc, got, sdk, fault>>
        /\ cancelled' = [cancelled EXCEPT ![p] = TRUE]
    BY <1>2 DEF Cancel, requestVars
  <2>2. KeyOf(p)' /\ Good(p)' = Good(p) /\ (CanServe(p)' <=> CanServe(p))
    BY <1>1, <2>1, SameServing
  <2>3. Aside(p) /\ cancelled'[p] = TRUE
    BY <2>1 DEF Aside, Tables
  <2>4. OpensOf(p)'
    BY <1>1, <2>1, <2>2 DEF OpensOf
  <2>5. ReasonsOf(p)'
    BY <1>1, <2>1, <2>2, <2>3 DEF ReasonsOf
  <2> QED
    BY <2>1, <2>2, <2>3, <2>4, <2>5 DEF SourceOf
<1>3. CASE Reply(p)
  <2>1. /\ UNCHANGED <<host, key, cancelled, enc, got, sdk, fault>> /\ at[p] = "reply"
        /\ at' = [at EXCEPT ![p] = "idle"]
        /\ \/ /\ Encrypting(p) /\ got[p] # Nothing /\ cipher' = [cipher EXCEPT ![p] = got[p]]
              /\ call' = [call EXCEPT ![p] = "decrypt"]
           \/ call' = [call EXCEPT ![p] = "end"] /\ UNCHANGED cipher
    BY <1>3 DEF Reply
  <2>2. Aside(p) /\ at'[p] = "idle"
    BY <2>1 DEF Aside, ServerInv, OfClients
  <2>3. KeyOf(p)' /\ Good(p)' = Good(p)
    BY <1>1, <2>1 DEF KeyOf, Good, Sealed
  <2>4. \/ call'[p] = "decrypt" /\ call[p] = "encrypt" /\ cipher'[p] = got[p] /\ got[p] # Nothing
        \/ call'[p] = "end"
    BY <2>1 DEF ServerInv, OfClients, Encrypting
  <2>5. OpensOf(p)'
    <3>1. call'[p] = "decrypt" => cipher'[p] = Good(p)
      BY <1>1, <2>1, <2>4 DEF OpensOf
    <3> QED
      BY <1>1, <2>1, <2>2, <2>3, <2>4, <3>1 DEF OpensOf
  <2>6. ReasonsOf(p)'
    BY <2>2 DEF ReasonsOf
  <2> QED
    BY <2>1, <2>2, <2>3, <2>5, <2>6 DEF SourceOf
<1> QED
  BY <1>2, <1>3

\* A request that is taken.
LEMMA ServingReasons ==
  ASSUME ServerInv, Tables, Counters, SourceInv, NEW p \in Clients, ServeEncrypt(p) \/ ServeDecrypt(p)
  PROVE  Aside(p) /\ SourceOf(p)' /\ key' = key
<1>1. KeyOf(p) /\ OpensOf(p) /\ ReasonsOf(p)
  BY DEF SourceInv, SourceOf
<1>2. /\ UNCHANGED <<host, key, call, cipher, cancelled>> /\ at[p] = "idle" /\ Route(p)
      /\ got' = [got EXCEPT ![p] = Nothing]
      /\ \/ call[p] = "encrypt" /\ enc' = [enc EXCEPT ![p] = Nothing]
         \/ call[p] = "decrypt" /\ enc' = [enc EXCEPT ![p] = cipher[p]]
  BY DEF ServeEncrypt, ServeDecrypt, Accepts, RequestStep, Object, clientVars
<1>3. /\ UNCHANGED fault
      /\ \/ at' = [at EXCEPT ![p] = "reply"] /\ UNCHANGED sdk /\ (cancelled[p] \/ ~CanServe(p))
         \/ /\ at' = [at EXCEPT ![p] = "waiting"] /\ sdk' = [sdk EXCEPT ![p] = call[p]]
            /\ key[p].type = "hckms"
         \/ at' = [at EXCEPT ![p] = "openpgp"] /\ UNCHANGED sdk /\ key[p].type = "pgp"
         \/ at' = [at EXCEPT ![p] = "local"] /\ UNCHANGED sdk
         \/ at' = [at EXCEPT ![p] = "credentials"] /\ UNCHANGED sdk
  BY <1>2 DEF Route, To, CanServe
<1>4. KeyOf(p)' /\ Good(p)' = Good(p) /\ (CanServe(p)' <=> CanServe(p))
  BY <1>1, <1>2, SameServing
<1>5. Aside(p) /\ got'[p] = Nothing
  BY <1>2, <1>3 DEF Aside, ServerInv, OfClients, Tables
<1>6. /\ call[p] = "encrypt" => enc'[p] = Nothing
      /\ call[p] = "decrypt" => enc'[p] = Good(p)
      /\ call[p] \in {"encrypt", "decrypt"}
  BY <1>1, <1>2 DEF ServerInv, OfClients, OpensOf
<1>7. /\ at'[p] \in {"reply", "waiting", "openpgp", "local", "credentials"}
      /\ at'[p] = "reply" => cancelled[p] \/ ~CanServe(p)
      /\ at'[p] = "waiting" => sdk'[p] = call[p] /\ key[p].type = "hckms"
      /\ at'[p] # "waiting" => sdk'[p] = sdk[p]
      /\ at'[p] = "openpgp" => key[p].type = "pgp"
  BY <1>3 DEF ServerInv, OfClients, Tables
<1>8. OpensOf(p)'
  BY <1>1, <1>2, <1>3, <1>4, <1>5, <1>6, <1>7 DEF OpensOf
<1>9. ReasonsOf(p)'
  BY <1>2, <1>4, <1>7 DEF ReasonsOf
<1> QED
  BY <1>2, <1>4, <1>5, <1>8, <1>9 DEF SourceOf

\* Only its creation changes a key.
LEMMA KeysAreKept ==
  ASSUME NEW p \in Clients, Request(p) \/ World(p), ~CreateKey(p)
  PROVE  key' = key
<1>1. ASSUME NEW place, RequestStep(p, place) PROVE key' = key
  BY <1>1 DEF RequestStep, clientVars
<1>2. CASE Cancel(p) \/ Reply(p) \/ encryptUnaware(p) \/ decryptUnaware(p) \/ prompt(p)
  BY <1>2 DEF Cancel, Reply, encryptUnaware, decryptUnaware, SdkStep, prompt, Scanln, clientVars
<1>3. CASE ServeEncrypt(p) \/ ServeDecrypt(p) \/ AgeLocal(p) \/ encryptWithOpenPGP(p)
             \/ decryptWithOpenPGP(p) \/ passphrasePrompt(p) \/ encryptWithGnuPG(p) \/ decryptWithGnuPG(p)
  BY <1>1, <1>3 DEF ServeEncrypt, ServeDecrypt, Accepts, AgeLocal, encryptWithOpenPGP,
     decryptWithOpenPGP, passphrasePrompt, encryptWithGnuPG, decryptWithGnuPG
<1>4. CASE vaultClient(p) \/ newKMSClient(p) \/ createKMSConfig(p) \/ createSTSConfig(p)
             \/ getTokenCredential(p)
  BY <1>1, <1>4 DEF vaultClient, newKMSClient, createKMSConfig, createSTSConfig,
     getTokenCredential, CredentialsStep
<1>5. CASE CallKMS(p) \/ CallGoogle(p) \/ CallAzure(p) \/ CallVault(p) \/ CallCancelled(p)
             \/ AwaitSdk(p) \/ TakeResult(p)
  BY <1>1, <1>5 DEF CallKMS, CallGoogle, CallAzure, CallVault, CallStep, CallCancelled, AwaitSdk,
     TakeResult
<1> QED
  BY <1>2, <1>3, <1>4, <1>5 DEF Request, World

\* Each step of a client or of its request, whoever takes it.
LEMMA StepReasons ==
  ASSUME ServerInv, Tables, Counters, SourceInv, NEW p \in Clients, Request(p) \/ World(p)
  PROVE  DOMAIN key' = Clients /\ Aside(p) /\ SourceOf(p)'
<1>1. CASE CreateKey(p)
  BY <1>1, CreatingReasons
<1>2. CASE Cancel(p) \/ Reply(p) \/ ServeEncrypt(p) \/ ServeDecrypt(p)
  BY <1>2, ClientReasons, ServingReasons DEF SourceInv
<1>3. ASSUME ~CreateKey(p) PROVE DOMAIN key' = Clients
  BY <1>3, KeysAreKept DEF SourceInv
<1>4. CASE encryptWithOpenPGP(p) \/ decryptWithOpenPGP(p) \/ passphrasePrompt(p)
             \/ encryptWithGnuPG(p) \/ decryptWithGnuPG(p)
  <2>1. Aside(p) /\ SourceOf(p)'
    BY <1>4, PgpReasons
  <2> QED
    BY <1>1, <1>3, <2>1
<1>5. CASE vaultClient(p) \/ newKMSClient(p) \/ createKMSConfig(p) \/ createSTSConfig(p)
             \/ getTokenCredential(p)
  <2>1. Aside(p) /\ SourceOf(p)'
    BY <1>5, CredentialsReasons
  <2> QED
    BY <1>1, <1>3, <2>1
<1>6. CASE AgeLocal(p) \/ CallKMS(p) \/ CallGoogle(p) \/ CallAzure(p) \/ CallVault(p)
  <2>1. Under(p) /\ (Answers(p) \/ RequestFails(p, TRUE))
    BY <1>6, RequestIsUnder DEF AgeLocal, CallKMS, CallGoogle, CallAzure, CallVault, CallStep
  <2>2. Aside(p) /\ SourceOf(p)'
    BY <2>1, AnsweringReasons, FailingReasons
  <2> QED
    BY <1>1, <1>3, <2>2
<1>7. CASE CallCancelled(p)
  <2>1. Under(p) /\ cancelled[p] /\ RequestFails(p, FALSE)
    BY <1>7, RequestIsUnder DEF CallCancelled
  <2>2. Aside(p) /\ SourceOf(p)'
    BY <2>1, FailingReasons
  <2> QED
    BY <1>1, <1>3, <2>2
<1>8. CASE encryptUnaware(p) \/ decryptUnaware(p) \/ AwaitSdk(p)
  <2>1. Aside(p) /\ SourceOf(p)'
    BY <1>8, SdkReasons, AwaitReasons
  <2> QED
    BY <1>1, <1>3, <2>1
<1>9. CASE TakeResult(p) \/ prompt(p)
  <2>1. Aside(p) /\ SourceOf(p)'
    BY <1>9, ResultReasons
  <2> QED
    BY <1>1, <1>3, <2>1
<1> QED
  BY <1>1, <1>2, <1>4, <1>5, <1>6, <1>7, <1>8, <1>9 DEF Request, World

\* The inductive invariant of what a request rests on.
THEOREM SourceInvariant == ServerSpec => []SourceInv
<1>1. ServerInit => SourceInv
  <2> SUFFICES ASSUME ServerInit PROVE SourceInv
    OBVIOUS
  <2>1. PICK setup \in Setups : key = setup.keys
    BY DEF ServerInit
  <2>2. DOMAIN key = Clients /\ \A p \in Clients : KeyOf(p)
    BY <2>1, SetupsAssumption DEF KeyOf
  <2>3. ASSUME NEW p \in Clients PROVE OpensOf(p) /\ ReasonsOf(p)
    <3>1. at[p] = "idle" /\ call[p] = "create" /\ enc[p] = Nothing /\ sdk[p] = "none"
      BY DEF ServerInit
    <3> QED
      BY <3>1 DEF OpensOf, ReasonsOf
  <2> QED
    BY <2>2, <2>3 DEF SourceInv, SourceOf
<1>2. ServerInv /\ Tables /\ Counters /\ SourceInv /\ [ServerNext]_serverVars => SourceInv'
  <2> SUFFICES ASSUME ServerInv, Tables, Counters, SourceInv, [ServerNext]_serverVars
               PROVE  SourceInv'
    OBVIOUS
  <2>1. ASSUME NEW p \in Clients, Request(p) \/ World(p) PROVE SourceInv'
    <3>1. DOMAIN key' = Clients /\ Aside(p) /\ SourceOf(p)'
      BY <2>1, StepReasons
    <3>2. ASSUME NEW q \in Clients \ {p} PROVE SourceOf(q)'
      <4>1. /\ at'[q] = at[q] /\ call'[q] = call[q] /\ enc'[q] = enc[q] /\ got'[q] = got[q]
            /\ cipher'[q] = cipher[q] /\ key'[q] = key[q] /\ sdk'[q] = sdk[q] /\ fault'[q] = fault[q]
            /\ cancelled'[q] = cancelled[q] /\ host' = host
        BY <3>1 DEF Aside
      <4>2. KeyOf(q)' /\ Good(q)' = Good(q) /\ (CanServe(q)' <=> CanServe(q))
        BY <4>1, SameServing DEF SourceInv, SourceOf
      <4>3. OpensOf(q) /\ ReasonsOf(q)
        BY DEF SourceInv, SourceOf
      <4>4. OpensOf(q)'
        BY <4>1, <4>2, <4>3 DEF OpensOf
      <4>5. ReasonsOf(q)'
        BY <4>1, <4>2, <4>3 DEF ReasonsOf
      <4> QED
        BY <4>2, <4>4, <4>5 DEF SourceOf
    <3> QED
      BY <3>1, <3>2 DEF SourceInv
  <2>2. CASE RenewKeys \/ UserTypes \/ Terminate \/ UNCHANGED serverVars
    <3>1. UNCHANGED <<host, key, call, cipher, cancelled, at, enc, got, sdk, fault>>
      BY <2>2 DEF RenewKeys, UserTypes, Terminate, serverVars, clientVars, requestVars
    <3>2. ASSUME NEW p \in Clients PROVE SourceOf(p)'
      <4>1. KeyOf(p)' /\ Good(p)' = Good(p) /\ (CanServe(p)' <=> CanServe(p))
        BY <3>1, SameServing DEF SourceInv, SourceOf
      <4> QED
        BY <3>1, <4>1 DEF SourceInv, SourceOf, OpensOf, ReasonsOf
    <3> QED
      BY <3>1, <3>2 DEF SourceInv
  <2> QED
    BY <2>1, <2>2 DEF ServerNext
<1> QED
  BY <1>1, <1>2, ServerInvariant, ServerTypes, PTL DEF ServerSpec

\* A request fails only for a reason: what was encrypted is decrypted, whatever happens to the keys
\* and to the other requests meanwhile, unless a service fails, the caller gives up, the user
\* refuses, or the environment of the server cannot serve it.
THEOREM FailuresHaveReasons == ServerSpec => []FailsForAReason
<1>1. SourceInv => FailsForAReason
  BY DEF SourceInv, SourceOf, ReasonsOf, FailsForAReason
<1> QED
  BY <1>1, SourceInvariant, PTL
=============================================================================
