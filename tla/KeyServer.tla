------------------------------ MODULE KeyServer ------------------------------
(***************************************************************************)
(* A key service and its clients (keyservice, cmd/sops/subcommand/         *)
(* keyservice, and EncryptContext/DecryptContext of the providers).  Each  *)
(* client creates a master key, has its data key encrypted, keeps the      *)
(* ciphertext, and has it decrypted.  A request is a goroutine of the      *)
(* server: it makes a key object, asks the provider - a cloud service, a   *)
(* keyring, a program - and, with --prompt, the user; two such goroutines  *)
(* read the terminal byte by byte.  The data key of a client is the        *)
(* client.                                                                 *)
(***************************************************************************)
EXTENDS Naturals, FiniteSets, Sequences

CONSTANTS
  Clients,
  Setups,       \* the environment of the server, and the master key of each client
  Nothing,
  MaxVersion,   \* how often a key in Azure is renewed
  MaxTyped      \* how many bytes the user types

ASSUME ServerAssumption ==
  Nothing \notin Clients /\ MaxVersion \in Nat \ {0} /\ MaxTyped \in Nat

VARIABLES
  host,       \* the environment: keyrings, credentials, --prompt
  current,    \* the version of Azure keys
  key,        \* the master key of a client
  call,       \* what a client does
  at,         \* where its request is in the server
  enc,        \* EncryptedKey of the key objects
  got,        \* the result of a request, before and in its reply
  cipher,     \* the ciphertext that a client keeps
  tries,      \* passphrases asked for
  sdk,        \* the goroutine of a call to HuaweiCloud and its channel
  cancelled,  \* whether the context of a client is
  fault,      \* whether something out of the server's hands failed
  typed,      \* the bytes that the user typed
  read,       \* how many of them were read
  token,      \* what a Scanln has read
  released,   \* how many replies with a result left the server
  serving     \* whether the server is alive

clientVars == <<key, call, cipher, cancelled>>
promptVars == <<typed, read, token>>
requestVars == <<at, enc, got, tries, sdk, fault>>
serverVars == <<host, current, clientVars, requestVars, promptVars, released, serving>>

-----------------------------------------------------------------------------
(***************************************************************************)
(* Keys and ciphertexts                                                    *)
(***************************************************************************)
\* Only the fields that make a difference: a KMS key has a context and perhaps a role, an Azure
\* key a version, a Vault key an address; valid says whether its name is well-formed.
Sealed(k, version, p) == [type |-> k.type, id |-> k.id, with |-> k.with, version |-> version, holds |-> p]

\* A key of a setup has these fields, and no ciphertext is Nothing.
ASSUME SetupsAssumption ==
  \A setup \in Setups : DOMAIN setup.keys = Clients /\ \A p \in Clients :
    LET k == setup.keys[p] IN
      /\ {"type", "id", "with", "version"} \subseteq DOMAIN k /\ k.version \in 0..MaxVersion
      /\ \A version \in 0..MaxVersion : Sealed(k, version, p) # Nothing

\* Mistake: the version does not travel.
KeyWithoutVersion(k) == [k EXCEPT !.version = 0]
KeyFromMasterKey(k) == k

kmsKeyToMasterKey(k) == k

\* Version 0 stands for none: the newest.
VersionOf(k) == IF k.type = "azure" /\ k.version = 0 THEN current ELSE k.version

Requested(p) == kmsKeyToMasterKey(KeyFromMasterKey(key[p]))

\* Mistake: the server keeps one object for each key.
OneObject(p) == CHOOSE q \in Clients : key[q].id = key[p].id /\ key[q].type = key[p].type
Object(p) == p

Encrypting(p) == call[p] = "encrypt"
Outcome(p) ==
  IF Encrypting(p) THEN Sealed(Requested(p), VersionOf(Requested(p)), p)
  ELSE IF enc[Object(p)] = Sealed(Requested(p), VersionOf(Requested(p)), enc[Object(p)].holds)
       THEN enc[Object(p)].holds ELSE Nothing

-----------------------------------------------------------------------------
(***************************************************************************)
(* Clients                                                                 *)
(***************************************************************************)
\* ensureKeyHasVersion asks Azure for the version; the other constructors ask nobody.
CreateKey(p) ==
  /\ call[p] = "create"
  /\ \/ /\ key[p].type = "azure" /\ key[p].version = 0
        /\ \/ key' = [key EXCEPT ![p].version = current] /\ call' = [call EXCEPT ![p] = "encrypt"]
           \/ call' = [call EXCEPT ![p] = "end"] /\ UNCHANGED key
     \/ /\ ~(key[p].type = "azure" /\ key[p].version = 0)
        /\ call' = [call EXCEPT ![p] = "encrypt"] /\ UNCHANGED key
  /\ UNCHANGED <<host, current, cipher, cancelled, requestVars, promptVars, released, serving>>

Cancel(p) ==
  /\ call[p] \in {"encrypt", "decrypt"} /\ ~cancelled[p]
  /\ cancelled' = [cancelled EXCEPT ![p] = TRUE]
  /\ UNCHANGED <<host, current, key, call, cipher, requestVars, promptVars, released, serving>>

\* The client takes the reply, keeps the ciphertext, and comes back for the data key.
Reply(p) ==
  /\ at[p] = "reply"
  /\ at' = [at EXCEPT ![p] = "idle"]
  /\ IF Encrypting(p) /\ got[p] # Nothing /\ ~cancelled[p]
     THEN cipher' = [cipher EXCEPT ![p] = got[p]] /\ call' = [call EXCEPT ![p] = "decrypt"]
     ELSE call' = [call EXCEPT ![p] = "end"] /\ UNCHANGED cipher
  /\ released' = IF got[p] # Nothing THEN released + 1 ELSE released
  /\ UNCHANGED <<host, current, key, cancelled, enc, got, tries, sdk, fault, promptVars, serving>>

\* Only keys in Azure have versions.
RenewKeys ==
  /\ current < MaxVersion /\ \E p \in Clients : key[p].type = "azure"
  /\ current' = current + 1
  /\ UNCHANGED <<host, clientVars, requestVars, promptVars, released, serving>>

-----------------------------------------------------------------------------
(***************************************************************************)
(* Requests                                                                *)
(***************************************************************************)
To(p, next) == at' = [at EXCEPT ![p] = next]
OnlyMoves(p, next) == To(p, next) /\ UNCHANGED <<enc, got, tries, sdk, fault>>

RequestFails(p, outside) ==
  /\ To(p, "reply")
  /\ got' = [got EXCEPT ![p] = Nothing]
  /\ fault' = [fault EXCEPT ![p] = @ \/ outside]
  /\ UNCHANGED <<enc, tries, sdk>>

\* The provider has answered: Encrypt leaves its result in the key object, Decrypt returns it.
Answers(p) ==
  IF Outcome(p) = Nothing THEN RequestFails(p, FALSE)
  ELSE /\ To(p, "result")
       /\ IF Encrypting(p) THEN enc' = [enc EXCEPT ![Object(p)] = Outcome(p)] /\ UNCHANGED got
          ELSE got' = [got EXCEPT ![p] = Outcome(p)] /\ UNCHANGED enc
       /\ UNCHANGED <<tries, sdk, fault>>

RequestStep(p, place) ==
  /\ at[p] = place /\ serving
  /\ UNCHANGED <<host, current, clientVars, promptVars, released, serving>>

\* The switch on the type of the key.
Route(p) ==
  CASE key[p].type = "none" \/ (key[p].type = "hckms" /\ ~key[p].valid) ->
         To(p, "reply") /\ UNCHANGED <<sdk, fault>>
    [] key[p].type = "hckms" /\ key[p].valid ->
         \/ ~cancelled[p] /\ To(p, "waiting") /\ sdk' = [sdk EXCEPT ![p] = call[p]] /\ UNCHANGED fault
         \/ cancelled[p] /\ To(p, "reply") /\ UNCHANGED <<sdk, fault>>
    [] key[p].type = "pgp" -> To(p, "openpgp") /\ UNCHANGED <<sdk, fault>>
    [] key[p].type = "age" -> To(p, "local") /\ UNCHANGED <<sdk, fault>>
    [] OTHER -> To(p, "credentials") /\ UNCHANGED <<sdk, fault>>

Accepts(p, ciphertext) ==
  /\ RequestStep(p, "idle")
  /\ enc' = [enc EXCEPT ![Object(p)] = ciphertext]
  /\ got' = [got EXCEPT ![p] = Nothing]
  /\ tries' = [tries EXCEPT ![p] = 0]
  /\ Route(p)

\* Encrypt and Decrypt of the server.
ServeEncrypt(p) == call[p] = "encrypt" /\ Accepts(p, Nothing)

ServeDecrypt(p) == call[p] = "decrypt" /\ Accepts(p, cipher[p])

\* age is asked in the process; an identity may be missing.
AgeLocal(p) == RequestStep(p, "local") /\ (Answers(p) \/ RequestFails(p, TRUE))

(***************************************************************************)
(* PGP: the keyrings, then the gpg program                                 *)
(***************************************************************************)
encryptWithOpenPGP(p) ==
  /\ RequestStep(p, "openpgp") /\ Encrypting(p)
  /\ IF host.pubring THEN Answers(p) ELSE OnlyMoves(p, "gnupg")

\* Without a secring the pubring is read, which holds no secret key.
decryptWithOpenPGP(p) ==
  /\ RequestStep(p, "openpgp") /\ ~Encrypting(p)
  /\ CASE host.secring = "key" -> Answers(p)
       [] host.secring = "locked" -> OnlyMoves(p, "passphrase")
       [] OTHER -> OnlyMoves(p, "gnupg")

\* Mistake: it never gives up.
passphraseWithoutEnd(p) ==
  /\ RequestStep(p, "passphrase")
  /\ \/ Answers(p)
     \/ tries' = [tries EXCEPT ![p] = @ + 1] /\ UNCHANGED <<at, enc, got, sdk, fault>>

\* passphrasePrompt gives up when it is called for the fourth time; nothing cancels it.
passphrasePrompt(p) ==
  /\ RequestStep(p, "passphrase")
  /\ \/ tries[p] < 3 /\ Answers(p)
     \/ /\ tries[p] < 3
        /\ tries' = [tries EXCEPT ![p] = @ + 1] /\ UNCHANGED <<at, enc, got, sdk, fault>>
     \/ tries[p] = 3 /\ OnlyMoves(p, "gnupg")

\* gpgExec ends with its context; gpg may print nothing, or an error.
gpgExec(p) == (host.gpg /\ Answers(p)) \/ RequestFails(p, host.gpg)

encryptWithGnuPG(p) == RequestStep(p, "gnupg") /\ Encrypting(p) /\ gpgExec(p)

decryptWithGnuPG(p) == RequestStep(p, "gnupg") /\ ~Encrypting(p) /\ gpgExec(p)

(***************************************************************************)
(* Cloud services                                                          *)
(***************************************************************************)
CredentialsStep(p, type) == key[p].type = type /\ RequestStep(p, "credentials")

\* An address must be allowed, and a token is read from the environment or from a file, which
\* may be unreadable.
vaultClient(p) ==
  /\ CredentialsStep(p, "vault")
  /\ IF key[p].with \subseteq host.allowlist /\ host.token # "unreadable" THEN OnlyMoves(p, "call")
     ELSE RequestFails(p, FALSE)

\* A well-formed resource, and no credentials file that cannot be read.
newKMSClient(p) ==
  /\ CredentialsStep(p, "gcp")
  /\ IF key[p].valid /\ host.google # "unreadable" THEN OnlyMoves(p, "call")
     ELSE RequestFails(p, FALSE)

\* A well-formed ARN, and its role to be assumed first.
createKMSConfig(p) ==
  /\ CredentialsStep(p, "kms")
  /\ IF ~key[p].valid THEN RequestFails(p, FALSE)
     ELSE OnlyMoves(p, IF key[p].role THEN "assume" ELSE "call") \/ RequestFails(p, TRUE)

createSTSConfig(p) == RequestStep(p, "assume") /\ (OnlyMoves(p, "call") \/ RequestFails(p, TRUE))

getTokenCredential(p) ==
  CredentialsStep(p, "azure") /\ (OnlyMoves(p, "call") \/ RequestFails(p, TRUE))

\* EncryptContext and DecryptContext of the providers.  The service may answer, refuse, or not
\* answer at all.
CallStep(p, type) ==
  key[p].type = type /\ RequestStep(p, "call") /\ (Answers(p) \/ RequestFails(p, TRUE))

CallKMS(p) == CallStep(p, "kms")
CallGoogle(p) == CallStep(p, "gcp")
CallAzure(p) == CallStep(p, "azure")
CallVault(p) == CallStep(p, "vault")

\* What the context ends when it is cancelled.
CallCancelled(p) ==
  /\ cancelled[p]
  /\ \E place \in {"assume", "call", "gnupg"} : RequestStep(p, place)
  /\ RequestFails(p, FALSE)

(***************************************************************************)
(* HuaweiCloud: its library knows no context                               *)
(***************************************************************************)
\* The goroutine runs on, though nobody waits for it any more.
SdkStep(p) ==
  serving /\ UNCHANGED <<host, current, clientVars, at, got, tries, promptVars, released, serving>>

SdkFails(p) ==
  /\ sdk' = [sdk EXCEPT ![p] = "error"] /\ fault' = [fault EXCEPT ![p] = TRUE] /\ UNCHANGED enc

\* It writes the ciphertext into the key object.
encryptUnaware(p) ==
  /\ sdk[p] = "encrypt" /\ SdkStep(p)
  /\ \/ /\ enc' = [enc EXCEPT ![Object(p)] = Sealed(Requested(p), VersionOf(Requested(p)), p)]
        /\ sdk' = [sdk EXCEPT ![p] = "ok"] /\ UNCHANGED fault
     \/ SdkFails(p)

decryptUnaware(p) ==
  /\ sdk[p] = "decrypt" /\ SdkStep(p)
  /\ (sdk' = [sdk EXCEPT ![p] = "ok"] /\ UNCHANGED <<enc, fault>>) \/ SdkFails(p)

\* Mistake: only the channel is waited for.
AwaitChannel(p) ==
  /\ RequestStep(p, "waiting")
  /\ \/ sdk[p] = "ok" /\ IF Encrypting(p) THEN OnlyMoves(p, "result") ELSE Answers(p)
     \/ sdk[p] = "error" /\ RequestFails(p, FALSE)

AwaitSdk(p) ==
  /\ RequestStep(p, "waiting")
  /\ \/ sdk[p] = "ok" /\ IF Encrypting(p) THEN OnlyMoves(p, "result") ELSE Answers(p)
     \/ (sdk[p] = "error" \/ cancelled[p]) /\ RequestFails(p, FALSE)

-----------------------------------------------------------------------------
(***************************************************************************)
(* The reply and the prompt                                                *)
(***************************************************************************)
\* Encrypt reads the key object when the provider is done; then the user is asked.
TakeResult(p) ==
  /\ RequestStep(p, "result")
  /\ got' = [got EXCEPT ![p] = IF Encrypting(p) THEN enc[Object(p)] ELSE @]
  /\ To(p, IF host.prompt THEN "asking" ELSE "reply")
  /\ UNCHANGED <<enc, tries, sdk, fault>>

UserTypes ==
  /\ host.prompt /\ serving /\ Len(typed) < MaxTyped
  /\ \E c \in {"y", "n", "newline"} : typed' = Append(typed, c)
  /\ UNCHANGED <<host, current, clientVars, requestVars, read, token, released, serving>>

\* A Scanln reads a byte, and answers when that ends a line.
Scanln(p, Answer(_)) ==
  LET c == typed[read + 1] IN
    /\ at[p] = "asking" /\ serving /\ read < Len(typed)
    /\ read' = read + 1
    /\ IF c # "newline"
       THEN token' = [token EXCEPT ![p] = IF @ = "" THEN c ELSE "other"] /\ UNCHANGED <<at, got>>
       ELSE token' = [token EXCEPT ![p] = ""] /\ Answer(token[p])
    /\ UNCHANGED <<host, current, clientVars, enc, tries, sdk, fault, typed, released, serving>>

\* Mistake: only n refuses.
PromptTakesAnything(p) ==
  LET Answer(line) == /\ To(p, "reply")
                      /\ got' = [got EXCEPT ![p] = IF line = "n" THEN Nothing ELSE @]
  IN Scanln(p, Answer)

\* y lets the reply go, n refuses it, an empty line is an error, and anything else is asked again.
prompt(p) ==
  LET Answer(line) == IF line = "other" THEN UNCHANGED <<at, got>>
                      ELSE /\ To(p, "reply")
                           /\ got' = [got EXCEPT ![p] = IF line = "y" THEN @ ELSE Nothing]
  IN Scanln(p, Answer)

-----------------------------------------------------------------------------
(***************************************************************************)
(* The server process                                                      *)
(***************************************************************************)
\* The goroutine that waits for signals closes the socket and exits, whatever is in progress.
Terminate ==
  /\ serving
  /\ serving' = FALSE
  /\ UNCHANGED <<host, current, clientVars, requestVars, promptVars, released>>

Request(p) ==
  \/ ServeEncrypt(p) \/ ServeDecrypt(p) \/ AgeLocal(p) \/ encryptWithOpenPGP(p) \/ decryptWithOpenPGP(p)
  \/ vaultClient(p) \/ newKMSClient(p) \/ createKMSConfig(p) \/ getTokenCredential(p)
  \/ CallCancelled(p) \/ AwaitSdk(p) \/ TakeResult(p) \/ Reply(p)

\* What others decide: services, programs and the user.
World(p) ==
  \/ CreateKey(p) \/ Cancel(p) \/ passphrasePrompt(p) \/ encryptWithGnuPG(p) \/ decryptWithGnuPG(p)
  \/ createSTSConfig(p) \/ CallKMS(p) \/ CallGoogle(p) \/ CallAzure(p) \/ CallVault(p)
  \/ encryptUnaware(p) \/ decryptUnaware(p) \/ prompt(p)

ServerInit ==
  /\ \E setup \in Setups : host = setup.host /\ key = setup.keys
  /\ current = 1
  /\ call = [p \in Clients |-> "create"] /\ at = [p \in Clients |-> "idle"]
  /\ enc = [p \in Clients |-> Nothing] /\ got = [p \in Clients |-> Nothing]
  /\ cipher = [p \in Clients |-> Nothing] /\ tries = [p \in Clients |-> 0]
  /\ sdk = [p \in Clients |-> "none"] /\ cancelled = [p \in Clients |-> FALSE]
  /\ fault = [p \in Clients |-> FALSE]
  /\ typed = <<>> /\ token = [p \in Clients |-> ""] /\ read = 0 /\ released = 0
  /\ serving = TRUE

ServerNext ==
  \/ \E p \in Clients : Request(p) \/ World(p)
  \/ RenewKeys \/ UserTypes \/ Terminate

ServerSpec == ServerInit /\ [][ServerNext]_serverVars

\* Goroutines run; no service, no program and no user has to answer.
ServerFairness == \A p \in Clients : WF_serverVars(Request(p))

FairServerSpec == ServerSpec /\ ServerFairness

-----------------------------------------------------------------------------
(***************************************************************************)
(* Properties                                                              *)
(***************************************************************************)
Kept(x) == IF x \in Clients THEN TRUE ELSE x = Nothing \/ x.holds \in Clients

ServerTypeOK ==
  /\ current \in 1..MaxVersion /\ serving \in BOOLEAN /\ released \in Nat
  /\ \A p \in Clients :
       /\ call[p] \in {"create", "encrypt", "decrypt", "end"}
       /\ at[p] \in {"idle", "local", "openpgp", "passphrase", "gnupg", "credentials", "assume",
                     "call", "waiting", "result", "asking", "reply"}
       /\ Kept(enc[p]) /\ Kept(got[p]) /\ Kept(cipher[p])
       /\ tries[p] \in 0..3 /\ sdk[p] \in {"none", "encrypt", "decrypt", "ok", "error"}
       /\ cancelled[p] \in BOOLEAN /\ fault[p] \in BOOLEAN
       /\ token[p] \in {"", "y", "n", "other"}
  /\ Len(typed) <= MaxTyped /\ read \in 0..Len(typed)

\* A reply is about the request it answers: a ciphertext holds the data key of that client, and
\* what is decrypted is its data key, though other requests use the same master key at the same
\* time, and a call that was given up may still write its result.
RepliesAreOwn ==
  \A p \in Clients : at[p] = "reply" /\ got[p] # Nothing =>
    IF Encrypting(p) THEN got[p].holds = p ELSE got[p] = p

\* A prompting server lets no more results go than the user typed y, however the bytes of the
\* answers are shared between two prompts.
OneYesOneReply ==
  host.prompt => released <= Cardinality({i \in DOMAIN typed : typed[i] = "y"})

\* Can the server do what it is asked, as far as it depends on its own environment?
CanServe(p) ==
  CASE key[p].type = "pgp" -> host.gpg \/ IF Encrypting(p) THEN host.pubring ELSE host.secring = "key"
    [] key[p].type = "vault" -> key[p].with \subseteq host.allowlist /\ host.token # "unreadable"
    [] key[p].type = "gcp" -> key[p].valid /\ host.google # "unreadable"
    [] key[p].type = "none" -> FALSE
    [] OTHER -> key[p].valid

\* A request fails only for a reason: a service failed, the caller gave up, the user refused, or
\* the environment has no way to serve it.  So what was encrypted can be decrypted, with the
\* same context, and with the version of the key that encrypted it, though the key was renewed.
FailsForAReason ==
  \A p \in Clients :
    at[p] = "reply" /\ got[p] = Nothing /\ ~fault[p] /\ ~cancelled[p] /\ ~host.prompt => ~CanServe(p)

\* A call whose context is cancelled comes back, though no service ever answers; only a
\* question to the user holds it up.
CancelledCallsReturn ==
  \A p \in Clients :
    (cancelled[p] /\ at[p] # "idle") ~> (at[p] \in {"idle", "passphrase", "asking"} \/ ~serving)
=============================================================================
