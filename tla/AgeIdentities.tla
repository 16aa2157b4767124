---------------------------- MODULE AgeIdentities ----------------------------
(***************************************************************************)
(* age: which recipient a data key is sealed to, where the identities that *)
(* open it are loaded from, and in which order they are tried              *)
(* (age/keysource.go, encrypted_keys.go, ssh_parse.go, keypb).  Eight      *)
(* sources are looked at; each may be absent, broken, or hold identities   *)
(* of several kinds.  The library sorts native identities to the front,    *)
(* and gives up at the first identity that fails otherwise than by not     *)
(* fitting.                                                                *)
(***************************************************************************)
EXTENDS Naturals, FiniteSets, SequencesExt

CONSTANTS
  Environments,   \* functions from Sources to contents
  Recipients,     \* public keys
  Names,          \* names of the entries of PXF key files
  NoName,
  Malformed,      \* text that is neither a recipient nor an identity
  NoRecipient

ASSUME AgeAssumption == NoName \notin Names /\ {Malformed, NoRecipient} \cap Recipients = {}

SshSources == {"ssh file", "ssh cmd", "id_ed25519", "id_rsa"}
\* The order in which a name or a default is looked up.
PxfSources == <<"key file", "key", "key cmd", "default">>
Sources == SshSources \cup ToSet(PxfSources)

(***************************************************************************)
(* Contents of a source.  "broken": a command that fails, a PXF file that  *)
(* cannot be read, or text that looks like PXF and is none; "missing": a   *)
(* key file not named *.pxf that cannot be opened; "lines": any other      *)
(* text, with what its lines hold; "sealed": a key file encrypted with a   *)
(* passphrase; "ssh": a private SSH key, perhaps with a passphrase.        *)
(***************************************************************************)
Native(recipient) == [kind |-> "native", recipient |-> recipient]
Plugin(recipient, works) == [kind |-> "plugin", recipient |-> recipient, works |-> works]

Unset == [kind |-> "unset"]
Broken == [kind |-> "broken"]
Missing == [kind |-> "missing"]
Lines(secrets) == [kind |-> "lines", secrets |-> secrets]
Pxf(keys, default) == [kind |-> "pxf", keys |-> keys, default |-> default]
SealedFile(recipients, works) == [kind |-> "sealed", recipients |-> recipients, works |-> works]
Ssh(recipient) == [kind |-> "ssh", recipient |-> recipient]
LockedSsh(recipient, known, works) ==
  [kind |-> "locked", recipient |-> recipient, known |-> known, works |-> works]

\* What the entries or the lines of a source hold.
Secrets(content) ==
  CASE content.kind = "lines" -> content.secrets
    [] content.kind = "pxf" -> {content.keys[n] : n \in DOMAIN content.keys}
    [] OTHER -> {}

IsSecret(x) ==
  \/ x = Malformed
  \/ /\ x.recipient \in Recipients
     /\ x = Native(x.recipient) \/ (x.kind = "plugin" /\ x = Plugin(x.recipient, x.works))

ASSUME EnvironmentsAssumption ==
  \A e \in Environments : DOMAIN e = Sources /\ \A s \in Sources :
    IsFiniteSet(Secrets(e[s])) /\ \A x \in Secrets(e[s]) : IsSecret(x)

VARIABLES
  env,        \* what the sources hold
  asked,      \* how the recipient is chosen
  stage,      \* where the call is
  recipient,  \* the recipient that the data key is sealed to
  identities, \* what was loaded, in order
  faults,     \* the sources that gave an error
  readers,    \* sources left to be read when the others have been
  opened      \* whether the data key was opened

ageVars == <<env, asked, stage, recipient, identities, faults, readers, opened>>

-----------------------------------------------------------------------------
(***************************************************************************)
(* The recipient                                                           *)
(***************************************************************************)
Asks == [by : {"recipient"}, key : Recipients \cup {Malformed}]
          \cup [by : {"name"}, name : Names] \cup [by : {"default"}]

isPXFContent(content) == content.kind \in {"pxf", "broken"}

\* A plugin would have to be asked for its recipient, which is not done.
deriveRecipient(secret) ==
  IF secret # Malformed /\ secret.kind = "native" THEN secret.recipient ELSE Malformed

recipientFromAgeKeyFile(file, name) ==
  IF name \in DOMAIN file.keys THEN deriveRecipient(file.keys[name]) ELSE Malformed

KeyFiles == {env[s] : s \in {s \in Sources : env[s].kind = "pxf"}}

\* The sources are walked until one is broken or has what is looked for: the answer is the
\* place of that source, or 0.  A key file not named *.pxf is passed over, even a missing one.
StopsAt(having) ==
  LET stops == {i \in DOMAIN PxfSources :
                  LET c == env[PxfSources[i]] IN isPXFContent(c) /\ (c = Broken \/ c \in having)}
  IN IF stops = {} THEN 0 ELSE CHOOSE i \in stops : \A j \in stops : i <= j

\* An error is Malformed, and no default is NoRecipient.
DefaultRecipientFromKeyFile ==
  LET i == StopsAt({c \in KeyFiles : c.default # NoName})
  IN CASE i = 0 -> NoRecipient
       [] i # 0 /\ env[PxfSources[i]] = Broken -> Malformed
       [] OTHER -> recipientFromAgeKeyFile(env[PxfSources[i]], env[PxfSources[i]].default)

RecipientFromKeyFileByName(name) ==
  LET i == StopsAt({c \in KeyFiles : name \in DOMAIN c.keys})
  IN IF i = 0 \/ (i # 0 /\ env[PxfSources[i]] = Broken) THEN Malformed
     ELSE recipientFromAgeKeyFile(env[PxfSources[i]], name)

ChooseRecipient ==
  /\ stage = "recipient"
  /\ recipient' = CASE asked.by = "recipient" -> asked.key
                    [] asked.by = "name" -> RecipientFromKeyFileByName(asked.name)
                    [] OTHER -> DefaultRecipientFromKeyFile
  /\ stage' = IF recipient' \in Recipients THEN "encrypt" ELSE "refused"
  /\ UNCHANGED <<env, asked, identities, faults, readers, opened>>

\* The plugin of a recipient may be missing.
encryptInternal ==
  /\ stage = "encrypt"
  /\ stage' \in {"ssh", "refused"}
  /\ UNCHANGED <<env, asked, recipient, identities, faults, readers, opened>>

-----------------------------------------------------------------------------
(***************************************************************************)
(* Loading identities                                                      *)
(***************************************************************************)
\* Mistake: a file with a default contributes only that.
parseDefaultIdentity(file) ==
  {file.keys[n] : n \in IF file.default \in DOMAIN file.keys THEN {file.default} ELSE DOMAIN file.keys}

\* One bad entry, and the source contributes nothing.
parsePXFIdentities(file) == {file.keys[n] : n \in DOMAIN file.keys}

Contributes(source, ids) ==
  IF Malformed \in ids THEN faults' = faults \cup {source} /\ UNCHANGED identities
  ELSE \E order \in SetToSeqs(ids) : identities' = identities \o order /\ UNCHANGED faults

\* A private key with a passphrase: its public key must be known, and no command may print it.
parseSSHIdentity(source) ==
  LET c == env[source] IN
    IF c.kind = "ssh" \/ (c.kind = "locked" /\ c.known /\ source # "ssh cmd") THEN <<c>> ELSE <<>>

loadAgeSSHIdentities ==
  /\ stage = "ssh"
  /\ identities' = parseSSHIdentity("ssh file") \o parseSSHIdentity("ssh cmd")
                     \o parseSSHIdentity("id_ed25519") \o parseSSHIdentity("id_rsa")
  /\ faults' = {s \in SshSources : env[s] # Unset /\ parseSSHIdentity(s) = <<>>}
  /\ stage' = "key file"
  /\ UNCHANGED <<env, asked, recipient, readers, opened>>

\* Mistake: the first error ends the walk.
loadSourceOrStop(source, next) ==
  LET c == env[source] IN
    /\ stage = source
    /\ \/ c = Unset /\ UNCHANGED <<identities, faults, readers>>
       \/ c \in {Broken, Missing} /\ faults' = faults \cup {source} /\ UNCHANGED <<identities, readers>>
       \/ c.kind = "pxf" /\ Contributes(source, parsePXFIdentities(c)) /\ UNCHANGED readers
       \/ /\ c.kind \in {"lines", "sealed"}
          /\ readers' = readers \cup {source} /\ UNCHANGED <<identities, faults>>
    /\ stage' = IF faults' # faults THEN "read" ELSE next
    /\ UNCHANGED <<env, asked, recipient, opened>>

\* PXF is parsed at once, other text is left to a reader.
loadSource(source, next) ==
  LET c == env[source] IN
    /\ stage = source
    /\ stage' = next
    /\ \/ c = Unset /\ UNCHANGED <<identities, faults, readers>>
       \/ c \in {Broken, Missing} /\ faults' = faults \cup {source} /\ UNCHANGED <<identities, readers>>
       \/ c.kind = "pxf" /\ Contributes(source, parsePXFIdentities(c)) /\ UNCHANGED readers
       \/ /\ c.kind \in {"lines", "sealed"}
          /\ readers' = readers \cup {source} /\ UNCHANGED <<identities, faults>>
    /\ UNCHANGED <<env, asked, recipient, opened>>

\* The default file is PXF or an error.
loadDefault ==
  LET c == env["default"] IN
    /\ stage = "default"
    /\ stage' = "read"
    /\ CASE c = Unset -> UNCHANGED <<identities, faults>>
         [] c.kind = "pxf" -> Contributes("default", parsePXFIdentities(c))
         [] OTHER -> faults' = faults \cup {"default"} /\ UNCHANGED identities
    /\ UNCHANGED <<env, asked, recipient, readers, opened>>

\* The readers are the entries of a Go map: they are read in any order.
unwrapIdentities(source) ==
  LET c == env[source] IN
    /\ stage = "read" /\ source \in readers
    /\ readers' = readers \ {source}
    /\ IF c.kind = "sealed" THEN identities' = Append(identities, c) /\ UNCHANGED faults
       ELSE Contributes(source, c.secrets)
    /\ UNCHANGED <<env, asked, stage, recipient, opened>>

loadIdentities ==
  \/ loadSource("key file", "key") \/ loadSource("key", "key cmd")
  \/ loadSource("key cmd", "default") \/ loadDefault
  \/ \E source \in readers : unwrapIdentities(source)

-----------------------------------------------------------------------------
(***************************************************************************)
(* Opening                                                                 *)
(***************************************************************************)
Fits(id) == IF id.kind = "sealed" THEN recipient \in id.recipients ELSE recipient = id.recipient

\* A passphrase is asked for a key file before it is known whether it fits, and for an SSH key
\* only when it does; a plugin is always started.
Unwrap(id) ==
  LET fails == /\ id.kind \in {"plugin", "sealed"} \/ (id.kind = "locked" /\ Fits(id))
               /\ ~id.works
  IN IF fails THEN "error" ELSE IF Fits(id) THEN "opens" ELSE "incorrect"

\* The library tries native identities first, and those of one kind in the order given.
TriedBefore(i, j) ==
  LET native(k) == identities[k].kind = "native"
  IN IF native(i) <=> native(j) THEN i < j ELSE native(i)

\* The first identity that opens the key or fails decides.
AgeDecrypt ==
  \E i \in DOMAIN identities :
    /\ Unwrap(identities[i]) = "opens"
    /\ \A j \in DOMAIN identities : TriedBefore(j, i) => Unwrap(identities[j]) = "incorrect"

decryptInternal ==
  /\ stage = "read" /\ readers = {}
  /\ opened' = AgeDecrypt
  /\ stage' = IF opened' THEN "opened" ELSE IF identities = <<>> THEN "no identities" ELSE "failed"
  /\ UNCHANGED <<env, asked, recipient, identities, faults, readers>>

-----------------------------------------------------------------------------
AgeStart ==
  /\ stage = "recipient" /\ recipient = NoRecipient
  /\ identities = <<>> /\ faults = {} /\ readers = {} /\ opened = FALSE

AgeInit == env \in Environments /\ asked \in Asks /\ AgeStart

AgeNext ==
  ChooseRecipient \/ encryptInternal \/ loadAgeSSHIdentities \/ loadIdentities \/ decryptInternal

AgeSpec == AgeInit /\ [][AgeNext]_ageVars

-----------------------------------------------------------------------------
(***************************************************************************)
(* Properties                                                              *)
(***************************************************************************)
AgeOver == stage \in {"refused", "opened", "no identities", "failed"}
StaysClosed == stage \in {"no identities", "failed"}

AgeTypeOK ==
  /\ DOMAIN env = Sources /\ asked \in Asks /\ opened \in BOOLEAN
  /\ stage \in {"recipient", "encrypt", "ssh", "key file", "key", "key cmd", "default", "read",
                "refused", "opened", "no identities", "failed"}
  /\ recipient \in Recipients \cup {Malformed, NoRecipient}
  /\ faults \subseteq Sources /\ readers \subseteq {"key file", "key", "key cmd"}
  /\ \A i \in DOMAIN identities : identities[i].kind \in {"native", "plugin", "sealed", "ssh", "locked"}

\* "On decrypt every resolving source contributes identities to a union: any one of them can
\* decrypt the file" (README.rst:255).  A native identity, in any of the four key sources that
\* is well-formed, opens what is sealed to it, whatever the other sources hold, and in whatever
\* order they are read.
AnyNativeIdentityOpens ==
  \A s \in ToSet(PxfSources) :
    /\ StaysClosed
    /\ Malformed \notin Secrets(env[s]) /\ (s = "default" => env[s].kind # "lines")
    => Native(recipient) \notin Secrets(env[s])

\* Where a data key is sealed to the default recipient of the environment, or to one chosen by
\* name, the same environment opens it again: only another entry of the same file can prevent
\* it, because the file is read as a whole only to decrypt.
ChosenRecipientOpens ==
  asked.by # "recipient" /\ StaysClosed =>
    \E s \in ToSet(PxfSources) :
      env[s].kind = "pxf" /\ {Malformed, Native(recipient)} \subseteq Secrets(env[s])
=============================================================================
