------------------------- MODULE AgeIdentitiesProofs -------------------------
(***************************************************************************)
(* Theorems about AgeIdentities, for any number of recipients and whatever *)
(* the eight sources hold.                                                 *)
(***************************************************************************)
EXTENDS AgeIdentities, FiniteSetTheorems, SequenceTheorems, WellFoundedInduction, TLAPS

-----------------------------------------------------------------------------
(***************************************************************************)
(* Orders                                                                  *)
(***************************************************************************)
\* A set of positions has a first one: of the intervals up to its members, one is in no other.
LEMMA FirstPosition ==
  ASSUME NEW n \in Nat, NEW T \in SUBSET (1..n), T # {}
  PROVE  \E i \in T : \A j \in T : i <= j
<1> DEFINE upto == {1..i : i \in T}
<1>1. IsFiniteSet(1..n)
  BY FS_Interval
<1>2. IsWellFoundedOn(StrictSubsetOrdering(1..n), SUBSET (1..n))
  BY <1>1, FS_StrictSubsetOrderingWellFounded, FS_FiniteSubsetsOfFinite
<1>3. upto \subseteq SUBSET (1..n)
  <2> SUFFICES ASSUME NEW i \in T PROVE 1..i \subseteq 1..n
    OBVIOUS
  <2> QED OBVIOUS
<1>4. upto # {}
  OBVIOUS
<1>5. PICK x \in upto : \A y \in upto : <<y, x>> \notin StrictSubsetOrdering(1..n)
  <2> HIDE DEF upto
  <2> QED BY <1>2, <1>3, <1>4, WFMin
<1>6. PICK i \in T : x = 1..i
  OBVIOUS
<1>7. ASSUME NEW j \in T, ~(i <= j) PROVE FALSE
  <2>1. 1..j \subseteq 1..i /\ 1..j # 1..i
    BY <1>7
  <2>2. 1..j \in upto /\ 1..j \in SUBSET (1..n) /\ 1..i \in SUBSET (1..n)
    OBVIOUS
  <2> QED BY <1>5, <1>6, <2>1, <2>2 DEF StrictSubsetOrdering
<1> QED BY <1>7

\* An order of a finite set is a sequence of all its elements.
LEMMA OrderHasAll ==
  ASSUME NEW S, IsFiniteSet(S), NEW order \in SetToSeqs(S)
  PROVE  order \in Seq(S) /\ ToSet(order) = S
<1> DEFINE n == Cardinality(S)
<1>1. n \in Nat
  BY FS_CardinalityType
<1>2. order \in [1..n -> S] /\ \A i, j \in 1..n : i # j => order[i] # order[j]
  BY DEF SetToSeqs
<1> HIDE DEF n
<1>3. order \in Injection(1..n, S)
  BY <1>2 DEF Injection, IsInjective
<1>4. IsFiniteSet(1..n) /\ Cardinality(1..n) = n
  BY <1>1, FS_Interval
<1>5. order \in Surjection(1..n, S)
  BY <1>3, <1>4, FS_Injection DEF n
<1>6. order \in Seq(S)
  BY <1>1, <1>2, SeqDef
<1>7. ToSet(order) = S
  BY <1>2, <1>5 DEF ToSet, Surjection
<1> QED BY <1>6, <1>7

\* What two sequences hold together.
LEMMA HeldByBoth ==
  ASSUME NEW S, NEW s \in Seq(S), NEW t \in Seq(S)
  PROVE  s \o t \in Seq(S) /\ ToSet(s \o t) = ToSet(s) \cup ToSet(t)
<1>1. Len(s) \in Nat /\ Len(t) \in Nat /\ DOMAIN s = 1..Len(s) /\ DOMAIN t = 1..Len(t)
  BY LenProperties
<1>2. /\ s \o t \in Seq(S) /\ Len(s \o t) = Len(s) + Len(t)
      /\ \A i \in 1..(Len(s) + Len(t)) : (s \o t)[i] = IF i <= Len(s) THEN s[i] ELSE t[i - Len(s)]
  BY ConcatProperties
<1>3. DOMAIN (s \o t) = 1..(Len(s) + Len(t))
  BY <1>2, LenProperties
<1>4. ASSUME NEW x \in ToSet(s) PROVE x \in ToSet(s \o t)
  <2>1. PICK i \in 1..Len(s) : x = s[i]
    BY <1>1 DEF ToSet
  <2>2. i \in 1..(Len(s) + Len(t)) /\ (s \o t)[i] = x
    BY <1>1, <1>2, <2>1
  <2> QED BY <1>3, <2>2 DEF ToSet
<1>5. ASSUME NEW x \in ToSet(t) PROVE x \in ToSet(s \o t)
  <2>1. PICK i \in 1..Len(t) : x = t[i]
    BY <1>1 DEF ToSet
  <2>2. Len(s) + i \in 1..(Len(s) + Len(t)) /\ ~(Len(s) + i <= Len(s)) /\ (Len(s) + i) - Len(s) = i
    BY <1>1
  <2>3. (s \o t)[Len(s) + i] = x
    BY <1>2, <2>1, <2>2
  <2> QED BY <1>3, <2>2, <2>3 DEF ToSet
<1>6. ASSUME NEW x \in ToSet(s \o t) PROVE x \in ToSet(s) \cup ToSet(t)
  <2>1. PICK i \in 1..(Len(s) + Len(t)) : x = (s \o t)[i]
    BY <1>3 DEF ToSet
  <2>2. CASE i <= Len(s)
    BY <1>1, <1>2, <2>1, <2>2 DEF ToSet
  <2>3. CASE ~(i <= Len(s))
    <3>1. i - Len(s) \in 1..Len(t) /\ x = t[i - Len(s)]
      BY <1>1, <1>2, <2>1, <2>3
    <3> QED BY <1>1, <3>1 DEF ToSet
  <2> QED BY <2>2, <2>3
<1> QED BY <1>2, <1>4, <1>5, <1>6

-----------------------------------------------------------------------------
(***************************************************************************)
(* Loading                                                                 *)
(***************************************************************************)
Pxf4 == {"key file", "key", "key cmd", "default"}

LEMMA PxfSourcesAre == ToSet(PxfSources) = Pxf4 /\ Pxf4 \subseteq Sources
<1>1. DOMAIN PxfSources = 1..4
  BY DEF PxfSources
<1>2. 1..4 = {1, 2, 3, 4}
  OBVIOUS
<1>3. PxfSources[1] = "key file" /\ PxfSources[2] = "key" /\ PxfSources[3] = "key cmd"
      /\ PxfSources[4] = "default"
  BY DEF PxfSources
<1>4. ToSet(PxfSources) = Pxf4
  BY <1>1, <1>2, <1>3 DEF ToSet, Pxf4
<1> QED BY <1>4 DEF Sources

Stages == {"recipient", "encrypt", "ssh", "key file", "key", "key cmd", "default", "read",
           "refused", "opened", "no identities", "failed"}
Ended == {"opened", "no identities", "failed"}

\* The stages in which a source has been looked at.
Past(s) == Ended \cup
  CASE s = "key file" -> {"key", "key cmd", "default", "read"}
    [] s = "key" -> {"key cmd", "default", "read"}
    [] s = "key cmd" -> {"default", "read"}
    [] OTHER -> {"read"}

\* What the sources may give.
Given == UNION {Secrets(env[s]) : s \in Sources}
Known == Given \cup {env[s] : s \in Sources}
IsIdentity(x) == (IsSecret(x) /\ x # Malformed) \/ x.kind \in {"sealed", "ssh", "locked"}
Usable == {x \in Known : IsIdentity(x)}

\* The source is well-formed: a default file of lines is not.
WellFormed(s) == Malformed \notin Secrets(env[s]) /\ (s = "default" => env[s].kind # "lines")

AgeTypes ==
  /\ env \in Environments /\ asked \in Asks /\ opened \in BOOLEAN /\ stage \in Stages
  /\ recipient \in Recipients \cup {Malformed, NoRecipient}
  /\ faults \subseteq Sources /\ readers \subseteq {"key file", "key", "key cmd"}
  /\ identities \in Seq(Usable)

\* Every source that was looked at has given all it holds, or waits for its reader; and the
\* source that the recipient was taken from holds its identity.
LoadInv ==
  /\ \A s \in readers : env[s].kind \in {"lines", "sealed"}
  /\ \A s \in Pxf4 : stage \in Past(s) /\ WellFormed(s) =>
       s \in readers \/ Secrets(env[s]) \subseteq ToSet(identities)
  /\ stage \in Ended => readers = {}
  /\ StaysClosed => ~AgeDecrypt
ChosenInv ==
  asked.by # "recipient" /\ stage \notin {"recipient", "refused"} =>
    \E s \in Pxf4 : env[s].kind = "pxf" /\ Native(recipient) \in Secrets(env[s])

AgeInv == AgeTypes /\ LoadInv /\ ChosenInv

LEMMA SourceIsKnown ==
  ASSUME NEW s \in Sources
  PROVE  env[s] \in Known
<1>1. env[s] \in {env[t] : t \in Sources}
  OBVIOUS
<1> QED BY <1>1 DEF Known

LEMMA NothingHeld ==
  ASSUME NEW c, c.kind \notin {"lines", "pxf"}
  PROVE  Secrets(c) = {}
BY DEF Secrets

\* A source that is contributed is either well-formed, and all of it usable, or at fault.
LEMMA ContributedIsUsable ==
  ASSUME AgeTypes, NEW s \in Sources, Contributes(s, Secrets(env[s])), env' = env
  PROVE  /\ identities' \in Seq(Usable) /\ ToSet(identities) \subseteq ToSet(identities')
         /\ Malformed \notin Secrets(env[s]) => Secrets(env[s]) \subseteq ToSet(identities')
         /\ faults' \subseteq Sources
<1> DEFINE ids == Secrets(env[s])
<1>1. IsFiniteSet(ids) /\ \A x \in ids : IsSecret(x)
  BY EnvironmentsAssumption DEF AgeTypes
<1>2. ids \subseteq Known
  BY DEF Known, Given
<1> HIDE DEF ids
<1>3. CASE Malformed \in ids
  BY <1>3 DEF Contributes, AgeTypes, ids
<1>4. CASE Malformed \notin ids
  <2>1. PICK order \in SetToSeqs(ids) : identities' = identities \o order /\ faults' = faults
    BY <1>4 DEF Contributes, ids
  <2>2. ids \subseteq Usable
    BY <1>1, <1>2, <1>4 DEF Usable, IsIdentity
  <2>3. order \in Seq(ids) /\ ToSet(order) = ids
    BY <1>1, OrderHasAll
  <2>4. order \in Seq(Usable)
    BY <2>2, <2>3, SeqMonotonic
  <2>5. identities' \in Seq(Usable) /\ ToSet(identities') = ToSet(identities) \cup ids
    <3>1. identities \in Seq(Usable)
      BY DEF AgeTypes
    <3> HIDE DEF Usable
    <3>2. /\ identities \o order \in Seq(Usable)
          /\ ToSet(identities \o order) = ToSet(identities) \cup ToSet(order)
      BY <2>4, <3>1, HeldByBoth
    <3> QED BY <2>1, <2>3, <3>2
  <2> QED BY <2>1, <2>5 DEF AgeTypes, ids
<1> QED BY <1>3, <1>4

\* Among identities that hold the native identity of the recipient, it is found: natives come
\* first, and a native one that does not fit is passed over.
LEMMA NativeOpens ==
  ASSUME AgeTypes, Native(recipient) \in ToSet(identities)
  PROVE  AgeDecrypt
<1>1. Len(identities) \in Nat /\ DOMAIN identities = 1..Len(identities)
  BY LenProperties DEF AgeTypes
<1> DEFINE T == {i \in 1..Len(identities) : identities[i] = Native(recipient)}
<1>2. T # {} /\ T \in SUBSET (1..Len(identities))
  BY <1>1 DEF ToSet
<1>3. PICK i \in T : \A j \in T : i <= j
  BY <1>1, <1>2, FirstPosition
<1>4. i \in 1..Len(identities) /\ identities[i] = Native(recipient)
  OBVIOUS
<1>5. Unwrap(identities[i]) = "opens" /\ identities[i].kind = "native"
  BY <1>4 DEF Unwrap, Fits, Native
<1>6. ASSUME NEW j \in 1..Len(identities), TriedBefore(j, i) PROVE Unwrap(identities[j]) = "incorrect"
  <2>1. identities[j].kind = "native" /\ j < i
    BY <1>5, <1>6 DEF TriedBefore
  <2>2. identities[j] # Native(recipient)
    BY <1>3, <2>1
  <2>3. identities[j] \in Usable
    BY ElementOfSeq DEF AgeTypes
  <2>4. identities[j] = Native(identities[j].recipient)
    BY <2>1, <2>3 DEF Usable, IsIdentity, IsSecret, Plugin
  <2>5. identities[j].recipient # recipient
    BY <2>2, <2>4
  <2> QED BY <2>1, <2>5 DEF Unwrap, Fits
<1> QED BY <1>1, <1>4, <1>5, <1>6 DEF AgeDecrypt

-----------------------------------------------------------------------------
(***************************************************************************)
(* The recipient                                                           *)
(***************************************************************************)
\* The walk stops at a source of the four, broken or one of those looked for.
LEMMA StopsSomewhere ==
  ASSUME NEW having, StopsAt(having) # 0
  PROVE  /\ PxfSources[StopsAt(having)] \in Pxf4
         /\ env[PxfSources[StopsAt(having)]] = Broken \/ env[PxfSources[StopsAt(having)]] \in having
<1> DEFINE stops == {i \in DOMAIN PxfSources :
                       LET c == env[PxfSources[i]] IN isPXFContent(c) /\ (c = Broken \/ c \in having)}
<1>1. stops # {} /\ StopsAt(having) = CHOOSE i \in stops : \A j \in stops : i <= j
  BY DEF StopsAt
<1>2. DOMAIN PxfSources = 1..4
  BY DEF PxfSources
<1>3. \E i \in stops : \A j \in stops : i <= j
  <2>1. stops \in SUBSET (1..4) /\ 4 \in Nat
    BY <1>2
  <2> HIDE DEF stops
  <2> QED BY <1>1, <2>1, FirstPosition
<1>4. StopsAt(having) \in stops
  <2> HIDE DEF stops
  <2> QED BY <1>1, <1>3
<1>5. PxfSources[StopsAt(having)] \in ToSet(PxfSources)
  BY <1>4 DEF ToSet
<1> QED BY <1>4, <1>5, PxfSourcesAre

\* A recipient that a key file gives is that of one of its entries.
LEMMA RecipientOfFile ==
  ASSUME NEW e \in Environments, NEW s \in Sources, e[s].kind = "pxf", NEW name,
         recipientFromAgeKeyFile(e[s], name) # Malformed
  PROVE  /\ recipientFromAgeKeyFile(e[s], name) \in Recipients
         /\ Native(recipientFromAgeKeyFile(e[s], name)) \in Secrets(e[s])
<1>1. name \in DOMAIN e[s].keys /\ recipientFromAgeKeyFile(e[s], name) = deriveRecipient(e[s].keys[name])
  BY DEF recipientFromAgeKeyFile
<1> DEFINE x == e[s].keys[name]
<1>2. x # Malformed /\ x.kind = "native" /\ deriveRecipient(x) = x.recipient
  BY <1>1 DEF deriveRecipient
<1>3. x \in Secrets(e[s])
  BY <1>1 DEF Secrets
<1> HIDE DEF x
<1>4. x = Native(x.recipient) /\ x.recipient \in Recipients
  BY <1>2, <1>3, EnvironmentsAssumption DEF IsSecret, Plugin
<1> QED BY <1>1, <1>2, <1>3, <1>4 DEF x

LEMMA ChosenFromFile ==
  ASSUME AgeTypes, NEW given,
         \/ given = DefaultRecipientFromKeyFile \/ \E name : given = RecipientFromKeyFileByName(name),
         given \notin {Malformed, NoRecipient}
  PROVE  given \in Recipients /\ \E s \in Pxf4 : env[s].kind = "pxf" /\ Native(given) \in Secrets(env[s])
<1>1. PICK having, name : /\ having \subseteq KeyFiles /\ StopsAt(having) # 0
                          /\ env[PxfSources[StopsAt(having)]] # Broken
                          /\ given = recipientFromAgeKeyFile(env[PxfSources[StopsAt(having)]], name)
  <2>1. CASE given = DefaultRecipientFromKeyFile
    <3> DEFINE having == {c \in KeyFiles : c.default # NoName}
               i == StopsAt(having)
    <3>1. /\ having \subseteq KeyFiles /\ i # 0 /\ env[PxfSources[i]] # Broken
          /\ given = recipientFromAgeKeyFile(env[PxfSources[i]], env[PxfSources[i]].default)
      BY <2>1 DEF DefaultRecipientFromKeyFile
    <3> HIDE DEF having
    <3> QED BY <3>1
  <2>2. CASE \E name : given = RecipientFromKeyFileByName(name)
    <3>1. PICK name : given = RecipientFromKeyFileByName(name)
      BY <2>2
    <3> DEFINE having == {c \in KeyFiles : name \in DOMAIN c.keys}
               i == StopsAt(having)
    <3>2. /\ having \subseteq KeyFiles /\ i # 0 /\ env[PxfSources[i]] # Broken
          /\ given = recipientFromAgeKeyFile(env[PxfSources[i]], name)
      BY <3>1 DEF RecipientFromKeyFileByName
    <3> HIDE DEF having
    <3> QED BY <3>2
  <2> QED BY <2>1, <2>2
<1> DEFINE s == PxfSources[StopsAt(having)]
<1>2. s \in Pxf4 /\ env[s] \in having
  BY <1>1, StopsSomewhere
<1>3. env[s].kind = "pxf" /\ s \in Sources
  BY <1>1, <1>2, PxfSourcesAre DEF KeyFiles
<1>4. given = recipientFromAgeKeyFile(env[s], name)
  BY <1>1
<1> HIDE DEF s
<1>5. given \in Recipients /\ Native(given) \in Secrets(env[s])
  BY <1>3, <1>4, RecipientOfFile DEF AgeTypes
<1> QED BY <1>2, <1>3, <1>5

-----------------------------------------------------------------------------
(***************************************************************************)
(* Steps                                                                   *)
(***************************************************************************)
\* Once the recipient is chosen, neither it nor what the sources hold changes.
LEMMA ChosenIsKept ==
  ASSUME ChosenInv, UNCHANGED <<env, asked, recipient>>, stage \notin {"recipient", "refused"}
  PROVE  ChosenInv'
  BY DEF ChosenInv

LEMMA ChoosingKeeps ==
  ASSUME AgeInv, ChooseRecipient
  PROVE  AgeInv'
<1>1. /\ stage = "recipient" /\ UNCHANGED <<env, asked, identities, faults, readers, opened>>
      /\ recipient' = CASE asked.by = "recipient" -> asked.key
                        [] asked.by = "name" -> RecipientFromKeyFileByName(asked.name)
                        [] OTHER -> DefaultRecipientFromKeyFile
      /\ stage' = IF recipient' \in Recipients THEN "encrypt" ELSE "refused"
  BY DEF ChooseRecipient
<1>2. AgeTypes
  BY DEF AgeInv
<1>3. CASE asked.by = "recipient"
  <2>1. recipient' = asked.key /\ asked.key \in Recipients \cup {Malformed}
    BY <1>1, <1>2, <1>3 DEF AgeTypes, Asks
  <2> QED BY <1>1, <1>2, <1>3, <2>1 DEF AgeInv, AgeTypes, LoadInv, ChosenInv, Usable, Known, Given, Stages,
               Past, Ended, StaysClosed
<1>4. CASE asked.by # "recipient"
  <2>1. \/ recipient' = DefaultRecipientFromKeyFile
        \/ \E name : recipient' = RecipientFromKeyFileByName(name)
    BY <1>1, <1>4
  <2>2. recipient' \notin {Malformed, NoRecipient} =>
          recipient' \in Recipients /\ \E s \in Pxf4 : env[s].kind = "pxf" /\ Native(recipient') \in Secrets(env[s])
    BY <1>2, <2>1, ChosenFromFile
  <2>3. recipient' \in Recipients \cup {Malformed, NoRecipient}
    BY <2>2
  <2>4. AgeTypes' /\ LoadInv'
    BY <1>1, <1>2, <2>3 DEF AgeInv, AgeTypes, LoadInv, Usable, Known, Given, Stages, Past, Ended,
       StaysClosed
  <2>5. recipient' \in Recipients => recipient' \notin {Malformed, NoRecipient}
    BY AgeAssumption
  <2>6. ChosenInv'
    BY <1>1, <2>2, <2>5 DEF ChosenInv
  <2> QED BY <2>4, <2>6 DEF AgeInv
<1> QED BY <1>3, <1>4

LEMMA EncryptingKeeps ==
  ASSUME AgeInv, encryptInternal
  PROVE  AgeInv'
<1>1. /\ stage = "encrypt" /\ stage' \in {"ssh", "refused"}
      /\ UNCHANGED <<env, asked, recipient, identities, faults, readers, opened>>
  BY DEF encryptInternal
<1>2. ChosenInv'
  BY <1>1, ChosenIsKept DEF AgeInv
<1> QED
  BY <1>1, <1>2 DEF AgeInv, AgeTypes, LoadInv, Usable, Known, Given, Stages, Past, Ended, StaysClosed

LEMMA SshKeeps ==
  ASSUME AgeInv, loadAgeSSHIdentities
  PROVE  AgeInv'
<1>1. /\ stage = "ssh" /\ stage' = "key file" /\ UNCHANGED <<env, asked, recipient, readers, opened>>
      /\ identities' = parseSSHIdentity("ssh file") \o parseSSHIdentity("ssh cmd")
                         \o parseSSHIdentity("id_ed25519") \o parseSSHIdentity("id_rsa")
      /\ faults' \subseteq SshSources
  BY DEF loadAgeSSHIdentities
<1>2. ASSUME NEW s \in SshSources PROVE parseSSHIdentity(s) \in Seq(Usable)
  <2>1. s \in Sources
    BY DEF Sources
  <2>2. env[s] \in Known
    BY <2>1, SourceIsKnown
  <2>3. CASE parseSSHIdentity(s) = <<>>
    <3> HIDE DEF Usable
    <3> QED BY <2>3, EmptySeq
  <2>4. CASE parseSSHIdentity(s) # <<>>
    <3>1. parseSSHIdentity(s) = <<env[s]>> /\ env[s].kind \in {"ssh", "locked"}
      BY <2>4 DEF parseSSHIdentity
    <3>2. env[s] \in Usable
      BY <2>2, <3>1 DEF Usable, IsIdentity
    <3> HIDE DEF Usable
    <3> QED BY <3>1, <3>2
  <2> QED BY <2>3, <2>4
<1>3. identities' \in Seq(Usable)
  <2> HIDE DEF Usable
  <2>1. {"ssh file", "ssh cmd", "id_ed25519", "id_rsa"} \subseteq SshSources
    BY DEF SshSources
  <2> QED BY <1>1, <1>2, <2>1, ConcatProperties
<1>4. ChosenInv'
  BY <1>1, ChosenIsKept DEF AgeInv
<1>5. AgeTypes'
  <2>1. Usable' = Usable
    BY <1>1 DEF Usable, Known, Given
  <2> QED BY <1>1, <1>3, <2>1 DEF AgeInv, AgeTypes, Stages, Sources
<1>6. LoadInv'
  BY <1>1 DEF AgeInv, LoadInv, Past, Ended, StaysClosed
<1> QED BY <1>4, <1>5, <1>6 DEF AgeInv

\* What a source or a reader has given stays; what it is asked for now it gives.
LEMMA GivingKeeps ==
  ASSUME AgeInv, UNCHANGED <<env, asked, recipient, opened>>, stage' \in Stages \ Ended,
         stage \notin {"recipient", "refused"} \cup Ended,
         identities' \in Seq(Usable), ToSet(identities) \subseteq ToSet(identities'),
         faults' \subseteq Sources, readers' \subseteq {"key file", "key", "key cmd"},
         \A s \in readers' : env[s].kind \in {"lines", "sealed"},
         \A s \in Pxf4 : stage' \in Past(s) /\ WellFormed(s) =>
           \/ stage \in Past(s) /\ (s \in readers => s \in readers')
           \/ s \in readers' \/ Secrets(env[s]) \subseteq ToSet(identities')
  PROVE  AgeInv'
<1>1. ChosenInv'
  BY ChosenIsKept DEF AgeInv
<1>2. AgeTypes'
  <2>1. Usable' = Usable
    BY DEF Usable, Known, Given
  <2> QED BY <2>1 DEF AgeInv, AgeTypes
<1>3. LoadInv'
  <2>1. stage' \notin Ended /\ ~StaysClosed'
    BY DEF Ended, StaysClosed
  <2>2. \A s \in Pxf4 : stage \in Past(s) /\ WellFormed(s) =>
          s \in readers \/ Secrets(env[s]) \subseteq ToSet(identities)
    BY DEF AgeInv, LoadInv
  <2>3. \A s \in Pxf4 : stage' \in Past(s) /\ WellFormed(s) =>
          s \in readers' \/ Secrets(env[s]) \subseteq ToSet(identities')
    BY <2>2
  <2>4. \A s \in Pxf4 : Past(s)' = Past(s) /\ (WellFormed(s)' <=> WellFormed(s))
    BY DEF Past, WellFormed
  <2> QED BY <2>1, <2>3, <2>4 DEF LoadInv
<1> QED BY <1>1, <1>2, <1>3 DEF AgeInv

\* Where the sources that had given all they hold still have, and the one looked at now does.
LEMMA LoadingKeeps ==
  ASSUME AgeInv, NEW source \in Sources, NEW next, loadSource(source, next),
         next \in Stages \ Ended, stage \notin {"recipient", "refused"} \cup Ended,
         source \in {"key file", "key", "key cmd"},
         \A s \in Pxf4 : next \in Past(s) => s = source \/ stage \in Past(s)
  PROVE  AgeInv'
<1>1. AgeTypes /\ LoadInv
  BY DEF AgeInv
<1>2. stage' = next /\ UNCHANGED <<env, asked, recipient, opened>>
  BY DEF loadSource
<1>3. source \notin SshSources /\ source \in Pxf4
  BY DEF SshSources, Pxf4
<1>4. /\ identities' \in Seq(Usable) /\ ToSet(identities) \subseteq ToSet(identities')
      /\ faults' \subseteq Sources /\ readers' \subseteq {"key file", "key", "key cmd"}
      /\ \A s \in readers' : env[s].kind \in {"lines", "sealed"}
      /\ readers \subseteq readers'
      /\ WellFormed(source) => source \in readers' \/ Secrets(env[source]) \subseteq ToSet(identities')
  <2>1. CASE env[source] = Unset /\ UNCHANGED <<identities, faults, readers>>
    <3>1. env[source].kind = "unset"
      <4>1. Unset.kind = "unset"
        BY DEF Unset
      <4> QED BY <2>1, <4>1
    <3>2. Secrets(env[source]) = {}
      BY <3>1, NothingHeld
    <3> QED BY <1>1, <2>1, <3>2 DEF AgeTypes, LoadInv
  <2>2. CASE env[source] \in {Broken, Missing} /\ faults' = faults \cup {source} /\ UNCHANGED <<identities, readers>>
    <3>1. env[source].kind \in {"broken", "missing"}
      <4>1. Broken.kind = "broken" /\ Missing.kind = "missing"
        BY DEF Broken, Missing
      <4> QED BY <2>2, <4>1
    <3>2. Secrets(env[source]) = {}
      BY <3>1, NothingHeld
    <3> QED BY <1>1, <2>2, <3>2 DEF AgeTypes, LoadInv
  <2>3. CASE env[source].kind = "pxf" /\ Contributes(source, parsePXFIdentities(env[source])) /\ UNCHANGED readers
    <3>1. Secrets(env[source]) = parsePXFIdentities(env[source])
      BY <2>3 DEF Secrets, parsePXFIdentities
    <3>2. /\ identities' \in Seq(Usable) /\ ToSet(identities) \subseteq ToSet(identities')
          /\ Malformed \notin Secrets(env[source]) => Secrets(env[source]) \subseteq ToSet(identities')
          /\ faults' \subseteq Sources
      BY <1>1, <1>2, <2>3, <3>1, ContributedIsUsable
    <3>3. readers' = readers
      BY <2>3
    <3> QED BY <1>1, <3>2, <3>3 DEF AgeTypes, LoadInv, WellFormed
  <2>4. CASE env[source].kind \in {"lines", "sealed"} /\ readers' = readers \cup {source} /\ UNCHANGED <<identities, faults>>
    BY <1>1, <2>4 DEF AgeTypes, LoadInv
  <2> QED BY <2>1, <2>2, <2>3, <2>4 DEF loadSource
<1>5. \A s \in Pxf4 : stage' \in Past(s) /\ WellFormed(s) =>
           \/ stage \in Past(s) /\ (s \in readers => s \in readers')
           \/ s \in readers' \/ Secrets(env[s]) \subseteq ToSet(identities')
  BY <1>2, <1>4
<1> QED BY <1>2, <1>4, <1>5, GivingKeeps

LEMMA DefaultKeeps ==
  ASSUME AgeInv, loadDefault
  PROVE  AgeInv'
<1> DEFINE c == env["default"]
<1>1. AgeTypes /\ LoadInv
  BY DEF AgeInv
<1>2. /\ stage = "default" /\ stage' = "read" /\ UNCHANGED <<env, asked, recipient, readers, opened>>
      /\ CASE c = Unset -> UNCHANGED <<identities, faults>>
           [] c.kind = "pxf" -> Contributes("default", parsePXFIdentities(c))
           [] OTHER -> faults' = faults \cup {"default"} /\ UNCHANGED identities
  BY DEF loadDefault
<1>3. "default" \in Sources
  BY PxfSourcesAre DEF Pxf4
<1>4. /\ identities' \in Seq(Usable) /\ ToSet(identities) \subseteq ToSet(identities')
      /\ faults' \subseteq Sources
      /\ WellFormed("default") => Secrets(c) \subseteq ToSet(identities')
  <2>1. CASE c = Unset
    <3>1. Secrets(c) = {}
      BY <2>1 DEF Secrets, Unset
    <3>2. UNCHANGED <<identities, faults>>
      BY <1>2, <2>1 DEF Unset
    <3> QED BY <1>1, <3>1, <3>2 DEF AgeTypes
  <2>2. CASE c # Unset /\ c.kind = "pxf"
    <3>1. Secrets(c) = parsePXFIdentities(c)
      BY <2>2 DEF Secrets, parsePXFIdentities
    <3>2. Contributes("default", Secrets(env["default"]))
      BY <1>2, <2>2, <3>1
    <3>3. env' = env
      BY <1>2
    <3> QED BY <1>1, <1>3, <3>2, <3>3, ContributedIsUsable DEF WellFormed
  <2>3. CASE c # Unset /\ c.kind # "pxf"
    <3>1. faults' = faults \cup {"default"} /\ identities' = identities
      BY <1>2, <2>3
    <3>2. WellFormed("default") => Secrets(c) = {}
      BY <2>3 DEF Secrets, WellFormed
    <3> QED BY <1>1, <1>3, <3>1, <3>2 DEF AgeTypes
  <2> QED BY <2>1, <2>2, <2>3
<1>5. \A s \in Pxf4 : stage' \in Past(s) /\ WellFormed(s) =>
           \/ stage \in Past(s) /\ (s \in readers => s \in readers')
           \/ s \in readers' \/ Secrets(env[s]) \subseteq ToSet(identities')
  <2> SUFFICES ASSUME NEW s \in Pxf4, WellFormed(s), stage' \in Past(s)
               PROVE  \/ stage \in Past(s) /\ (s \in readers => s \in readers')
                      \/ s \in readers' \/ Secrets(env[s]) \subseteq ToSet(identities')
    OBVIOUS
  <2>1. CASE s = "default"
    BY <1>4, <2>1
  <2>2. CASE s # "default"
    <3>1. stage \in Past(s)
      BY <1>2, <2>2 DEF Past, Pxf4
    <3> QED BY <1>2, <3>1
  <2> QED BY <2>1, <2>2
<1>6. /\ stage' \in Stages \ Ended /\ stage \notin {"recipient", "refused"} \cup Ended
      /\ readers' \subseteq {"key file", "key", "key cmd"}
      /\ \A s \in readers' : env[s].kind \in {"lines", "sealed"}
  BY <1>1, <1>2 DEF Stages, Ended, AgeTypes, LoadInv
<1> QED BY <1>2, <1>4, <1>5, <1>6, GivingKeeps

LEMMA ReadingKeeps ==
  ASSUME AgeInv, NEW source \in readers, unwrapIdentities(source)
  PROVE  AgeInv'
<1> DEFINE c == env[source]
<1>1. AgeTypes /\ LoadInv
  BY DEF AgeInv
<1>2. /\ stage = "read" /\ stage' = "read" /\ UNCHANGED <<env, asked, recipient, opened>>
      /\ readers' = readers \ {source}
      /\ IF c.kind = "sealed" THEN identities' = Append(identities, c) /\ UNCHANGED faults
         ELSE Contributes(source, c.secrets)
  BY DEF unwrapIdentities
<1>3. source \in Pxf4 /\ source \in Sources /\ c.kind \in {"lines", "sealed"}
  BY <1>1, PxfSourcesAre DEF AgeTypes, LoadInv, Pxf4
<1>4. /\ identities' \in Seq(Usable) /\ ToSet(identities) \subseteq ToSet(identities')
      /\ faults' \subseteq Sources
      /\ WellFormed(source) => Secrets(c) \subseteq ToSet(identities')
  <2>1. CASE c.kind = "sealed"
    <3>1. c \in Usable
      BY <1>3, <2>1, SourceIsKnown DEF Usable, IsIdentity
    <3>2. Secrets(c) = {}
      BY <2>1 DEF Secrets
    <3>3. identities' = Append(identities, c) /\ faults' = faults
      BY <1>2, <2>1
    <3>4. identities \in Seq(Usable) /\ faults \subseteq Sources
      BY <1>1 DEF AgeTypes
    <3> HIDE DEF Usable, c
    <3>5. identities' \in Seq(Usable) /\ Len(identities') = Len(identities) + 1
      BY <3>1, <3>3, <3>4, AppendProperties
    <3>6. Len(identities) \in Nat /\ DOMAIN identities = 1..Len(identities)
          /\ DOMAIN identities' = 1..(Len(identities) + 1)
      BY <3>4, <3>5, LenProperties
    <3>7. \A i \in 1..Len(identities) : identities'[i] = identities[i] /\ i \in 1..(Len(identities) + 1)
      BY <3>1, <3>3, <3>4, <3>6, AppendProperties
    <3>8. ToSet(identities) \subseteq ToSet(identities')
      BY <3>6, <3>7 DEF ToSet
    <3> QED BY <3>2, <3>3, <3>4, <3>5, <3>8
  <2>2. CASE c.kind # "sealed"
    <3>1. Secrets(c) = c.secrets
      BY <1>3, <2>2 DEF Secrets
    <3>2. Contributes(source, Secrets(env[source])) /\ env' = env
      BY <1>2, <2>2, <3>1
    <3> QED BY <1>1, <1>3, <3>2, ContributedIsUsable DEF WellFormed
  <2> QED BY <2>1, <2>2
<1>5. \A s \in Pxf4 : stage' \in Past(s) /\ WellFormed(s) =>
           \/ stage \in Past(s) /\ (s \in readers => s \in readers')
           \/ s \in readers' \/ Secrets(env[s]) \subseteq ToSet(identities')
  <2> SUFFICES ASSUME NEW s \in Pxf4, WellFormed(s), stage' \in Past(s)
               PROVE  \/ stage \in Past(s) /\ (s \in readers => s \in readers')
                      \/ s \in readers' \/ Secrets(env[s]) \subseteq ToSet(identities')
    OBVIOUS
  <2>1. CASE s = source
    BY <1>4, <2>1
  <2>2. CASE s # source
    BY <1>2, <2>2
  <2> QED BY <2>1, <2>2
<1>6. /\ stage' \in Stages \ Ended /\ stage \notin {"recipient", "refused"} \cup Ended
      /\ readers' \subseteq {"key file", "key", "key cmd"}
      /\ \A s \in readers' : env[s].kind \in {"lines", "sealed"}
  BY <1>1, <1>2 DEF Stages, Ended, AgeTypes, LoadInv
<1> QED BY <1>2, <1>4, <1>5, <1>6, GivingKeeps

\* Whether the data key opens follows from the identities and the recipient.
LEMMA SameAnswer ==
  ASSUME UNCHANGED <<identities, recipient>>
  PROVE  AgeDecrypt \in BOOLEAN /\ (AgeDecrypt' <=> AgeDecrypt)
<1>1. \A id : Fits(id)' <=> Fits(id)
  BY DEF Fits
<1>2. \A id : Unwrap(id)' = Unwrap(id)
  BY <1>1 DEF Unwrap
<1>3. \A i, j : TriedBefore(i, j)' <=> TriedBefore(i, j)
  BY DEF TriedBefore
<1> QED BY <1>2, <1>3 DEF AgeDecrypt

LEMMA OpeningKeeps ==
  ASSUME AgeInv, decryptInternal
  PROVE  AgeInv'
<1>1. /\ stage = "read" /\ readers = {} /\ opened' = AgeDecrypt
      /\ stage' = IF opened' THEN "opened" ELSE IF identities = <<>> THEN "no identities" ELSE "failed"
      /\ UNCHANGED <<env, asked, recipient, identities, faults, readers>>
  BY DEF decryptInternal
<1>2. ChosenInv'
  BY <1>1, ChosenIsKept DEF AgeInv
<1>3. AgeDecrypt \in BOOLEAN /\ (AgeDecrypt' <=> AgeDecrypt)
  BY <1>1, SameAnswer
<1>4. stage' \in Ended /\ (StaysClosed' => ~AgeDecrypt)
  BY <1>1, <1>3 DEF Ended, StaysClosed
<1>5. AgeTypes'
  <2>1. Usable' = Usable
    BY <1>1 DEF Usable, Known, Given
  <2>2. stage' \in Stages
    BY <1>4 DEF Ended, Stages
  <2>3. opened' \in BOOLEAN
    BY <1>1, <1>3
  <2> QED BY <1>1, <2>1, <2>2, <2>3 DEF AgeInv, AgeTypes
<1>6. LoadInv'
  <2>1. \A s \in Pxf4 : WellFormed(s) => Secrets(env[s]) \subseteq ToSet(identities)
    BY <1>1 DEF AgeInv, LoadInv, Past
  <2>2. \A s \in Pxf4 : WellFormed(s)' <=> WellFormed(s)
    BY <1>1 DEF WellFormed
  <2> QED BY <1>1, <1>3, <1>4, <2>1, <2>2 DEF LoadInv
<1> QED BY <1>2, <1>5, <1>6 DEF AgeInv

LEMMA StepsKeep == AgeInv /\ [AgeNext]_ageVars => AgeInv'
<1> SUFFICES ASSUME AgeInv, [AgeNext]_ageVars PROVE AgeInv'
  OBVIOUS
<1>1. CASE ChooseRecipient
  BY <1>1, ChoosingKeeps
<1>2. CASE encryptInternal
  BY <1>2, EncryptingKeeps
<1>3. CASE loadAgeSSHIdentities
  BY <1>3, SshKeeps
<1>4. CASE loadSource("key file", "key")
  <2>1. stage = "key file"
    BY <1>4 DEF loadSource
  <2> QED BY <1>4, <2>1, LoadingKeeps, PxfSourcesAre DEF Pxf4, Past, Stages, Ended
<1>5. CASE loadSource("key", "key cmd")
  <2>1. stage = "key"
    BY <1>5 DEF loadSource
  <2> QED BY <1>5, <2>1, LoadingKeeps, PxfSourcesAre DEF Pxf4, Past, Stages, Ended
<1>6. CASE loadSource("key cmd", "default")
  <2>1. stage = "key cmd"
    BY <1>6 DEF loadSource
  <2> QED BY <1>6, <2>1, LoadingKeeps, PxfSourcesAre DEF Pxf4, Past, Stages, Ended
<1>7. CASE loadDefault
  BY <1>7, DefaultKeeps
<1>8. CASE \E source \in readers : unwrapIdentities(source)
  BY <1>8, ReadingKeeps
<1>9. CASE decryptInternal
  BY <1>9, OpeningKeeps
<1>10. CASE UNCHANGED ageVars
  <2>1. /\ UNCHANGED <<env, asked, stage, recipient>> /\ UNCHANGED <<identities, faults, readers, opened>>
    BY <1>10 DEF ageVars
  <2>2. AgeDecrypt' <=> AgeDecrypt
    BY <2>1, SameAnswer
  <2>3. Usable' = Usable
    BY <2>1 DEF Usable, Known, Given
  <2>4. AgeTypes'
    BY <2>1, <2>3 DEF AgeInv, AgeTypes
  <2>5. LoadInv' /\ ChosenInv'
    BY <2>1, <2>2 DEF AgeInv, LoadInv, ChosenInv, WellFormed, StaysClosed
  <2> QED BY <2>4, <2>5 DEF AgeInv
<1> QED BY <1>1, <1>2, <1>3, <1>4, <1>5, <1>6, <1>7, <1>8, <1>9, <1>10 DEF AgeNext, loadIdentities

LEMMA StartKeeps == AgeInit => AgeInv
<1> SUFFICES ASSUME AgeInit PROVE AgeInv
  OBVIOUS
<1>1. identities \in Seq(Usable)
  <2> HIDE DEF Usable
  <2> QED BY EmptySeq DEF AgeInit, AgeStart
<1>2. AgeTypes
  BY <1>1 DEF AgeTypes, AgeInit, AgeStart, Stages
<1>3. LoadInv /\ ChosenInv
  BY DEF LoadInv, ChosenInv, AgeInit, AgeStart, Past, Ended, StaysClosed
<1> QED BY <1>2, <1>3 DEF AgeInv

-----------------------------------------------------------------------------
(***************************************************************************)
(* Theorems                                                                *)
(***************************************************************************)
\* What has been loaded, and from where the recipient came, at every stage of a call.
THEOREM AgeInvariant == AgeSpec => []AgeInv
BY StartKeeps, StepsKeep, PTL DEF AgeSpec

\* Every identity that was loaded is of a kind that is handled, and faults and readers are
\* sources.
THEOREM AgeTypeCorrect == AgeSpec => []AgeTypeOK
<1>1. AgeInv => AgeTypeOK
  <2> SUFFICES ASSUME AgeInv PROVE AgeTypeOK
    OBVIOUS
  <2>1. AgeTypes
    BY DEF AgeInv
  <2>2. ASSUME NEW i \in DOMAIN identities
        PROVE  identities[i].kind \in {"native", "plugin", "sealed", "ssh", "locked"}
    <3>1. identities[i] \in Usable
      BY <2>1, ElementOfSeq, LenProperties DEF AgeTypes
    <3> QED BY <3>1 DEF Usable, IsIdentity, IsSecret, Native, Plugin
  <2>3. DOMAIN env = Sources
    BY <2>1, EnvironmentsAssumption DEF AgeTypes
  <2> QED BY <2>1, <2>2, <2>3 DEF AgeTypeOK, AgeTypes, Stages
<1> QED BY <1>1, AgeInvariant, PTL

\* "any one of them can decrypt the file" (README.rst:255): in every environment, a native
\* identity of a well-formed source opens what is sealed to it, in whatever order the readers
\* are read and the entries of a file are listed.
THEOREM EveryNativeIdentityOpens == AgeSpec => []AnyNativeIdentityOpens
<1>1. AgeInv => AnyNativeIdentityOpens
  <2> SUFFICES ASSUME AgeInv, NEW s \in Pxf4, StaysClosed, WellFormed(s)
               PROVE  Native(recipient) \notin Secrets(env[s])
    BY PxfSourcesAre DEF AnyNativeIdentityOpens, WellFormed
  <2>1. stage \in Ended /\ stage \in Past(s)
    BY DEF StaysClosed, Ended, Past
  <2>2. readers = {} /\ ~AgeDecrypt /\ Secrets(env[s]) \subseteq ToSet(identities)
    BY <2>1 DEF AgeInv, LoadInv
  <2> QED BY <2>2, NativeOpens DEF AgeInv
<1> QED BY <1>1, AgeInvariant, PTL

\* What is sealed to a default or to a named recipient is opened by the environment that gave
\* it, unless another entry of the file it came from is malformed.
THEOREM ChosenRecipientsOpen == AgeSpec => []ChosenRecipientOpens
<1>1. AgeInv => ChosenRecipientOpens
  <2> SUFFICES ASSUME AgeInv, asked.by # "recipient", StaysClosed
               PROVE  \E s \in Pxf4 : env[s].kind = "pxf" /\ {Malformed, Native(recipient)} \subseteq Secrets(env[s])
    BY PxfSourcesAre DEF ChosenRecipientOpens
  <2>1. stage \in Ended /\ stage \notin {"recipient", "refused"}
    BY DEF StaysClosed, Ended
  <2>2. PICK s \in Pxf4 : env[s].kind = "pxf" /\ Native(recipient) \in Secrets(env[s])
    BY <2>1 DEF AgeInv, ChosenInv
  <2>3. CASE Malformed \in Secrets(env[s])
    BY <2>2, <2>3
  <2>4. CASE Malformed \notin Secrets(env[s])
    <3>1. stage \in Past(s) /\ WellFormed(s)
      BY <2>1, <2>2, <2>4 DEF Past, WellFormed
    <3>2. readers = {} /\ ~AgeDecrypt /\ Secrets(env[s]) \subseteq ToSet(identities)
      BY <2>1, <3>1 DEF AgeInv, LoadInv
    <3> QED BY <2>2, <3>2, NativeOpens DEF AgeInv
  <2> QED BY <2>3, <2>4
<1> QED BY <1>1, AgeInvariant, PTL
=============================================================================
