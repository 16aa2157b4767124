----------------------------- MODULE MCSubcommands -----------------------------
(***************************************************************************)
(* Small environments for the parts.                                      *)
(***************************************************************************)
EXTENDS Subcommands, MCPublish

CONSTANTS k1, k2, s1, p1,  \* age recipients: native, SSH and of a plugin
          n1, n2,          \* names of entries
          c1, c2,          \* clients of the key service
          v0, v1           \* the values before an edit, and others

MCRecipients == {k1, k2, s1, p1}

LinesContents == {Lines({Native(k1)}), Lines({Native(k2), Malformed}), Lines({Plugin(p1, FALSE), Native(k2)})}
SealedContents == {SealedFile({k1}, TRUE), SealedFile({k2}, FALSE)}
PxfContents == {
  Pxf(n1 :> Native(k1) @@ n2 :> Malformed, n1),
  Pxf(n1 :> Native(k2) @@ n2 :> Plugin(p1, FALSE), NoName),
  Pxf(n1 :> Native(k2) @@ n2 :> Native(k1), n2),
  Pxf(n1 :> Plugin(p1, TRUE) @@ n2 :> Native(k1), n2)}
SshContents == {Ssh(s1), LockedSsh(s1, TRUE, FALSE), LockedSsh(s1, FALSE, TRUE), Broken}

ContentsOf(source) ==
  CASE source \in SshSources -> SshContents
    [] source = "default" -> PxfContents \cup {Broken, Lines({Native(k1)})}
    [] source = "key file" -> {Broken, Missing} \cup PxfContents \cup LinesContents \cup SealedContents
    [] OTHER -> PxfContents \cup LinesContents \cup SealedContents \cup {Broken}

NothingSet == [s \in Sources |-> Unset]

\* Any two sources are set, each to anything it may hold.
MCEnvironments ==
  LET used == Sources \ {"ssh cmd", "id_rsa"}
      sets(s, t) == {[NothingSet EXCEPT ![s] = c, ![t] = d] : c \in ContentsOf(s), d \in ContentsOf(t)}
  IN {NothingSet} \cup UNION {sets(s, t) : s \in used, t \in used}

(***************************************************************************)
(* Both clients use the same master key, or one of them a key of no type.  *)
(***************************************************************************)
Host == [pubring |-> TRUE, secring |-> "key", gpg |-> TRUE, prompt |-> FALSE,
         allowlist |-> {"v"}, token |-> "file", google |-> "inline"]
Key(t) == [type |-> t, id |-> 1, with |-> {}, role |-> FALSE, valid |-> TRUE,
           version |-> IF t = "azure" THEN 0 ELSE 1]
Misnamed(t) == [Key(t) EXCEPT !.valid = FALSE]
VaultAt(address) == [Key("vault") EXCEPT !.with = {address}]
KmsInRole == [Key("kms") EXCEPT !.with = {"context"}, !.role = TRUE]

Pair(host1, k, l) == [host |-> host1, keys |-> c1 :> k @@ c2 :> l]
Keyrings == {[Host EXCEPT !.pubring = pub, !.secring = sec, !.gpg = prog] :
               pub \in BOOLEAN, sec \in {"key", "locked", "absent"}, prog \in BOOLEAN}

MCSetups ==
  {Pair(Host, k, k) : k \in {Key("azure"), KmsInRole, Key("hckms")}}
    \cup {Pair(Host, k, Key("none")) : k \in {Misnamed("kms"), VaultAt("v"), VaultAt("w"), Key("gcp"),
                                            Misnamed("gcp"), Misnamed("hckms")}}
    \cup {Pair(h, Key("pgp"), Key("none")) : h \in Keyrings}
    \cup {Pair([Host EXCEPT !.token = "unreadable", !.google = "unreadable"], Key("gcp"), VaultAt("v"))}
    \cup {Pair([Host EXCEPT !.prompt = TRUE], Key("age"), Key("age"))}
=============================================================================
