------------------------------ MODULE MCPublish ------------------------------
(***************************************************************************)
(* Small configurations, command lines and directories for Publish.        *)
(***************************************************************************)
EXTENDS Publish

\* `m' matches what is behind a marked name or comment, and the key of a binary file.
MCMatching == [p \in {DefaultSuffix, "m"} |-> IF p = "m" THEN {"m", Data} ELSE {"x_unencrypted"}]
Values == {"a", "m", "x_unencrypted"}

MasterKey(type, name, with) == [type |-> type, name |-> name, with |-> with]
age1 == MasterKey("age", "1", "")
pgp1 == MasterKey("pgp", "1", "")
kms1 == MasterKey("kms", "1", "context")
kms2 == MasterKey("kms", "1", "other context")
vault1 == MasterKey("vault", "1", "")

age2 == MasterKey("age", "2", "")
MCMasterKeys == {age1, age2, pgp1, kms1, kms2, vault1}

Group(keys, merge) == [keys |-> keys, merge |-> merge]
Merging == <<Group(<<pgp1, kms1>>, <<>>), Group(<<age1, pgp1>>, <<>>)>>
Merged == Group(<<kms1, kms2>>, Merging)
JustVault == Group(<<vault1>>, <<>>)
NoKeys == Group(<<>>, <<>>)
MCKeyGroups == ToSet(Merging) \cup {Merged, JustVault, NoKeys}

By(kind) == [k \in {kind} |-> "m"]
Both == [k \in {"encrypted_suffix", "unencrypted_regex"} |-> "m"]

Catching(regex, selector, groups, flat, threshold) ==
  [regex |-> regex, files |-> {2}, selector |-> selector, macOnly |-> FALSE, threshold |-> threshold,
   key_groups |-> groups, flat |-> flat]
All(selector) == Catching("all", selector, <<>>, <<age1, vault1, age1>>, 0)
Grouped(threshold) == Catching("all", NoSelector, <<Merged, JustVault>>, <<pgp1>>, threshold)
Hollow == Catching("all", NoSelector, <<Merged, NoKeys>>, <<pgp1>>, 0)
Other == Catching("valid", By("encrypted_regex"), <<>>, <<pgp1>>, 0)
Invalid == Catching("invalid", NoSelector, <<>>, <<pgp1>>, 0)

Cli(selector, keys) == [selector |-> selector, macOnly |-> FALSE, keys |-> keys, threshold |-> 0]

File(names, dir, base, ext, holds) ==
  [names |-> names, dir |-> dir, base |-> base, ext |-> ext, holds |-> holds]
Made(names) == <<File(names, "", "f", "yaml", Plain)>>

EncryptJobs ==
  [op : {"encrypt"}, files : {Made(Values), Made({Data})},
   cli : {Cli(NoSelector, <<>>), Cli(NoSelector, <<vault1, pgp1>>), Cli(By("encrypted_suffix"), <<>>),
          Cli(Both, <<age1>>)},
   rules : {<<>>, <<Other, All(NoSelector)>>, <<Invalid, All(NoSelector)>>, <<Other>>, <<All(Both)>>,
            <<Grouped(2)>>, <<Grouped(3)>>, <<Hollow>>}
             \cup {<<All(By(kind))>> : kind \in Sealing \cup Sparing}]

Options(selector) == Settled(selector, FALSE, <<<<age1>>>>, 0)
PackageJobs ==
  [op : {"package"}, files : {Made(Values), Made({Data})}, rules : {<<>>},
   options : {Options(s) : s \in {NoSelector, Both, By("unencrypted_regex")}}]
SameJobs ==
  [op : {"same"}, files : {Made(Values)}, rules : {<<>>},
   reference : {Encrypted(Options(s), {"a"}, "other") : s \in {NoSelector, By("encrypted_regex")}}]

RotateJobs ==
  LET held(first) == Encrypted(Settled(Default, FALSE, <<first, <<vault1, age2>>>>, 2), Values, "other")
      first == {<<age1, age2>>, <<age1, age1, age2>>, <<kms1, age1, age2, age1>>}
      unreadable == Encrypted(Settled(NoSelector, FALSE, <<<<age1, age2>>>>, 0), Values, "package")
      holds == {held(g) : g \in first} \cup {unreadable}
  IN [op : {"rotate"}, files : {<<File(Values, "", "f", "yaml", c)>> : c \in holds}, rules : {<<>>},
      add : {<<>>, <<kms2>>, <<age2>>}, remove : {<<>>, <<age1>>, <<age2, kms1>>, <<age2, vault1>>}]

Held == Encrypted(Options(Default), Values, "other")
Toward(destinations, omit, rule) == [destinations |-> destinations, omit |-> omit] @@ rule
Raw == Catching("all", NoSelector, <<>>, <<>>, 0)

Directory(second) == <<File(Values, "d", "f", "json", Held), second>>
One == <<File(Values, "d", "f", "json", Held)>>

PublishJobs ==
  LET asked(files, named, rules, recursive, yes, omit) ==
        [op |-> "publish", files |-> files, named |-> named, rules |-> rules, recursive |-> recursive,
         yes |-> yes, omit |-> omit]
      buckets == {<<Toward({"s3"}, FALSE, Raw)>>, <<Toward({"gcs"}, TRUE, All(NoSelector))>>,
                  <<Toward({"vault"}, FALSE, Raw)>>}
      second == {File(Values, "d", "f", "yaml", Held), File(Values, "e", "f", "json", Held)}
  IN {asked(Directory(s), 0, rules, TRUE, TRUE, FALSE) : s \in second, rules \in buckets}
       \cup {asked(Directory(s), 0, <<Toward({"gcs"}, FALSE, Other), Toward({"s3"}, FALSE, All(NoSelector))>>,
                 TRUE, FALSE, FALSE) : s \in second}
       \cup {asked(One, 1, <<Toward({"s3"}, FALSE, rule)>>, recursive, FALSE, TRUE) :
               recursive \in BOOLEAN, rule \in {All(By("encrypted_regex")), Hollow, Grouped(2)}}
       \cup {asked(One, 1, <<Toward(d, FALSE, Raw)>>, FALSE, TRUE, FALSE) : d \in {{}, {"s3", "vault"}}}

MCJobs == EncryptJobs \cup PackageJobs \cup SameJobs \cup RotateJobs \cup PublishJobs
=============================================================================
