---------------------------- MODULE MCTreeCipher ----------------------------
(***************************************************************************)
(* Small documents for TreeCipher: comments above an item whose value is a *)
(* leaf, a list or a map, and perhaps another item behind it; keys and     *)
(* comments that the rule marks, and others, in yaml; comments and values  *)
(* in every order, at the top, in a map or in a list, in the formats that  *)
(* give comments another place or none.                                    *)
(***************************************************************************)
EXTENDS TreeCipher

MCOn == Leaf("sops:encrypted")
MCOff == Leaf("sops:unencrypted")
note == Leaf("note")
mark == Leaf("mark")
x == Leaf("x")
y == Leaf("y")

MCMarkedNames == {"m"}
MCMarkedTexts == {mark}

UpTo(S, n) == UNION {[1..k -> S] : k \in 0..n}

Remark(string) == Item(Comment(string), Null)
Remarks == {Remark(c) : c \in {note, mark, MCOn}}
Lists == {ListOf(e) : e \in UpTo({Comment(note), Comment(mark), x}, 3) \cup UpTo({Comment(mark), x, y}, 2)}
Maps == {MapOf(c \o <<Item(Key(k), x)>>) : c \in UpTo(Remarks, 2), k \in {"a", "m"}}
          \cup {MapOf(<<Item(Key("a"), x)>> \o c \o <<Item(Key("m"), v)>>) :
                  c \in UpTo(Remarks, 1), v \in {y, ListOf(<<x, x>>)}}
Values == Lists \cup Maps \cup {x, Blank, Null}
Heads == {<<>>, <<Remark(mark)>>, <<Remark(MCOff)>>, <<Remark(MCOn), Remark(MCOff)>>}
Tails == {<<>>, <<Item(Key("b"), x)>>}

Written(in, trees) == {[format |-> in, tree |-> t] : t \in trees}

YamlTrees ==
  {MapOf(head \o <<Item(Key(k), v)>> \o tail) :
     head \in Heads, k \in {"a", "m"}, v \in Values, tail \in Tails}
    \cup {MapOf(<<Item(Key("sops"), x)>>)}

\* Comments and up to two items, in every order.
Lines ==
  {l \in UpTo({Remark(note), Remark(MCOff), Item(Key("a"), x), Item(Key("m"), Flag)}, 3) :
     \A i, j \in DOMAIN l : l[i] = l[j] => i = j \/ IsRemark(l[i])}

Flat == {MapOf(l) : l \in Lines}
Odd == {MapOf(<<Item(Key("a"), v)>>) : v \in {Blank, Null, ListOf(<<x, Comment(note), y>>)}}
InMaps == {MapOf(<<Remark(note), Item(Key("a"), MapOf(l))>> \o t) : l \in Lines, t \in Tails}
InOddMaps == {MapOf(<<Item(Key("a"), t)>>) : t \in Odd}
InList(v) == MapOf(<<Item(Key("a"), ListOf(<<v, y>>))>>)
InLists == {InList(MapOf(l)) : l \in Lines}

\* yaml reads no element that has comments only.
YamlLists ==
  {InList(MapOf(l)) : l \in {l \in Lines : l = <<>> \/ \E i \in DOMAIN l : ~IsRemark(l[i])}}
    \cup {InList(ListOf(<<c, x>>)) : c \in {Comment(note), Comment(MCOff)}}

MCDocuments ==
  UNION {Written("yaml", YamlTrees \cup YamlLists), Written("json", Odd \cup InMaps),
         Written("dotenv", Flat \cup Odd), Written("ini", InMaps \cup InOddMaps),
         Written("pxf", Flat \cup Odd \cup InMaps \cup InLists)}

MCYamlDocuments == Written("yaml", YamlTrees)

\* Directives at the top of a block of pxf, where comments stand above an entry, and of a map or
\* a list that is an element of a list of yaml.
Complete(l) == l = <<>> \/ ~IsRemark(Last(l))
MCNestedDocuments ==
  Written("pxf", {MapOf(<<Item(Key("a"), MapOf(l))>>) : l \in {l \in Lines : Complete(l)}})
    \cup Written("yaml", YamlLists)

\* A comment, and a directive above a value that it alone leaves in the clear.
MCDotenvDocuments ==
  Written("dotenv", {MapOf(<<Remark(note), Item(Key("m"), x), Remark(MCOff), Item(Key("a"), y)>>)})

Rule(names, comments, macOnly) == [names |-> names, comments |-> comments, macOnly |-> macOnly]
MCRules ==
  {Rule(n, "none", FALSE) : n \in {"none", "marked", "unmarked"}} \cup {Rule("marked", "none", TRUE)}
    \cup {Rule("none", c, FALSE) : c \in {"marked", "unmarked"}} \cup {Rule("none", "marked", TRUE)}

MCUnmarked == {Rule("unmarked", "none", FALSE)}

SetTo(path, value) == [op |-> "set", path |-> path, value |-> value]
MCEdits ==
  {SetTo(<<Key("b")>>, y), SetTo(<<Key("a")>>, x), SetTo(<<Key("a"), Index(1)>>, y),
   SetTo(<<Key("m"), Key("c"), Index(0)>>, x),
   [op |-> "unset", path |-> <<Key("m"), Index(0)>>],
   [op |-> "unset", path |-> <<Key("a")>>]}
=============================================================================
