------------------------------ MODULE TreePath ------------------------------
(***************************************************************************)
(* The tree of a document and the operations that follow a path in it:     *)
(* set, unset and Truncate of sops.go, which the commands set, unset and   *)
(* decrypt --extract apply to the decrypted tree.                          *)
(*                                                                         *)
(* A value is a record tagged with its kind.  A map is a sequence of items *)
(* (TreeBranch); a comment in a map is an item with a comment for its key. *)
(* The string of a comment is a leaf, or what the cipher makes of it.      *)
(* A component of a path is a key or an index, from 0 as on the command    *)
(* line.  What makes the program panic is a result that is not ok.         *)
(*                                                                         *)
(* Where the code descends by recursion, a function is defined on how far  *)
(* it has come: on the way down it is what the calls are given, on the way *)
(* up what they return.                                                    *)
(***************************************************************************)
EXTENDS Integers, Sequences, SequencesExt

CONSTANT MaxDepth      \* the levels of the documents considered

Key(name) == [kind |-> "key", name |-> name]
Index(at) == [kind |-> "index", at |-> at]

\* What parseTreePath makes of a component: a text, or a number of any sign.
IsComponent(c) ==
  \/ c.kind = "key" /\ c = Key(c.name)
  \/ c.kind = "index" /\ c = Index(c.at) /\ c.at \in Int

Leaf(text) == [kind |-> "leaf", text |-> text]
Comment(string) == [kind |-> "comment", string |-> string]
Null == [kind |-> "null"]
MapOf(items) == [kind |-> "map", items |-> items]
ListOf(items) == [kind |-> "list", items |-> items]
Item(key, value) == [key |-> key, value |-> value]

IsComment(v) == v.kind = "comment"
IsContainer(v) == v.kind \in {"map", "list"}
IsRemark(item) == IsComment(item.key)

-----------------------------------------------------------------------------
(***************************************************************************)
(* Places in a document, as sequences of positions                         *)
(***************************************************************************)
\* What is at a position of a container; of a comment in a map it is the comment.
Child(v, i) ==
  CASE v.kind = "list" -> v.items[i]
    [] v.kind = "map"  -> IF IsRemark(v.items[i]) THEN v.items[i].key ELSE v.items[i].value

At(v, p) ==
  LET at[d \in 0..Len(p)] == IF d = 0 THEN v ELSE Child(at[d - 1], p[d])
  IN at[Len(p)]

\* All places down to MaxDepth, and those of the leaves and comments.
Nodes(v) ==
  LET down[d \in 0..MaxDepth] ==
        IF d = 0 THEN {<<>>}
        ELSE LET above == down[d - 1]
                 lowest == {p \in above : Len(p) = d - 1 /\ IsContainer(At(v, p))}
             IN above \cup UNION {{Append(p, i) : i \in DOMAIN At(v, p).items} : p \in lowest}
  IN down[MaxDepth]

Places(v) == {p \in Nodes(v) : ~IsContainer(At(v, p)) /\ At(v, p) # Null}

\* What a tree is: a container has a sequence of values, or of items, with a key or a comment
\* for their keys; none is below MaxDepth.
IsTree(v) ==
  \A p \in Nodes(v) :
    LET w == At(v, p) IN
    IsContainer(w) =>
      /\ Len(p) < MaxDepth
      /\ w = [kind |-> w.kind, items |-> w.items] /\ w.items \in Seq(ToSet(w.items))
      /\ w.kind = "map" =>
           \A i \in DOMAIN w.items :
             /\ w.items[i] = Item(w.items[i].key, w.items[i].value)
             /\ IsRemark(w.items[i]) \/ w.items[i].key = Key(w.items[i].key.name)

-----------------------------------------------------------------------------
Failed == [ok |-> FALSE]
Found(v) == [ok |-> TRUE, value |-> v]
Updated(v, changed) == [ok |-> TRUE, value |-> v, changed |-> changed]

\* The places of a map that have the key; the first of them counts.
Having(v, key) == {i \in DOMAIN v.items : v.items[i].key = key}
First(places) == CHOOSE i \in places : \A j \in places : i <= j

\* Where set and unset find a component in a container, or 0; an index is in no map.
Position(v, component) ==
  CASE v.kind = "map"  -> IF Having(v, component) = {} THEN 0 ELSE First(Having(v, component))
    [] v.kind = "list" -> IF component.kind = "index" /\ component.at + 1 \in DOMAIN v.items
                          THEN component.at + 1 ELSE 0
    [] OTHER           -> 0

Part(v, i) == IF v.kind = "list" THEN v.items[i] ELSE v.items[i].value

\* The result of an operation on a part, put back where the part was.
PutBack(v, i, r) ==
  CASE r.ok /\ v.kind = "list" -> Updated([v EXCEPT !.items[i] = r.value], r.changed)
    [] r.ok /\ v.kind = "map"  -> Updated([v EXCEPT !.items[i].value = r.value], r.changed)
    [] OTHER                   -> Failed

\* The values that set and unset are called with, after so many components.
Reached(v, path) ==
  LET old[d \in 0..Len(path)] ==
        IF d = 0 THEN Found(v)
        ELSE IF old[d - 1].ok /\ Position(old[d - 1].value, path[d]) # 0
        THEN Found(Part(old[d - 1].value, Position(old[d - 1].value, path[d])))
        ELSE Failed
  IN old

-----------------------------------------------------------------------------
Around(component, v) ==
  IF component.kind = "index" THEN ListOf(<<v>>) ELSE MapOf(<<Item(component, v)>>)

\* valueFromPathAndLeaf: the containers for what is left of the path after so many
\* components, one in the other, with the leaf.
Chain(path, leaf) ==
  LET chain[d \in 0..Len(path)] ==
        IF d = Len(path) THEN leaf ELSE Around(path[d + 1], chain[d + 1])
  IN chain

\* A key that is not there is added; an index does not fit a map, and adds nothing.
SetInMap(v, component, rest, inner) ==
  LET i == Position(v, component) IN
  CASE i # 0 -> PutBack(v, i, inner)
    [] i = 0 /\ component.kind = "key" -> Updated(MapOf(Append(v.items, Item(component, rest))), TRUE)
    [] OTHER -> Updated(v, TRUE)

\* Mistake: the last element counts as past the end.
SetInListShort(v, component, rest, inner) ==
  CASE component.kind = "key" \/ component.at < 0 -> Failed
    [] component.kind = "index" /\ component.at >= Len(v.items) - 1 ->
         Updated(ListOf(Append(v.items, rest)), TRUE)
    [] OTHER -> PutBack(v, component.at + 1, inner)

\* An index past the end appends, wherever it points.
SetInList(v, component, rest, inner) ==
  CASE component.kind = "key" \/ component.at < 0 -> Failed
    [] component.kind = "index" /\ component.at >= Len(v.items) ->
         Updated(ListOf(Append(v.items, rest)), TRUE)
    [] OTHER -> PutBack(v, component.at + 1, inner)

\* What set makes of the value w that it has come to after d components; inner is what it makes of
\* the next.
SetAt(w, path, d, leaf, rest, inner) ==
  CASE d = Len(path) -> Updated(leaf, w # leaf)
    [] d < Len(path) /\ w.kind = "map" -> SetInMap(w, path[d + 1], rest[d + 1], inner)
    [] d < Len(path) /\ w.kind = "list" -> SetInList(w, path[d + 1], rest[d + 1], inner)
    [] OTHER -> Updated(rest[d], w # rest[d])

SetIn(v, path, leaf) ==
  LET old == Reached(v, path)
      rest == Chain(path, leaf)
      new[d \in 0..Len(path)] == SetAt(old[d].value, path, d, leaf, rest, new[d + 1])
  IN IF path = <<>> THEN Failed ELSE new[0]

-----------------------------------------------------------------------------
UnsetIn(v, path) ==
  LET old == Reached(v, path)
      new[d \in 0..(Len(path) - 1)] ==
        LET w == old[d].value
            i == Position(w, path[d + 1])
        IN CASE i = 0 -> Failed
             [] i # 0 /\ d = Len(path) - 1 -> Updated([w EXCEPT !.items = RemoveAt(@, i)], TRUE)
             [] OTHER -> PutBack(w, i, new[d + 1])
  IN IF path = <<>> THEN Failed ELSE new[0]

-----------------------------------------------------------------------------
\* Truncate.  A TreeBranch is a slice too, so that an index in a map finds an item of it.
Step(v, component) ==
  CASE component.kind = "key" ->
         IF v.kind = "map" /\ Having(v, component) # {}
         THEN Found(v.items[First(Having(v, component))].value)
         ELSE Failed
    [] component.kind = "index" /\ v.kind \in {"map", "list"}
         /\ component.at + 1 \in DOMAIN v.items ->
         Found(IF v.kind = "list" THEN v.items[component.at + 1]
               ELSE [kind |-> "item", item |-> v.items[component.at + 1]])
    [] OTHER -> Failed

Truncate(v, path) ==
  LET found[d \in 0..Len(path)] ==
        IF d = 0 THEN Found(v)
        ELSE IF found[d - 1].ok THEN Step(found[d - 1].value, path[d]) ELSE Failed
  IN found[Len(path)]
=============================================================================
