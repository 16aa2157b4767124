---------------------------- MODULE StoreFormat ----------------------------
(***************************************************************************)
(* The file formats (src/stores): which trees they can hold, and what a    *)
(* reader gets of a tree that was written.                                 *)
(*                                                                         *)
(* Text is not modelled: Emits says whether EmitEncryptedFile succeeds,    *)
(* and Reload gives what LoadEncryptedFile of the same format finds in the *)
(* result.  The metadata is the item `sops', written last and taken out    *)
(* when it is read.  The libraries that parse and print yaml, ini and pxf  *)
(* are taken to read a comment where the store has had it written.         *)
(* Comments behind a value on its line, keys that a format cannot spell,   *)
(* several documents in a file and the empty DEFAULT section of every ini  *)
(* file that is read are left out.                                         *)
(***************************************************************************)
EXTENDS TreePath

Formats == {"yaml", "json", "dotenv", "ini", "pxf"}

Entries(v) ==
  FlattenSeq([i \in DOMAIN v.items |-> IF IsRemark(v.items[i]) THEN <<>> ELSE <<v.items[i]>>])

\* A Boolean, which is not the text of one.
Flag == [kind |-> "bool"]

\* ValToString: a text stays what it is; what is no text is read back as some text.
Text(v) ==
  CASE v = Flag       -> Leaf("true")
    [] v = Null       -> Leaf("<nil>")
    [] IsContainer(v) -> Leaf("map[...]")
    [] OTHER          -> v

\* EmitEncryptedFile: no data under the key of the metadata; dotenv has no containers; the
\* items of an ini file are its sections.
Emits(format, v) ==
  /\ \A i \in DOMAIN v.items : v.items[i].key # Key("sops")
  /\ format = "dotenv" => \A i \in DOMAIN v.items : ~IsContainer(v.items[i].value)
  /\ format = "ini" => \A i \in DOMAIN Entries(v) : Entries(v)[i].value.kind = "map"

-----------------------------------------------------------------------------
\* The positions in a container that do not hold a comment.
Kept(v) ==
  FlattenSeq([i \in DOMAIN v.items |->
                IF IsComment(IF v.kind = "list" THEN v.items[i] ELSE v.items[i].key) THEN <<>> ELSE <<i>>])

\* json: comments are left out.  What becomes of a value, from what has become of its parts:
Bare(w, parts) ==
  LET kept == Kept(w) IN
  CASE w.kind = "map"  -> MapOf([j \in DOMAIN kept |-> Item(w.items[kept[j]].key, parts[kept[j]])])
    [] w.kind = "list" -> ListOf([j \in DOMAIN kept |-> parts[kept[j]]])
    [] OTHER -> w

Uncommented(v) ==
  LET bare[p \in Nodes(v)] ==
        Bare(At(v, p), [i \in DOMAIN At(v, p).items |-> bare[Append(p, i)]])
  IN bare[<<>>]

-----------------------------------------------------------------------------
(***************************************************************************)
(* yaml: the comments that a map or a list begins with are written above   *)
(* it.  Below a key they are read back into it; above an element of a list *)
(* they are read as comments of that list.                                 *)
(***************************************************************************)
\* How many comments a container begins with.
Beginning(v) == IF Kept(v) = <<>> THEN Len(v.items) ELSE Kept(v)[1] - 1

\* What a list has for its element e, of which m has become.
YamlElements(e, m) ==
  IF ~IsContainer(e) THEN <<m>>
  ELSE [j \in 1..Beginning(e) |-> Child(e, j)]
         \o <<[m EXCEPT !.items = SubSeq(@, Beginning(e) + 1, Len(@))]>>

\* What becomes of a value, from what has become of its parts.
YamlValue(w, parts) ==
  CASE w.kind = "map" ->
         MapOf([i \in DOMAIN w.items |->
                  IF IsRemark(w.items[i]) THEN w.items[i] ELSE Item(w.items[i].key, parts[i])])
    [] w.kind = "list" ->
         ListOf(FlattenSeq([i \in DOMAIN w.items |-> YamlElements(w.items[i], parts[i])]))
    [] OTHER -> w

Yaml(v) ==
  LET made[p \in Nodes(v)] ==
        YamlValue(At(v, p), [i \in DOMAIN At(v, p).items |-> made[Append(p, i)]])
  IN made[<<>>]

-----------------------------------------------------------------------------
\* dotenv: a line for each item, with a text for its value.
DotenvLines(v) ==
  MapOf([i \in DOMAIN v.items |->
           IF IsRemark(v.items[i]) THEN v.items[i]
           ELSE Item(v.items[i].key, Text(v.items[i].value))])

-----------------------------------------------------------------------------
\* A key takes one comment, the last of those behind it, and is read back with it behind it;
\* a comment with no key before it has no place.
IniAdded(out, item) ==
  CASE ~IsRemark(item) -> Append(out, Item(item.key, Text(item.value)))
    [] IsRemark(item) /\ out = <<>> -> out
    [] IsRemark(item) /\ out # <<>> /\ IsRemark(Last(out)) -> Append(Front(out), item)
    [] OTHER -> Append(out, item)

IniKeys(items) ==
  LET out[i \in 0..Len(items)] == IF i = 0 THEN <<>> ELSE IniAdded(out[i - 1], items[i])
  IN out[Len(items)]

\* Mistake: the first item is taken for the comment of the section, whatever it is.
IniSectionSkips(v) ==
  IF v.items = <<>> THEN v
  ELSE MapOf(SelectSeq(<<v.items[1]>>, IsRemark) \o IniKeys(Tail(v.items)))

\* The section has a comment of its own.
IniSection(v) ==
  IF v.items # <<>> /\ IsRemark(v.items[1])
  THEN MapOf(<<v.items[1]>> \o IniKeys(Tail(v.items)))
  ELSE MapOf(IniKeys(v.items))

IniSections(v) ==
  MapOf([i \in DOMAIN Entries(v) |-> Item(Entries(v)[i].key, IniSection(Entries(v)[i].value))])

-----------------------------------------------------------------------------
(***************************************************************************)
(* pxf: comments stand above an entry.  Those above the first entry are    *)
(* handed to whoever holds the entries: a block takes them above itself.   *)
(***************************************************************************)
\* Mistake: comments behind the last entry are dropped.
Dropped(entries, pending) == entries

\* They go above it.
Flushed(entries, pending) ==
  [entries EXCEPT ![Len(entries)].above = @ \o pending]

\* The entries so far and another item, of whose value m has become.
PxfAdded(w, item, m) ==
  LET entry(above) == [above |-> above, item |-> Item(item.key, m.value)]
  IN CASE IsRemark(item) -> [w EXCEPT !.pending = Append(@, item)]
       [] ~IsRemark(item) /\ w.entries = <<>> ->
            [entries |-> <<entry(m.leading)>>, leading |-> w.pending, pending |-> <<>>]
       [] OTHER ->
            [w EXCEPT !.entries = Append(@, entry(m.leading \o w.pending)), !.pending = <<>>]

LinesOf(entry) == Append(entry.above, entry.item)

\* The comments above the first entry, and all lines from there on; parts is what has become of
\* the values of the items.
PxfEntries(items, parts) ==
  LET so[i \in 0..Len(items)] ==
        IF i = 0 THEN [entries |-> <<>>, leading |-> <<>>, pending |-> <<>>]
        ELSE PxfAdded(so[i - 1], items[i], parts[i])
      end == so[Len(items)]
      entries == IF end.entries = <<>> THEN <<>> ELSE Flushed(end.entries, end.pending)
  IN [leading |-> IF end.entries = <<>> THEN end.pending ELSE end.leading,
      lines |-> FlattenSeq([i \in DOMAIN entries |-> LinesOf(entries[i])])]

\* A block in a list keeps the comments that it begins with, if there is an entry.
PxfElement(v, m) ==
  IF v.kind = "map" /\ m.value.items # <<>> THEN MapOf(m.leading \o m.value.items) ELSE m.value

\* What becomes of a value, and the comments that whoever holds it is handed, from what has
\* become of its parts.  A list has no comments.
PxfValue(w, parts) ==
  LET block == PxfEntries(w.items, parts)
      kept == Kept(w)
  IN CASE w.kind = "map"  -> [leading |-> block.leading, value |-> MapOf(block.lines)]
       [] w.kind = "list" ->
            [leading |-> <<>>,
             value |-> ListOf([j \in DOMAIN kept |-> PxfElement(w.items[kept[j]], parts[kept[j]])])]
       [] OTHER -> [leading |-> <<>>, value |-> w]

Pxf(v) ==
  LET made[p \in Nodes(v)] ==
        PxfValue(At(v, p), [i \in DOMAIN At(v, p).items |-> made[Append(p, i)]])
  IN made

\* The metadata is the last entry, so that comments at the end of the data stay there.
PxfDocument(v) ==
  LET block == PxfEntries(Append(v.items, Item(Key("sops"), Null)),
                          Append([i \in DOMAIN v.items |-> Pxf(v)[<<i>>]],
                                 [leading |-> <<>>, value |-> Null]))
  IN MapOf(Front(block.leading \o block.lines))

-----------------------------------------------------------------------------
Reload(format, v) ==
  CASE format = "yaml"   -> Yaml(v)
    [] format = "json"   -> Uncommented(v)
    [] format = "dotenv" -> DotenvLines(v)
    [] format = "ini"    -> IniSections(v)
    [] format = "pxf"    -> PxfDocument(v)

\* What the formats of plain text hold: texts, of one level in dotenv and of two in ini.
IsText(v) == ~IsContainer(v) /\ v # Null /\ v # Flag
IsTextual(format, v) ==
  LET ofTexts(w) == \A i \in DOMAIN Entries(w) : IsText(Entries(w)[i].value) IN
  CASE format = "dotenv" -> ofTexts(v)
    [] format = "ini"    -> \A i \in DOMAIN Entries(v) : ofTexts(Entries(v)[i].value)
    [] OTHER             -> TRUE
=============================================================================
