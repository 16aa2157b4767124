----------------------------- MODULE TreeCipher -----------------------------
(***************************************************************************)
(* Encryption of a document: the walk over its tree, the decision which    *)
(* values and comments are encrypted, the MAC and the stash of IVs         *)
(* (sops.go, aes/cipher.go, EncryptTree and DecryptTree of cmd/sops/common *)
(* and the set and unset commands between a decryption and an encryption). *)
(* Between the two the tree is written in some format and read again.      *)
(*                                                                         *)
(* A ciphertext is the record of what it was made from: the value, the     *)
(* path that is its additional data, and the IV.  Decryption gives the     *)
(* value with its type, as the conversions of the cipher do, if the path   *)
(* is the same.  An IV is named by the encryption and the place in it      *)
(* where it was drawn.  A MAC is the sequence of the values in the hash.   *)
(* A path is the sequence of the names of its keys; the code joins them    *)
(* with a colon, so that keys with a colon in them, which may give two     *)
(* places the same path, are left out.                                     *)
(*                                                                         *)
(* A call of walkValue is named by the place p of its value in the         *)
(* document v: Context(v, p) is what it is given besides, Walk what the    *)
(* calls return.  A comment on the stack is named by its place.            *)
(***************************************************************************)
EXTENDS StoreFormat, FiniteSets

CONSTANTS
  Documents,      \* the trees to begin with, each with the format it is written in
  Rules,          \* the metadata that decides what is encrypted
  Edits,          \* what the user may do to an open document
  MarkedNames,    \* the keys that the suffix or the regex of a rule matches
  MarkedTexts,    \* the comments that the regex of a rule matches
  On, Off,        \* the directives sops:encrypted and sops:unencrypted
  MaxRounds       \* encryptions of one document

VARIABLES
  phase,          \* "plain", "stored", "open", "refused" when the format cannot hold the
                  \* document, or "failed" when it cannot be decrypted
  format,         \* of the file
  rule,           \* [names, comments : "none", "marked" or "unmarked", macOnly : BOOLEAN]
  tree,           \* the decrypted document
  file,           \* the encrypted one: the tree that was written and its MAC
  stash,          \* the IVs the cipher found when it decrypted
  round,          \* encryptions so far
  tangled,        \* a comment of a list has been encrypted
  lossy,          \* a format has not kept an encrypted tree
  last            \* the document before and after the last edit, the encrypted tree before
                  \* it, and the edit

cipherVars == <<phase, format, rule, tree, file, stash, round, tangled, lossy, last>>

ASSUME TreeAssumption ==
  /\ MaxDepth \in Nat /\ MaxRounds \in Nat
  /\ \A d \in Documents : d.format \in Formats /\ IsTree(d.tree) /\ d.tree.kind = "map"
  /\ \A r \in Rules : /\ r.names \in {"none", "marked", "unmarked"}
                      /\ r.comments \in {"none", "marked", "unmarked"}
                      /\ r.names = "none" \/ r.comments = "none"

\* A ciphertext is neither a directive nor matched by the regex of a rule.
ASSUME TextAssumption == \A text \in {On, Off} \cup MarkedTexts : text.kind = "leaf"

-----------------------------------------------------------------------------
(***************************************************************************)
(* What the walk brings to a place                                         *)
(***************************************************************************)
\* The comments that are on the stack behind each position of the container w, which is at h: a
\* comment joins those right before it; anything else ends them.
Active(w, h) ==
  LET active[i \in 0..Len(w.items)] ==
        IF i = 0 \/ ~IsComment(Child(w, i)) THEN <<>> ELSE Append(active[i - 1], Append(h, i))
  IN active

\* Those for a position: the comments right before it; a comment is among them itself.
Above(w, h, i) == IF IsComment(Child(w, i)) THEN Active(w, h)[i] ELSE Active(w, h)[i - 1]

\* The path and the comments for a value, from those for its container.
Inside(c, w, h, i) ==
  [path |-> IF w.kind = "map" /\ ~IsRemark(w.items[i]) THEN Append(c.path, w.items[i].key.name)
            ELSE c.path,
   comments |-> c.comments \o Above(w, h, i)]

Context(v, p) ==
  LET context[d \in 0..Len(p)] ==
        IF d = 0 THEN [path |-> <<>>, comments |-> <<>>]
        ELSE LET h == SubSeq(p, 1, d - 1) IN Inside(context[d - 1], At(v, h), h, p[d])
  IN context[Len(p)]

Path(v, p) == Context(v, p).path
String(v, p) == At(v, p).string

-----------------------------------------------------------------------------
(***************************************************************************)
(* What is encrypted                                                       *)
(***************************************************************************)
Directive(text) == text \in {On, Off}

\* The suffix and regex rules on names: with "marked" only what is below a marked name is
\* encrypted, with "unmarked" what is not.
ByName(meta, path) ==
  LET below == \E i \in DOMAIN path : path[i] \in MarkedNames IN
  CASE meta.names = "none"     -> TRUE
    [] meta.names = "marked"   -> below
    [] meta.names = "unmarked" -> ~below

ByComment(meta, path, texts) ==
  LET found == \E i \in DOMAIN texts : texts[i] \in MarkedTexts IN
  CASE meta.comments = "none"     -> ByName(meta, path)
    [] meta.comments = "marked"   -> found
    [] meta.comments = "unmarked" -> ByName(meta, path) /\ ~found

\* Mistake: the first directive in scope has the last word.
ByFirstDirective(meta, path, texts) ==
  LET directives == {i \in DOMAIN texts : Directive(texts[i])} IN
  IF directives = {} THEN ByComment(meta, path, texts) ELSE texts[Min(directives)] = On

\* The last directive in scope has the last word.
ByDirective(meta, path, texts) ==
  LET directives == {i \in DOMAIN texts : Directive(texts[i])} IN
  IF directives = {} THEN ByComment(meta, path, texts) ELSE texts[Max(directives)] = On

\* Mistake: a comment counts for itself.
InScopeItself(v, p, comments) == [i \in DOMAIN comments |-> String(v, comments[i])]

\* The texts of the comments in scope; a comment, the last of them, does not count for itself.
InScope(v, p, comments) ==
  LET others == IF IsComment(At(v, p)) THEN Front(comments) ELSE comments
  IN [i \in DOMAIN others |-> String(v, others[i])]

\* Mistake: directives are encrypted like other comments.
DirectivesToo(meta, v, p) ==
  LET c == Context(v, p)
  IN /\ IsComment(At(v, p)) => meta.comments = "marked"
     /\ ByDirective(meta, c.path, InScope(v, p, c.comments))

\* shouldBeEncrypted: comments only when a rule asks for it, directives never.
ShouldBeEncrypted(meta, v, p) ==
  LET c == Context(v, p)
  IN /\ IsComment(At(v, p)) => meta.comments = "marked" /\ ~Directive(String(v, p))
     /\ ByDirective(meta, c.path, InScope(v, p, c.comments))

-----------------------------------------------------------------------------
(***************************************************************************)
(* The cipher                                                              *)
(***************************************************************************)
Blank == Leaf("")
Empty(v) == v \in {Blank, Comment(Blank)}

\* A cipher that encrypts has a stash; it belongs to one encryption.
Encrypting(found, n) == [encrypts |-> TRUE, stash |-> found, round |-> n]
Decrypting == [encrypts |-> FALSE]

Sealed(v, path, iv) == [kind |-> "sealed", of |-> v, path |-> path, iv |-> iv]

\* Mistake: the stash is not looked into.
IVAlwaysNew(cipher, v, path, p) == <<cipher.round, p>>

\* The IV that was found with this value at this path, or a new one.
IVFor(cipher, v, path, p) ==
  LET found == {s \in cipher.stash : s.value = v /\ s.path = path}
  IN IF found = {} THEN <<cipher.round, p>> ELSE (CHOOSE s \in found : TRUE).iv

CipherEncrypt(cipher, v, path, p) ==
  IF Empty(v) THEN Blank ELSE Sealed(v, path, IVFor(cipher, v, path, p))

\* Only what was sealed at this path, or is empty, can be decrypted.
Opens(c, path) == c = Blank \/ (c.kind = "sealed" /\ c.path = path)
CipherDecrypt(c) == IF c = Blank THEN Blank ELSE c.of

\* A map from values and paths: the ciphertext found last takes the place of those before.
Stashed(opened) ==
  LET same(c, d) == c.of = d.of /\ c.path = d.path
      final == {i \in DOMAIN opened : \A j \in (i + 1)..Len(opened) : ~same(opened[i], opened[j])}
  IN {[value |-> opened[i].of, path |-> opened[i].path, iv |-> opened[i].iv] : i \in final}

-----------------------------------------------------------------------------
(***************************************************************************)
(* The walk                                                                *)
(***************************************************************************)
\* Comments, and the empty bytes, do not count.
Hashed(meta, v, encrypted) ==
  IF IsComment(v) \/ v = Blank \/ (meta.macOnly /\ ~encrypted) THEN <<>> ELSE <<v>>

\* What is hashed is what is given, before it is encrypted.
EncryptLeaf(meta, v, p, cipher) ==
  LET encrypted == ShouldBeEncrypted(meta, v, p)
  IN [value |-> IF encrypted THEN CipherEncrypt(cipher, At(v, p), Path(v, p), p) ELSE At(v, p),
      hash |-> Hashed(meta, At(v, p), encrypted), opened |-> <<>>, ok |-> TRUE]

\* What is hashed is what is decrypted.  A comment that cannot be decrypted is taken for one that
\* is in the clear.
DecryptLeaf(meta, v, p) ==
  LET c == At(v, p)
      isComment == IsComment(c)
      sealed == IF isComment THEN c.string ELSE c
      encrypted == ShouldBeEncrypted(meta, v, p)
      opens == Opens(sealed, Path(v, p))
      kept == [value |-> c, hash |-> Hashed(meta, c, encrypted), opened |-> <<>>, ok |-> TRUE]
  IN CASE ~encrypted \/ (~opens /\ isComment) -> kept
       [] encrypted /\ opens ->
            [value |-> CipherDecrypt(sealed), ok |-> TRUE,
             hash |-> Hashed(meta, CipherDecrypt(sealed), encrypted),
             opened |-> IF sealed = Blank THEN <<>> ELSE <<sealed>>]
       [] OTHER -> [kept EXCEPT !.ok = FALSE]

OnLeaf(meta, v, p, cipher) ==
  IF cipher.encrypts THEN EncryptLeaf(meta, v, p, cipher) ELSE DecryptLeaf(meta, v, p)

\* What becomes of the items of a map and the elements of a list: a comment of a map stays one,
\* with the string that it has become; one of a list is an element like any other.
Replaced(w, i, new) ==
  CASE w.kind = "list" -> new
    [] w.kind = "map" /\ ~IsRemark(w.items[i]) -> [w.items[i] EXCEPT !.value = new]
    [] OTHER -> [w.items[i] EXCEPT !.key = IF IsComment(new) THEN new ELSE Comment(new)]

NewValues(meta, v, cipher) ==
  LET new[p \in Nodes(v)] ==
        LET w == At(v, p) IN
        CASE IsContainer(w) ->
               [w EXCEPT !.items = [i \in DOMAIN w.items |-> Replaced(w, i, new[Append(p, i)])]]
          [] w = Null -> w
          [] OTHER    -> OnLeaf(meta, v, p, cipher).value
  IN new

\* The places of the leaves below each place, in the order of the walk.
LeavesBelow(v) ==
  LET below[p \in Nodes(v)] ==
        LET w == At(v, p) IN
        CASE IsContainer(w) -> FlattenSeq([i \in DOMAIN w.items |-> below[Append(p, i)]])
          [] w = Null -> <<>>
          [] OTHER    -> <<p>>
  IN below

\* The new tree, what was hashed and what was decrypted on the way, whether all was well, and
\* whether a comment has become something else.
Walk(meta, v, cipher) ==
  LET leaves == LeavesBelow(v)[<<>>]
      new == NewValues(meta, v, cipher)[<<>>]
      on(i) == OnLeaf(meta, v, leaves[i], cipher)
  IN [value |-> new,
      hash |-> FlattenSeq([i \in DOMAIN leaves |-> on(i).hash]),
      opened |-> FlattenSeq([i \in DOMAIN leaves |-> on(i).opened]),
      ok |-> \A i \in DOMAIN leaves : on(i).ok,
      tangled |-> \E p \in Places(v) : IsComment(At(v, p)) /\ ~IsComment(At(new, p))]

Mac(meta, w) == [macOnly |-> meta.macOnly, values |-> w.hash]

-----------------------------------------------------------------------------
(***************************************************************************)
(* Commands                                                                *)
(***************************************************************************)
NoEdit == [op |-> "none"]

CipherInit ==
  /\ phase = "plain" /\ rule \in Rules
  /\ \E d \in Documents : format = d.format /\ tree = d.tree
  /\ file = [tree |-> Null] /\ stash = {} /\ round = 0 /\ tangled = FALSE /\ lossy = FALSE
  /\ last = [before |-> tree, after |-> tree, sealed |-> Null, edit |-> NoEdit, changed |-> TRUE]

\* The encrypted document w is written, if the format can hold it.
Stored(w) ==
  IF Emits(format, w.value)
  THEN /\ phase' = "stored" /\ round' = round + 1
       /\ file' = [tree |-> w.value, mac |-> Mac(rule, w)]
       /\ tangled' = (tangled \/ w.tangled)
  ELSE phase' = "refused" /\ UNCHANGED <<file, round, tangled>>

EncryptTree ==
  /\ phase = "plain" /\ round < MaxRounds
  /\ Stored(Walk(rule, tree, Encrypting(stash, round)))
  /\ UNCHANGED <<format, rule, tree, stash, lossy, last>>

\* The format has kept the encrypted tree as it was.
ReadsAsWritten == Reload(format, file.tree) = file.tree

\* The decrypted document w is open, if all of it could be decrypted and the MAC fits.
Opened(w) ==
  IF w.ok /\ file.mac = Mac(rule, w)
  THEN phase' = "open" /\ tree' = w.value /\ stash' = Stashed(w.opened)
  ELSE phase' = "failed" /\ UNCHANGED <<tree, stash>>

\* A new process, with a new cipher, reads the file, decrypts and compares the MAC.
DecryptTree ==
  /\ phase = "stored"
  /\ Opened(Walk(rule, Reload(format, file.tree), Decrypting))
  /\ lossy' = (lossy \/ ~ReadsAsWritten)
  /\ UNCHANGED <<format, rule, file, round, tangled, last>>

Edited(edit, document, changed) ==
  /\ tree' = document
  /\ last' = [before |-> tree, after |-> document, sealed |-> Reload(format, file.tree),
              edit |-> edit, changed |-> changed]
  /\ phase' = "plain"
  /\ UNCHANGED <<format, rule, file, stash, round, tangled, lossy>>

\* `sops set'; a value that is there already is set again.
Set(edit) ==
  /\ phase = "open" /\ edit.op = "set"
  /\ LET r == SetIn(tree, edit.path, edit.value)
     IN r.ok /\ Edited(edit, r.value, r.changed)

Unset(edit) ==
  /\ phase = "open" /\ edit.op = "unset"
  /\ LET r == UnsetIn(tree, edit.path)
     IN r.ok /\ Edited(edit, r.value, r.changed)

\* No document becomes deeper than MaxDepth.
CipherNext ==
  \/ EncryptTree
  \/ DecryptTree /\ IsTree(Reload(format, file.tree)) /\ IsTree(tree')
  \/ (\E e \in Edits : Set(e) \/ Unset(e)) /\ IsTree(tree')

CipherSpec == CipherInit /\ [][CipherNext]_cipherVars

-----------------------------------------------------------------------------
(***************************************************************************)
(* What is to be encrypted, said of a place alone                          *)
(***************************************************************************)
\* The components of the path to a place.
Component(v, i) ==
  IF v.kind = "list" THEN Index(i - 1) ELSE v.items[i].key
Components(v, p) == [d \in DOMAIN p |-> Component(At(v, SubSeq(p, 1, d - 1)), p[d])]

\* The places of the comments right above a place or one of those it lies in.
Governing(v, p) ==
  LET holder(d) == SubSeq(p, 1, d - 1)
      right(d, j) == \A k \in j..(p[d] - 1) : IsComment(Child(At(v, holder(d)), k))
  IN UNION {{Append(holder(d), j) : j \in {j \in 1..(p[d] - 1) : right(d, j)}} : d \in DOMAIN p}

Closer(q, r) == Len(q) > Len(r) \/ (Len(q) = Len(r) /\ Last(q) >= Last(r))

\* The closest directive decides, in every format that keeps comments, and without one the rule;
\* comments are the policy of shouldBeEncrypted: in the clear, unless the rule has an
\* encrypted_comment_regex.
Meant(v, p) ==
  LET above == Governing(v, p)
      string(q) == At(v, q).string
      directives == {q \in above : Directive(string(q))}
      closest == CHOOSE q \in directives : \A r \in directives : Closer(q, r)
      marked == \E q \in above : string(q) \in MarkedTexts
      named == \E d \in DOMAIN p : Components(v, p)[d] \in {Key(name) : name \in MarkedNames}
  IN /\ IsComment(At(v, p)) => rule.comments = "marked" /\ ~Directive(string(p))
     /\ IF directives # {} THEN string(closest) = On
        ELSE /\ rule.names = "marked" => named
             /\ rule.names = "unmarked" => ~named
             /\ rule.comments = "marked" => marked
             /\ rule.comments = "unmarked" => ~marked

IsSealed(v) == v.kind = "sealed" \/ (IsComment(v) /\ v.string.kind = "sealed")
IsPlain(v) == IsTree(v) /\ \A p \in Places(v) : ~IsSealed(At(v, p))

\* Neither the documents to begin with nor the values that are set hold a ciphertext already.
ASSUME PlainAssumption ==
  /\ \A d \in Documents : IsPlain(d.tree)
  /\ \A e \in Edits :
       /\ e.op \in {"set", "unset"} /\ (e.op = "set" => IsPlain(e.value))
       /\ e.path \in Seq(ToSet(e.path)) /\ \A d \in DOMAIN e.path : IsComponent(e.path[d])

-----------------------------------------------------------------------------
(***************************************************************************)
(* Properties                                                              *)
(***************************************************************************)
\* Every variable has its type, and an open document has no ciphertext left in it.
CipherTypeOK ==
  /\ phase \in {"plain", "stored", "open", "refused", "failed"}
  /\ format \in Formats /\ rule \in Rules /\ round \in 0..MaxRounds
  /\ phase = "open" /\ ~tangled /\ ~lossy => \A p \in Places(tree) : ~IsSealed(At(tree, p))

\* What is encrypted is what can be said of each place alone: the closest directive decides for
\* an item and all below it, then the rule, and comments stay in the clear unless a rule marks
\* them.  The code carries a stack of comments along the walk (walkSlice, walkBranch), which has
\* to be right at every depth.
EncryptsWhatIsMeant ==
  phase = "stored" =>
    \A p \in Places(tree) :
      ~Empty(At(tree, p)) /\ ~IsSealed(At(tree, p)) => (IsSealed(At(file.tree, p)) <=> Meant(tree, p))

\* Decryption, which sees encrypted comments where encryption saw plain ones, comes to the
\* same decisions, the same tree and the same MAC, unless a comment of a list was encrypted or
\* the format has moved, dropped or converted something.
DecryptUndoesEncrypt ==
  [][phase = "stored" /\ ~tangled /\ ReadsAsWritten => phase' = "open" /\ tree' = tree]_cipherVars

CommentPlaces(v) == {p \in Places(v) : IsComment(At(v, p))}

\* Whether the comments of the document have a say in what is encrypted.
CommentsDecide ==
  rule.comments # "none" \/ \E p \in CommentPlaces(tree) : Directive(At(tree, p).string)

\* As long as comments do not decide, every format gives back all values, and their MAC fits:
\* what json, ini and pxf do with comments, in whatever part of the tree, takes no value along.
\* In dotenv and ini that is so of texts only; another value that is written as it is becomes a
\* text (ValToString), and the MAC no longer fits.
FormatsKeepValues ==
  [][phase = "stored" /\ ~CommentsDecide /\ IsTextual(format, file.tree)
     => phase' = "open" /\ Uncommented(tree') = Uncommented(tree)]_cipherVars

Occurrences(v, c) == Cardinality({p \in Places(v) : At(v, p) = c})

\* The comments of a map that has an item; pxf has no others.
StandsAbove(v, p) ==
  LET holder == At(v, Front(p)) IN holder.kind = "map" /\ Entries(holder) # <<>>

\* pxf may give a comment another place, but loses none (branchToEntries keeps those behind
\* the last entry so that they "aren't dropped", and has a guard against losing those above
\* the first one), however blocks are nested in blocks and lists.
CommentsStayInPxf ==
  [][phase = "stored" /\ format = "pxf" /\ ~CommentsDecide
     /\ (\A p \in CommentPlaces(tree) : StandsAbove(tree, p))
     => \A p \in CommentPlaces(tree) :
          Occurrences(tree', At(tree, p)) = Occurrences(tree, At(tree, p))]_cipherVars

\* What the README says of a directive, that it is never encrypted and so round-trips through
\* encryption and decryption: a document with directives can be opened again.
DirectivesRoundTrip == [][phase = "stored" => phase' = "open"]_cipherVars

\* What the README says of the rules on names and of unencrypted_comment_regex: comments are
\* always encrypted.  Directives and comments that match are not asked for it, nor what they
\* speak of.
CommentsAreSealed ==
  rule.names # "none" \/ rule.comments = "unmarked" =>
    \A p \in CommentPlaces(tree) :
      {String(tree, q) : q \in Governing(tree, p) \cup {p}} \cap ({On, Off, Blank} \cup MarkedTexts) = {}
      => IsSealed(At(file.tree, p))

\* What the README says of directives in dotenv, that they have no effect: under a rule on names
\* the names alone decide of the values.
DirectivesIdleInDotenv ==
  format = "dotenv" /\ rule.names # "none" =>
    \A p \in Places(tree) \ CommentPlaces(tree) :
      LET named == Components(tree, p)[1] \in {Key(name) : name \in MarkedNames}
      IN ~Empty(At(tree, p)) => (IsSealed(At(file.tree, p)) <=> (named <=> rule.names = "marked"))

\* What the README says of comments and of dotenv, where the policy of shouldBeEncrypted is
\* another: what is stored is encrypted by it.
StoredAsDocumented == phase = "stored" => CommentsAreSealed /\ DirectivesIdleInDotenv

\* What the README says of encrypted_comment_regex, that values and comments behind a matching
\* comment are encrypted, and of every encrypted document: what was encrypted can be decrypted.
SealedDocumentsOpen == [][phase = "stored" => phase' = "open" /\ tree' = tree]_cipherVars

Alone(v, p) == \A q \in Places(v) \ {p} : Path(v, q) # Path(v, p) \/ At(v, q) # At(v, p)

\* The ciphertext at a place, which may be that of a comment.
Encrypted(v, p) == IF IsComment(At(v, p)) THEN String(v, p) ELSE At(v, p)

\* An edit leaves the ciphertexts of the values that it does not touch as they were, so that a
\* diff of the file shows what has changed (the stash of the cipher); only of two equal values
\* in one list, which the stash cannot tell apart, one may get the IV of the other.  (So may one
\* of two equal values whose keys have colons that make their paths the same text.)
UnchangedKeepTheirCiphertext ==
  phase = "stored" /\ last.edit # NoEdit =>
    \A p \in Places(last.before) \cap Places(tree) :
      /\ At(tree, p) = At(last.before, p) /\ Path(tree, p) = Path(last.before, p)
      /\ Alone(last.before, p) /\ ~IsSealed(At(tree, p))
      /\ IsSealed(At(file.tree, p)) /\ IsSealed(At(last.sealed, p))
      => Encrypted(file.tree, p) = Encrypted(last.sealed, p)

Related(a, b) == IsPrefix(a, b) \/ IsPrefix(b, a)

\* A path whose indices point to an element, or right behind the last.
Fits(v, path) ==
  \A d \in DOMAIN path : path[d].kind = "index" =>
    LET r == Truncate(v, SubSeq(path, 1, d - 1)) IN
    IF r.ok /\ IsContainer(r.value) THEN r.value.kind = "list" /\ path[d].at <= Len(r.value.items)
    ELSE path[d].at = 0

\* A path to a key that its map does not have a second time.
NotTwice(v, path) ==
  \A i, j \in Having(Truncate(v, Front(path)).value, Last(path)) : i = j

\* After `sops set' and `sops unset', --extract finds at the path what was set, or nothing, and
\* everything else where it was, unless a key that comes twice has led --extract to an index in
\* a map; and when set says that nothing has changed (with --idempotent it then does not
\* write), nothing has.
EditsAreLocal ==
  LET path == last.edit.path
      other(c) == (\A d \in DOMAIN c : ~IsComment(c[d])) /\ ~Related(c, path)
  IN phase = "plain" =>
     /\ last.edit.op = "set" =>
          /\ Fits(last.before, path) => Truncate(last.after, path) = Found(last.edit.value)
          /\ ~last.changed => last.after = last.before
     /\ last.edit.op = "unset" /\ Last(path).kind = "key" /\ NotTwice(last.before, path) =>
          ~Truncate(last.after, path).ok
     /\ last.edit.op = "set" \/ (last.edit.op = "unset" /\ Last(path).kind = "key") =>
          \A p \in Places(last.before) :
            LET c == Components(last.before, p)
            IN other(c) /\ Fits(last.before, c) /\ Truncate(last.before, c).ok =>
                 Truncate(last.after, c) = Truncate(last.before, c)
=============================================================================
